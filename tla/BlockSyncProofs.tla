--------------------------- MODULE BlockSyncProofs ---------------------------
(***************************************************************************)
(* Theorems about the block queue and the client thread, for any set of    *)
(* blocks, any tree, any number of verifiers and any bound.                *)
(***************************************************************************)
EXTENDS BlockSync, QueueOpsProofs

\* The number of finished blocks at the front of m_verifying exists.
LEMMA FinishedPrefixType ==
    ASSUME NEW q \in Seq(VerifyingEntry)
    PROVE  /\ FinishedPrefix(q) \in 0..Len(q)
           /\ \A i \in 1..FinishedPrefix(q) : q[i].done
<1> DEFINE T == {i \in 1..(Len(q) + 1) : i <= Len(q) => ~q[i].done}
<1>1. Len(q) \in Nat
  OBVIOUS
<1>2. Len(q) + 1 \in T /\ T \in SUBSET Nat
  BY <1>1
<1>3. PICK x \in T : \A y \in T : x <= y
  <2> HIDE DEF T
  <2> QED BY <1>2, LeastNatural
<1>4. x - 1 \in 0..Len(q) /\ (x - 1 < Len(q) => ~q[(x - 1) + 1].done)
  BY <1>1
<1>5. \A i \in 1..(x - 1) : q[i].done
  <2> SUFFICES ASSUME NEW i \in 1..(x - 1), ~q[i].done PROVE FALSE
    OBVIOUS
  <2>1. i \in 1..(Len(q) + 1) /\ ~(x <= i)
    BY <1>1
  <2> QED BY <1>3, <2>1
<1> QED BY <1>4, <1>5 DEF FinishedPrefix

LEMMA EntryType ==
    ASSUME NEW q \in Seq(VerifyingEntry), NEW e \in RangeOf(q)
    PROVE  e \in VerifyingEntry /\ e.hash \in Blocks /\ e.done \in BOOLEAN
<1>1. e \in VerifyingEntry
  BY DEF RangeOf
<1> QED BY <1>1 DEF VerifyingEntry

\* The hashes of a queue of entries, and of what is kept or cut of it.
LEMMA HashesOfProperties ==
    ASSUME NEW q \in Seq(VerifyingEntry)
    PROVE  /\ HashesOf(q) \in Seq(Blocks)
           /\ Len(HashesOf(q)) = Len(q)
           /\ RangeOf(HashesOf(q)) = {e.hash : e \in RangeOf(q)}
<1>0. DOMAIN q = 1..Len(q) /\ Len(q) \in Nat /\ \A i \in 1..Len(q) : q[i] \in VerifyingEntry
  OBVIOUS
<1>1. DOMAIN q = 1..Len(q) /\ Len(q) \in Nat /\ \A i \in 1..Len(q) : q[i].hash \in Blocks
  BY <1>0 DEF VerifyingEntry
<1>2. HashesOf(q) \in [1..Len(q) -> Blocks]
  BY <1>1 DEF HashesOf
<1>3. HashesOf(q) \in Seq(Blocks) /\ Len(HashesOf(q)) = Len(q)
  BY <1>1, <1>2
<1>4. RangeOf(HashesOf(q)) = {e.hash : e \in RangeOf(q)}
  BY DEF RangeOf, HashesOf
<1> QED BY <1>3, <1>4

LEMMA HashesOfKept ==
    ASSUME NEW q \in Seq(VerifyingEntry), NEW K \in SUBSET DOMAIN q
    PROVE  /\ KeptAt(q, K) \in Seq(VerifyingEntry)
           /\ RangeOf(KeptAt(q, K)) = {q[i] : i \in K}
           /\ Distinct(HashesOf(q)) => Distinct(HashesOf(KeptAt(q, K)))
<1>1. /\ KeptAt(q, K) \in Seq(VerifyingEntry)
      /\ RangeOf(KeptAt(q, K)) = {q[i] : i \in K}
      /\ Cardinality(K) \in Nat
  BY KeptAtProperties
<1>2. HashesOf(q) \in Seq(Blocks) /\ DOMAIN HashesOf(q) = DOMAIN q
  BY HashesOfProperties DEF HashesOf
<1>3. \A n \in 1..Cardinality(K) : NthOf(K, n) \in K
  BY KeptAtProperties, NthOfProperties
<1>4. HashesOf(KeptAt(q, K)) = KeptAt(HashesOf(q), K)
  BY <1>3 DEF HashesOf, KeptAt
<1>5. Distinct(HashesOf(q)) => Distinct(KeptAt(HashesOf(q), K))
  BY <1>2, KeptAtDistinct
<1> QED BY <1>1, <1>4, <1>5

\* Cutting a queue of entries cuts its hashes.
LEMMA HashesCut ==
    ASSUME NEW q \in Seq(VerifyingEntry), NEW n \in 0..Len(q)
    PROVE  /\ HashesOf(SubSeq(q, 1, n)) = SubSeq(HashesOf(q), 1, n)
           /\ HashesOf(SubSeq(q, n + 1, Len(q))) = SubSeq(HashesOf(q), n + 1, Len(HashesOf(q)))
<1> DEFINE h == HashesOf(q)
<1>1. h \in Seq(Blocks) /\ Len(h) = Len(q) /\ \A i \in 1..Len(q) : h[i] = q[i].hash
  BY HashesOfProperties DEF HashesOf
<1>2. HashesOf(SubSeq(q, 1, n)) = SubSeq(h, 1, n)
  <2> HIDE DEF h
  <2>1. Len(SubSeq(q, 1, n)) = n /\ \A i \in 1..n : SubSeq(q, 1, n)[i] = q[i]
    OBVIOUS
  <2>2. HashesOf(SubSeq(q, 1, n)) = [i \in 1..n |-> q[i].hash]
    BY <2>1 DEF HashesOf
  <2>3. SubSeq(h, 1, n) = [i \in 1..n |-> q[i].hash]
    BY <1>1
  <2> QED BY <2>2, <2>3
<1>3. HashesOf(SubSeq(q, n + 1, Len(q))) = SubSeq(h, n + 1, Len(h))
  <2> HIDE DEF h
  <2> DEFINE m == Len(q) - n
             b == SubSeq(q, n + 1, Len(q))
  <2>1. b \in Seq(VerifyingEntry) /\ Len(b) = m /\ \A i \in 1..m : b[i] = q[n + i]
    OBVIOUS
  <2>2. HashesOf(b) = [i \in 1..m |-> q[n + i].hash]
    <3> HIDE DEF b
    <3>1. DOMAIN b = 1..m
      BY <2>1
    <3> QED BY <2>1, <3>1 DEF HashesOf
  <2>3. SubSeq(h, n + 1, Len(h)) = [i \in 1..m |-> q[n + i].hash]
    <3>1. Len(SubSeq(h, n + 1, Len(h))) = m
      BY <1>1
    <3>2. \A i \in 1..m : SubSeq(h, n + 1, Len(h))[i] = h[n + i] /\ n + i \in 1..Len(q)
      BY <1>1
    <3> QED BY <1>1, <3>1, <3>2
  <2> QED BY <2>2, <2>3
<1> QED BY <1>2, <1>3

LEMMA HashesOfCut ==
    ASSUME NEW q \in Seq(VerifyingEntry), NEW n \in 0..Len(q), Distinct(HashesOf(q))
    PROVE  /\ Distinct(HashesOf(SubSeq(q, 1, n)))
           /\ Distinct(HashesOf(SubSeq(q, n + 1, Len(q))))
           /\ RangeOf(HashesOf(SubSeq(q, 1, n))) \cap RangeOf(HashesOf(SubSeq(q, n + 1, Len(q)))) = {}
<1> DEFINE h == HashesOf(q)
<1>1. h \in Seq(Blocks) /\ Len(h) = Len(q)
  BY HashesOfProperties
<1>2. /\ HashesOf(SubSeq(q, 1, n)) = SubSeq(h, 1, n)
      /\ HashesOf(SubSeq(q, n + 1, Len(q))) = SubSeq(h, n + 1, Len(h))
  BY HashesCut
<1>3. Distinct(SubSeq(h, 1, n)) /\ Distinct(SubSeq(h, n + 1, Len(h)))
      /\ RangeOf(SubSeq(h, 1, n)) \cap RangeOf(SubSeq(h, n + 1, Len(h))) = {}
  <2> HIDE DEF h
  <2>1. Distinct(h)
    BY DEF h
  <2> QED BY <1>1, <2>1, CutDistinct
<1> QED BY <1>2, <1>3

-----------------------------------------------------------------------------
(***************************************************************************)
(* drainVerified_WITH_BOTH_LOCKS: what enters m_verified was finished, what*)
(* leaves the ready set is bad, and nothing is duplicated.                 *)
(***************************************************************************)
LEMMA DrainVerifiedSound ==
    ASSUME NEW q \in Seq(VerifyingEntry), NEW bad \in SUBSET Hash, NEW ready \in SUBSET Blocks,
           m_verified \in Seq(Blocks), DrainVerified(q, bad, ready)
    PROVE  /\ m_verified' \in Seq(Blocks) /\ m_verifying' \in Seq(VerifyingEntry)
           /\ m_knownBad' \in SUBSET Hash /\ m_readySet' \in SUBSET Blocks
           /\ bad \subseteq m_knownBad' /\ m_knownBad' \subseteq bad \cup RangeOf(HashesOf(q))
           /\ ready \subseteq m_readySet' \cup m_knownBad' /\ m_readySet' \subseteq ready
           /\ RangeOf(m_verifying') \subseteq RangeOf(q)
           /\ \A b \in RangeOf(m_verified') :
                 b \in RangeOf(m_verified) \/ \E e \in RangeOf(q) : e.done /\ e.hash = b
           /\ Distinct(m_verified) /\ Distinct(HashesOf(q))
              /\ RangeOf(m_verified) \cap RangeOf(HashesOf(q)) = {}
              => /\ Distinct(m_verified') /\ Distinct(HashesOf(m_verifying'))
                 /\ RangeOf(m_verified') \cap RangeOf(HashesOf(m_verifying')) = {}
<1> DEFINE n == FinishedPrefix(q)
           B == DrainBad(q, n, bad)
           front == SubSeq(q, 1, n)
           back == SubSeq(q, n + 1, Len(q))
           K == DOMAIN front \ {i \in 1..n : q[i].hash \in B}
           good == KeptAt(front, K)
<1>1. n \in 0..Len(q) /\ \A i \in 1..n : q[i].done
  BY FinishedPrefixType
<1>2. /\ m_verifying' = back /\ m_verified' = m_verified \o HashesOf(good)
      /\ m_knownBad' = bad \cup B /\ m_readySet' = ready \ B
  BY DEF DrainVerified, RemoveIf
<1> HIDE DEF n
<1>3. /\ front \in Seq(VerifyingEntry) /\ back \in Seq(VerifyingEntry)
      /\ Len(front) = n /\ \A i \in 1..n : front[i] = q[i]
      /\ RangeOf(q) = RangeOf(front) \cup RangeOf(back)
  BY <1>1, CutProperties
<1>4. \A e \in RangeOf(front) : e.done
  BY <1>1, <1>3 DEF RangeOf
<1>5. B \subseteq Blocks /\ B \subseteq RangeOf(HashesOf(q))
  <2>1. \A i \in 1..n : q[i] \in RangeOf(q)
    BY <1>1 DEF RangeOf
  <2>2. \A i \in 1..n : q[i].hash \in Blocks
    BY <2>1, EntryType
  <2>3. B \subseteq {q[i].hash : i \in 1..n}
    BY DEF DrainBad
  <2>4. {q[i].hash : i \in 1..n} \subseteq {e.hash : e \in RangeOf(q)}
    BY <2>1
  <2> QED BY <2>2, <2>3, <2>4, HashesOfProperties
<1> HIDE DEF front, back, B
<1>6. K \in SUBSET DOMAIN front
  OBVIOUS
<1> HIDE DEF K
<1>7. /\ good \in Seq(VerifyingEntry)
      /\ RangeOf(good) \subseteq RangeOf(front)
      /\ Distinct(HashesOf(front)) => Distinct(HashesOf(good))
  <2>1. /\ good \in Seq(VerifyingEntry)
        /\ RangeOf(good) = {front[i] : i \in K}
        /\ Distinct(HashesOf(front)) => Distinct(HashesOf(good))
    BY <1>3, <1>6, HashesOfKept
  <2>2. {front[i] : i \in K} \subseteq RangeOf(front)
    BY <1>6 DEF RangeOf
  <2> QED BY <2>1, <2>2
<1> HIDE DEF good
<1>8. /\ HashesOf(good) \in Seq(Blocks) /\ RangeOf(HashesOf(good)) = {e.hash : e \in RangeOf(good)}
      /\ RangeOf(HashesOf(front)) = {e.hash : e \in RangeOf(front)}
      /\ RangeOf(HashesOf(back)) = {e.hash : e \in RangeOf(back)}
      /\ RangeOf(HashesOf(q)) = {e.hash : e \in RangeOf(q)}
  BY <1>3, <1>7, HashesOfProperties
<1>9. m_verified' \in Seq(Blocks) /\ RangeOf(m_verified') = RangeOf(m_verified) \cup RangeOf(HashesOf(good))
  BY <1>2, <1>8, ConcatRange
<1>10. \A b \in RangeOf(m_verified') :
         b \in RangeOf(m_verified) \/ \E e \in RangeOf(q) : e.done /\ e.hash = b
  BY <1>3, <1>4, <1>7, <1>8, <1>9
<1>11. ASSUME Distinct(m_verified), Distinct(HashesOf(q)),
              RangeOf(m_verified) \cap RangeOf(HashesOf(q)) = {}
       PROVE  /\ Distinct(m_verified') /\ Distinct(HashesOf(m_verifying'))
              /\ RangeOf(m_verified') \cap RangeOf(HashesOf(m_verifying')) = {}
  <2>1. /\ Distinct(HashesOf(front)) /\ Distinct(HashesOf(back))
        /\ RangeOf(HashesOf(front)) \cap RangeOf(HashesOf(back)) = {}
    BY <1>1, <1>11, HashesOfCut DEF front, back
  <2>2. RangeOf(m_verified) \cap RangeOf(HashesOf(good)) = {}
    BY <1>3, <1>7, <1>8, <1>11
  <2>3. Distinct(m_verified')
    BY <1>2, <1>7, <1>8, <1>11, <2>1, <2>2, ConcatDistinct
  <2>4. RangeOf(HashesOf(good)) \subseteq RangeOf(HashesOf(front))
        /\ RangeOf(HashesOf(back)) \subseteq RangeOf(HashesOf(q))
    BY <1>3, <1>7, <1>8
  <2>5. RangeOf(m_verified') \cap RangeOf(HashesOf(back)) = {}
    BY <1>9, <1>11, <2>1, <2>4
  <2> QED BY <1>2, <2>1, <2>3, <2>5
<1>12. /\ m_knownBad' \in SUBSET Hash /\ m_readySet' \in SUBSET Blocks
       /\ bad \subseteq m_knownBad' /\ m_knownBad' \subseteq bad \cup RangeOf(HashesOf(q))
       /\ ready \subseteq m_readySet' \cup m_knownBad' /\ m_readySet' \subseteq ready
  BY <1>2, <1>5 DEF Hash
<1>13. m_verifying' \in Seq(VerifyingEntry) /\ RangeOf(m_verifying') \subseteq RangeOf(q)
  BY <1>2, <1>3
<1> QED BY <1>9, <1>10, <1>11, <1>12, <1>13

-----------------------------------------------------------------------------
(***************************************************************************)
(* The inductive invariant.  Its part about the queue says that a job      *)
(* belongs to a verifier and that no block is queued twice; the two need   *)
(* each other, and both need that what is queued is known to import() and  *)
(* does not wait in m_unknown.                                             *)
(***************************************************************************)
Pipelined == QueuedOnce /\ QueuedKnown /\ UnknownNotQueued /\ JobsOwned
VerifiedValid ==
    /\ RangeOf(m_verified) \subseteq SealValid
    /\ chain \subseteq SealValid
    /\ \A e \in RangeOf(m_verifying) : e.done => e.hash \in SealValid
QueueInv == QueueTypeOK /\ VerifiedValid /\ Pipelined
ClientInv == ClientTypeOK /\ RangeOf(batch) \subseteq SealValid
IInv == QueueInv /\ ClientInv

\* Removing blocks from the pipeline, and moving ready blocks to the bad,
\* keeps it sound.
LEMMA ShrinkKeepsPipelined ==
    ASSUME QueueInv, QueueTypeOK',
           Distinct(m_verified'), Distinct(HashesOf(m_verifying')), Distinct(m_unverified'),
           RangeOf(m_verified') \subseteq RangeOf(m_verified),
           RangeOf(m_verifying') \subseteq RangeOf(m_verifying),
           RangeOf(m_unverified') \subseteq RangeOf(m_unverified),
           m_knownBad \subseteq m_knownBad', m_readySet \subseteq m_readySet' \cup m_knownBad',
           m_unknown' \subseteq m_unknown, work' = work, chain' = chain
    PROVE  QueueInv' /\ Queued' \subseteq Queued
<1>1. /\ VerifyingHashes = {e.hash : e \in RangeOf(m_verifying)}
      /\ VerifyingHashes' = {e.hash : e \in RangeOf(m_verifying')}
  BY HashesOfProperties DEF QueueInv, QueueTypeOK, VerifyingHashes
<1>2. VerifyingHashes' \subseteq VerifyingHashes
  BY <1>1
<1>3. Queued' \subseteq Queued
  BY <1>2 DEF Queued
<1>4. VerifiedValid'
  BY DEF QueueInv, VerifiedValid
<1>5. QueuedOnce'
  BY <1>2 DEF QueueInv, Pipelined, QueuedOnce
<1>6. QueuedKnown' /\ UnknownNotQueued'
  BY <1>3 DEF QueueInv, Pipelined, QueuedKnown, UnknownNotQueued
<1>7. JobsOwned'
  BY DEF QueueInv, Pipelined, JobsOwned
<1> QED BY <1>3, <1>4, <1>5, <1>6, <1>7 DEF QueueInv, Pipelined

\* Adding to the end of m_unverified blocks that are not queued and become known.
LEMMA GrowKeepsPipelined ==
    ASSUME QueueInv, QueueTypeOK', NEW s \in Seq(Blocks), Distinct(s),
           m_unverified' = m_unverified \o s, RangeOf(s) \cap Queued = {},
           UNCHANGED <<m_verified, m_verifying, m_knownBad, work, chain>>,
           m_readySet' = m_readySet \cup RangeOf(s),
           m_unknown' \subseteq m_unknown \ RangeOf(s)
    PROVE  QueueInv' /\ Queued' = Queued \cup RangeOf(s)
<1>1. RangeOf(m_unverified') = RangeOf(m_unverified) \cup RangeOf(s)
  BY ConcatRange DEF QueueInv, QueueTypeOK
<1>2. Distinct(m_unverified')
  BY ConcatDistinct DEF QueueInv, QueueTypeOK, Pipelined, QueuedOnce, Queued
<1>3. VerifyingHashes' = VerifyingHashes
  BY DEF VerifyingHashes
<1>4. Queued' = Queued \cup RangeOf(s)
  BY <1>1, <1>3 DEF Queued
<1>5. VerifiedValid'
  BY DEF QueueInv, VerifiedValid
<1>6. QueuedOnce'
  BY <1>1, <1>2, <1>3 DEF QueueInv, Pipelined, QueuedOnce, Queued
<1>7. QueuedKnown' /\ UnknownNotQueued'
  BY <1>4 DEF QueueInv, Pipelined, QueuedKnown, UnknownNotQueued
<1>8. JobsOwned'
  BY DEF QueueInv, Pipelined, JobsOwned
<1> QED BY <1>4, <1>5, <1>6, <1>7, <1>8 DEF QueueInv, Pipelined

\* Steps that leave the pipeline alone.
LEMMA FrameKeepsQueueInv ==
    ASSUME QueueInv, QueueTypeOK',
           UNCHANGED <<m_readySet, m_verified, m_verifying, m_unverified, work>>,
           m_knownBad \subseteq m_knownBad',
           m_unknown' \cap Queued \subseteq m_unknown, chain' \subseteq SealValid
    PROVE  QueueInv'
<1>1. VerifyingHashes' = VerifyingHashes /\ Queued' = Queued
  BY DEF VerifyingHashes, Queued
<1>2. VerifiedValid'
  BY DEF QueueInv, VerifiedValid
<1>3. QueuedOnce'
  BY <1>1 DEF QueueInv, Pipelined, QueuedOnce
<1>4. QueuedKnown' /\ UnknownNotQueued'
  BY <1>1 DEF QueueInv, Pipelined, QueuedKnown, UnknownNotQueued
<1>5. JobsOwned'
  BY DEF QueueInv, Pipelined, JobsOwned
<1> QED BY <1>2, <1>3, <1>4, <1>5 DEF QueueInv, Pipelined

-----------------------------------------------------------------------------
(***************************************************************************)
(* import().                                                               *)
(***************************************************************************)
\* The number of members of a queue that pass a test is at most its length.
LEMMA CountBounded ==
    ASSUME NEW S, NEW q \in Seq(S), NEW K \in SUBSET DOMAIN q
    PROVE  Cardinality(K) \in 0..Len(q)
BY KeptAtProperties

LEMMA InsertFutureType ==
    ASSUME NEW b \in Blocks, m_future \in Seq(Blocks)
    PROVE  InsertFuture(b) \in Seq(Blocks)
<1> DEFINE K == {i \in DOMAIN m_future : Timestamp[m_future[i]] <= Timestamp[b]}
           k == Cardinality(K)
<1>1. k \in 0..Len(m_future)
  <2>1. K \in SUBSET DOMAIN m_future
    OBVIOUS
  <2> HIDE DEF K
  <2> QED BY <2>1, CountBounded
<1>2. InsertFuture(b) = SubSeq(m_future, 1, k) \o <<b>> \o SubSeq(m_future, k + 1, Len(m_future))
  BY DEF InsertFuture
<1> HIDE DEF k
<1>3. SubSeq(m_future, 1, k) \in Seq(Blocks) /\ SubSeq(m_future, k + 1, Len(m_future)) \in Seq(Blocks)
  BY <1>1, CutProperties
<1>4. <<b>> \in Seq(Blocks)
  OBVIOUS
<1>5. SubSeq(m_future, 1, k) \o <<b>> \in Seq(Blocks)
  BY <1>3, <1>4, ConcatRange
<1> QED BY <1>2, <1>3, <1>5, ConcatRange

\* A block that import() does not know is not in the pipeline.
LEMMA NewNotQueued ==
    ASSUME QueueInv, NEW b \in Blocks, ImportNew(b)
    PROVE  b \notin Queued
BY DEF QueueInv, Pipelined, QueuedKnown, ImportNew

LEMMA ImportFutureKeepsInv ==
    ASSUME QueueInv, NEW b \in Blocks, NEW t \in Nat, ImportFuture(b, t)
    PROVE  QueueInv'
<1>1. m_future' \in Seq(Blocks)
  BY InsertFutureType DEF QueueInv, QueueTypeOK, ImportFuture
<1>2. m_difficulty' \in Int
  BY HeaderAssumption DEF QueueInv, QueueTypeOK, ImportFuture, AddDifficulty
<1>3. QueueTypeOK'
  BY <1>1, <1>2 DEF QueueInv, QueueTypeOK, ImportFuture, queueVars, threadVars
<1> QED BY <1>3, FrameKeepsQueueInv
        DEF QueueInv, VerifiedValid, ImportFuture, queueVars, threadVars

LEMMA ImportBadChainKeepsInv ==
    ASSUME QueueInv, NEW b \in Blocks, ImportBadChain(b)
    PROVE  QueueInv'
<1>1. m_updateBad' \in Seq(Blocks)
  BY DEF ImportBadChain
<1>2. QueueTypeOK'
  BY <1>1 DEF QueueInv, QueueTypeOK, ImportBadChain, queueVars, difficultyVars, threadVars, Hash
<1> QED BY <1>2, FrameKeepsQueueInv
        DEF QueueInv, VerifiedValid, ImportBadChain, queueVars, threadVars

LEMMA ImportUnknownParentKeepsInv ==
    ASSUME QueueInv, NEW b \in Blocks, ImportUnknownParent(b)
    PROVE  QueueInv'
<1>1. m_difficulty' \in Int
  BY HeaderAssumption DEF QueueInv, QueueTypeOK, ImportUnknownParent, AddDifficulty
<1>2. QueueTypeOK'
  BY <1>1 DEF QueueInv, QueueTypeOK, ImportUnknownParent, queueVars, threadVars
<1>3. b \notin Queued
  BY NewNotQueued DEF ImportUnknownParent
<1>4. m_unknown' \cap Queued \subseteq m_unknown
  BY <1>3 DEF ImportUnknownParent
<1> QED BY <1>2, <1>4, FrameKeepsQueueInv
        DEF QueueInv, VerifiedValid, ImportUnknownParent, queueVars, threadVars

LEMMA UnknownOrdering ==
    ASSUME NEW S \in SUBSET Blocks, NEW s \in Orderings(S)
    PROVE  s \in Seq(Blocks) /\ Distinct(s) /\ RangeOf(s) = S
<1>1. IsFiniteSet(S)
  BY BlocksAssumption, FS_Subset
<1>2. s \in Seq(S) /\ RangeOf(s) = S /\ Distinct(s)
  BY <1>1, OrderingsProperties, OrderingDistinct
<1> QED BY <1>2

LEMMA ImportReadyKeepsInv ==
    ASSUME QueueInv, NEW b \in Blocks, ImportReady(b)
    PROVE  QueueInv' /\ Queued' = Queued \cup {b} \cup WaitsFor(m_unknown, b)
<1> DEFINE released == WaitsFor(m_unknown, b)
<1>1. PICK s \in BreadthFirst(released) : m_unverified' = Append(m_unverified, b) \o s
  BY DEF ImportReady
<1>2. released \subseteq m_unknown /\ m_unknown \subseteq Blocks /\ m_unverified \in Seq(Blocks)
  BY DEF WaitsFor, QueueInv, QueueTypeOK
<1>3. m_readySet' = m_readySet \cup {b} \cup released /\ m_unknown' = m_unknown \ released
  BY DEF ImportReady, ReadyWith
<1> HIDE DEF released
<1>4. s \in Seq(Blocks) /\ Distinct(s) /\ RangeOf(s) = released
  BY <1>2, UnknownOrdering DEF BreadthFirst
<1> DEFINE r == <<b>> \o s
<1>5. <<b>> \in Seq(Blocks) /\ Distinct(<<b>>) /\ RangeOf(<<b>>) = {b}
  BY DEF Distinct, RangeOf
<1>6. b \notin m_unknown /\ b \notin Queued
  BY NewNotQueued DEF ImportReady, ImportNew
<1>7. r \in Seq(Blocks) /\ RangeOf(r) = {b} \cup released /\ Distinct(r)
  <2> DEFINE one == <<b>>
  <2>1. one \in Seq(Blocks) /\ Distinct(one) /\ RangeOf(one) = {b} /\ r = one \o s
    BY <1>5
  <2> HIDE DEF one, r
  <2>2. r \in Seq(Blocks) /\ RangeOf(r) = RangeOf(one) \cup RangeOf(s)
    BY <1>4, <2>1, ConcatRange
  <2>3. RangeOf(one) \cap RangeOf(s) = {}
    BY <1>2, <1>4, <1>6, <2>1
  <2>4. Distinct(r)
    BY <1>4, <2>1, <2>3, ConcatDistinct
  <2> QED BY <1>4, <2>1, <2>2, <2>4
<1>8. m_unverified' = m_unverified \o r
  BY <1>1, <1>2, <1>4
<1> HIDE DEF r
<1>9. m_unverified' \in Seq(Blocks)
  BY <1>2, <1>7, <1>8, ConcatRange
<1>10. m_difficulty' \in Int
  BY HeaderAssumption DEF QueueInv, QueueTypeOK, ImportReady, AddDifficulty
<1>11. UNCHANGED <<m_drainingSet, m_knownBad, m_future, m_verified, m_verifying,
                   m_drainingDifficulty, m_updateBad, work, signalled, chain, m_lastBlockHash>>
  BY DEF ImportReady, threadVars
<1>12. QueueTypeOK'
  BY <1>2, <1>3, <1>9, <1>10, <1>11 DEF QueueInv, QueueTypeOK
<1>13. RangeOf(r) \cap Queued = {}
  BY <1>2, <1>6, <1>7 DEF QueueInv, Pipelined, UnknownNotQueued
<1>14. m_readySet' = m_readySet \cup RangeOf(r) /\ m_unknown' \subseteq m_unknown \ RangeOf(r)
  BY <1>3, <1>6, <1>7
<1>15. QueueInv' /\ Queued' = Queued \cup RangeOf(r)
  BY <1>7, <1>8, <1>11, <1>12, <1>13, <1>14, GrowKeepsPipelined
<1> QED BY <1>7, <1>15 DEF released

LEMMA ImportKeepsInv ==
    ASSUME QueueInv, NEW b \in Blocks, NEW isOurs, NEW t \in Nat, Import(b, isOurs, t)
    PROVE  QueueInv'
BY ImportFutureKeepsInv, ImportBadChainKeepsInv, ImportUnknownParentKeepsInv,
   ImportReadyKeepsInv DEF Import

LEMMA RetryKeepsInv ==
    ASSUME QueueInv, RetryAllUnknown
    PROVE  QueueInv' /\ Queued' = Queued \cup m_unknown
<1>1. PICK s \in Orderings(m_unknown) : m_unverified' = m_unverified \o s
  BY DEF RetryAllUnknown
<1>2. s \in Seq(Blocks) /\ Distinct(s) /\ RangeOf(s) = m_unknown
  BY UnknownOrdering DEF QueueInv, QueueTypeOK
<1>3. m_unverified' \in Seq(Blocks)
  BY <1>1, <1>2, ConcatRange DEF QueueInv, QueueTypeOK
<1>4. QueueTypeOK'
  BY <1>3 DEF QueueInv, QueueTypeOK, RetryAllUnknown, difficultyVars, threadVars
<1>5. RangeOf(s) \cap Queued = {}
  BY <1>2 DEF QueueInv, Pipelined, UnknownNotQueued
<1>6. m_readySet' = m_readySet \cup RangeOf(s) /\ m_unknown' \subseteq m_unknown \ RangeOf(s)
  BY <1>2 DEF RetryAllUnknown
<1>7. QueueInv' /\ Queued' = Queued \cup RangeOf(s)
  BY <1>1, <1>2, <1>4, <1>5, <1>6, GrowKeepsPipelined DEF RetryAllUnknown, threadVars
<1> QED BY <1>2, <1>7

-----------------------------------------------------------------------------
(***************************************************************************)
(* verifierBody.                                                           *)
(***************************************************************************)
LEMMA TakeKeepsInv ==
    ASSUME QueueInv, NEW v \in Verifiers, Take(v)
    PROVE  /\ QueueInv' /\ Queued' = Queued
           /\ HashesOf(m_verifying') = Append(HashesOf(m_verifying), Head(m_unverified))
<1> DEFINE h == Head(m_unverified)
           e == [hash |-> h, done |-> FALSE]
<1>1. /\ m_unverified \in Seq(Blocks) /\ m_unverified # <<>> /\ Distinct(m_unverified)
      /\ m_verifying \in Seq(VerifyingEntry) /\ Distinct(HashesOf(m_verifying))
      /\ work \in [Verifiers -> Blocks \cup {NoBlock}] /\ work[v] = NoBlock
  BY DEF QueueInv, QueueTypeOK, Pipelined, QueuedOnce, Take
<1>2. /\ work' = [work EXCEPT ![v] = h] /\ m_unverified' = Tail(m_unverified)
      /\ m_verifying' = Append(m_verifying, e)
      /\ UNCHANGED <<m_readySet, m_drainingSet, m_unknown, m_knownBad, m_future, m_verified,
                     m_difficulty, m_drainingDifficulty, m_updateBad, signalled, chain, m_lastBlockHash>>
  BY DEF Take, setVars, difficultyVars
<1>3. /\ h \in Blocks /\ m_unverified' \in Seq(Blocks) /\ Distinct(m_unverified')
      /\ RangeOf(m_unverified) = {h} \cup RangeOf(m_unverified') /\ h \notin RangeOf(m_unverified')
  BY <1>1, <1>2, HeadTailRange
<1> HIDE DEF h
<1>4. e \in VerifyingEntry /\ e.hash = h /\ e.done = FALSE
  BY <1>3 DEF VerifyingEntry
<1> HIDE DEF e
<1>5. m_verifying' \in Seq(VerifyingEntry) /\ RangeOf(m_verifying') = RangeOf(m_verifying) \cup {e}
  BY <1>1, <1>2, <1>4, AppendRange
<1>6. HashesOf(m_verifying') = Append(HashesOf(m_verifying), h)
  <2>1. /\ Len(m_verifying') = Len(m_verifying) + 1
        /\ \A i \in 1..Len(m_verifying) : m_verifying'[i] = m_verifying[i]
        /\ m_verifying'[Len(m_verifying) + 1] = e
    BY <1>1, <1>2
  <2>2. HashesOf(m_verifying) \in Seq(Blocks) /\ Len(HashesOf(m_verifying)) = Len(m_verifying)
    BY <1>1, HashesOfProperties
  <2>3. HashesOf(m_verifying') =
            [i \in 1..(Len(m_verifying) + 1) |->
                IF i <= Len(m_verifying) THEN m_verifying[i].hash ELSE h]
    BY <1>1, <1>4, <1>5, <2>1 DEF HashesOf
  <2>4. \A i \in 1..Len(m_verifying) : HashesOf(m_verifying)[i] = m_verifying[i].hash
    BY <1>1 DEF HashesOf
  <2> DEFINE hs == HashesOf(m_verifying)
  <2>5. hs \in Seq(Blocks) /\ Len(hs) = Len(m_verifying)
        /\ \A i \in 1..Len(m_verifying) : hs[i] = m_verifying[i].hash
    BY <2>2, <2>4
  <2> HIDE DEF hs
  <2>6. Append(hs, h) = [i \in 1..(Len(m_verifying) + 1) |->
                            IF i = Len(m_verifying) + 1 THEN h ELSE hs[i]]
    BY <1>3, <2>5, AppendFunction
  <2>7. \A i \in 1..(Len(m_verifying) + 1) :
           (IF i = Len(m_verifying) + 1 THEN h ELSE hs[i])
               = (IF i <= Len(m_verifying) THEN m_verifying[i].hash ELSE h)
    BY <1>1, <2>5
  <2>8. Append(hs, h) = [i \in 1..(Len(m_verifying) + 1) |->
                            IF i <= Len(m_verifying) THEN m_verifying[i].hash ELSE h]
    BY <2>6, <2>7
  <2> QED BY <2>3, <2>8 DEF hs
<1>7. HashesOf(m_verifying) \in Seq(Blocks)
  BY <1>1, HashesOfProperties
<1>8. h \notin VerifyingHashes /\ h \notin RangeOf(m_verified) /\ h \in Queued
  BY <1>3 DEF QueueInv, Pipelined, QueuedOnce, Queued
<1>9. VerifyingHashes' = VerifyingHashes \cup {h} /\ Distinct(HashesOf(m_verifying'))
  BY <1>1, <1>3, <1>6, <1>7, <1>8, AppendRange DEF VerifyingHashes
<1>10. Queued' = Queued
  BY <1>2, <1>3, <1>9 DEF Queued
<1>11. QueueTypeOK'
  BY <1>1, <1>2, <1>3, <1>5 DEF QueueInv, QueueTypeOK
<1>12. VerifiedValid'
  BY <1>2, <1>4, <1>5 DEF QueueInv, VerifiedValid
<1>13. QueuedOnce'
  BY <1>2, <1>3, <1>8, <1>9 DEF QueueInv, Pipelined, QueuedOnce
<1>14. QueuedKnown' /\ UnknownNotQueued'
  BY <1>2, <1>10 DEF QueueInv, Pipelined, QueuedKnown, UnknownNotQueued
<1>15. JobsOwned'
  <2> SUFFICES ASSUME NEW d \in RangeOf(m_verifying'), ~d.done
               PROVE  \E u \in Verifiers : work'[u] = d.hash
    BY DEF JobsOwned
  <2>1. CASE d = e
    BY <1>1, <1>2, <1>4, <2>1
  <2>2. CASE d \in RangeOf(m_verifying)
    <3>1. PICK u \in Verifiers : work[u] = d.hash
      BY <2>2 DEF QueueInv, Pipelined, JobsOwned
    <3>2. d.hash \in Blocks
      BY <1>1, <2>2, EntryType
    <3>3. u # v
      BY <1>1, <3>1, <3>2, BlocksAssumption
    <3> QED BY <1>1, <1>2, <3>1, <3>3
  <2> QED BY <1>5, <2>1, <2>2
<1>16. QueueInv'
  BY <1>11, <1>12, <1>13, <1>14, <1>15 DEF QueueInv, Pipelined
<1> QED BY <1>6, <1>10, <1>16 DEF h

\* What a verifier that returns its job may change: the job and blocks of
\* m_verifying go bad, the job and finished blocks move on.
Returned(v) ==
    /\ work' = [work EXCEPT ![v] = NoBlock]
    /\ UNCHANGED <<m_drainingSet, m_unknown, m_unverified, m_updateBad, chain, m_lastBlockHash>>
    /\ m_knownBad' \subseteq m_knownBad \cup {work[v]} \cup Queued
    /\ m_readySet' \subseteq m_readySet
    /\ m_readySet \cup m_knownBad \subseteq m_readySet' \cup m_knownBad'
    /\ \A b \in RangeOf(m_verified') :
          \/ b \in RangeOf(m_verified) \cup {work[v]}
          \/ \E e \in RangeOf(m_verifying) : e.done /\ e.hash = b
    /\ \A e \in RangeOf(m_verifying') :
          e.done => e \in RangeOf(m_verifying) \/ e.hash = work[v]

\* A verifier that returns its job: m_verifying becomes q, which holds no
\* unfinished placeholder of that job, and is drained.
LEMMA ReturnKeepsInv ==
    ASSUME QueueInv, NEW v \in Verifiers,
           NEW q \in Seq(VerifyingEntry), Distinct(HashesOf(q)),
           RangeOf(HashesOf(q)) \subseteq VerifyingHashes,
           \A e \in RangeOf(q) : e.done => e.hash \in SealValid,
           \A e \in RangeOf(q) : ~e.done => e \in RangeOf(m_verifying) /\ e.hash # work[v],
           \A e \in RangeOf(q) : e.done => e \in RangeOf(m_verifying) \/ e.hash = work[v],
           NEW bad \in SUBSET Hash, m_knownBad \subseteq bad, bad \subseteq m_knownBad \cup {work[v]},
           NEW ready \in SUBSET Blocks, m_readySet \subseteq ready \cup bad, ready \subseteq m_readySet,
           DrainVerified(q, bad, ready),
           work' = [work EXCEPT ![v] = NoBlock], signalled' \subseteq Verifiers,
           UNCHANGED <<m_drainingSet, m_unknown, m_future, m_unverified, m_difficulty,
                       m_drainingDifficulty, m_updateBad, chain, m_lastBlockHash>>
    PROVE  QueueInv' /\ Queued' \subseteq Queued /\ Returned(v)
<1>1. /\ m_verified \in Seq(Blocks) /\ Distinct(m_verified)
      /\ RangeOf(m_verified) \cap RangeOf(HashesOf(q)) = {}
      /\ work \in [Verifiers -> Blocks \cup {NoBlock}]
  BY DEF QueueInv, QueueTypeOK, Pipelined, QueuedOnce
<1>2. /\ m_verified' \in Seq(Blocks) /\ m_verifying' \in Seq(VerifyingEntry)
      /\ m_knownBad' \in SUBSET Hash /\ m_readySet' \in SUBSET Blocks
      /\ bad \subseteq m_knownBad' /\ m_knownBad' \subseteq bad \cup RangeOf(HashesOf(q))
      /\ ready \subseteq m_readySet' \cup m_knownBad' /\ m_readySet' \subseteq ready
      /\ RangeOf(m_verifying') \subseteq RangeOf(q)
      /\ \A b \in RangeOf(m_verified') :
            b \in RangeOf(m_verified) \/ \E e \in RangeOf(q) : e.done /\ e.hash = b
      /\ Distinct(m_verified') /\ Distinct(HashesOf(m_verifying'))
      /\ RangeOf(m_verified') \cap RangeOf(HashesOf(m_verifying')) = {}
  BY <1>1, DrainVerifiedSound
<1>3. /\ RangeOf(HashesOf(q)) = {e.hash : e \in RangeOf(q)}
      /\ VerifyingHashes' = {e.hash : e \in RangeOf(m_verifying')}
  BY <1>2, HashesOfProperties DEF VerifyingHashes
<1>4. VerifyingHashes' \subseteq VerifyingHashes
  BY <1>2, <1>3
<1>5. RangeOf(m_verified') \subseteq RangeOf(m_verified) \cup VerifyingHashes
  BY <1>2, <1>3
<1>6. Queued' \subseteq Queued
  BY <1>4, <1>5 DEF Queued
<1>7. QueueTypeOK'
  BY <1>1, <1>2 DEF QueueInv, QueueTypeOK
<1>8. VerifiedValid'
  BY <1>2 DEF QueueInv, VerifiedValid
<1>9. QueuedOnce'
  BY <1>2, <1>4, <1>5 DEF QueueInv, Pipelined, QueuedOnce, VerifyingHashes
<1>10. QueuedKnown' /\ UnknownNotQueued'
  BY <1>2, <1>6 DEF QueueInv, Pipelined, QueuedKnown, UnknownNotQueued
<1>11. JobsOwned'
  <2> SUFFICES ASSUME NEW d \in RangeOf(m_verifying'), ~d.done
               PROVE  \E u \in Verifiers : work'[u] = d.hash
    BY DEF JobsOwned
  <2>1. d \in RangeOf(m_verifying) /\ d.hash # work[v]
    BY <1>2
  <2>2. PICK u \in Verifiers : work[u] = d.hash
    BY <2>1 DEF QueueInv, Pipelined, JobsOwned
  <2> QED BY <1>1, <2>1, <2>2
<1>12. Returned(v)
  <2>1. /\ m_knownBad' \subseteq m_knownBad \cup {work[v]} \cup Queued
        /\ m_readySet' \subseteq m_readySet
        /\ m_readySet \cup m_knownBad \subseteq m_readySet' \cup m_knownBad'
    BY <1>2 DEF Queued
  <2>2. \A b \in RangeOf(m_verified') :
           \/ b \in RangeOf(m_verified) \cup {work[v]}
           \/ \E e \in RangeOf(m_verifying) : e.done /\ e.hash = b
    BY <1>2
  <2>3. \A e \in RangeOf(m_verifying') :
           e.done => e \in RangeOf(m_verifying) \/ e.hash = work[v]
    BY <1>2
  <2> QED BY <2>1, <2>2, <2>3 DEF Returned
<1> QED BY <1>6, <1>7, <1>8, <1>9, <1>10, <1>11, <1>12 DEF QueueInv, Pipelined

LEMMA VerifyFailedKeepsInv ==
    ASSUME QueueInv, NEW v \in Verifiers, VerifyFailed(v)
    PROVE  QueueInv' /\ Queued' \subseteq Queued /\ Returned(v)
<1> DEFINE K == DOMAIN m_verifying \ PlaceholdersOf(work[v])
           q == KeptAt(m_verifying, K)
           bad == m_knownBad \cup {work[v]}
           ready == m_readySet \ {work[v]}
<1>1. /\ m_verifying \in Seq(VerifyingEntry) /\ Distinct(HashesOf(m_verifying))
      /\ work[v] \in Blocks /\ m_knownBad \subseteq Hash /\ m_readySet \subseteq Blocks
      /\ signalled \subseteq Verifiers
  BY DEF QueueInv, QueueTypeOK, Pipelined, QueuedOnce, VerifyFailed
<1>2. /\ DrainVerified(q, bad, ready) /\ work' = [work EXCEPT ![v] = NoBlock]
      /\ UNCHANGED <<m_drainingSet, m_unknown, m_future, m_unverified, m_difficulty,
                     m_drainingDifficulty, m_updateBad, signalled, chain, m_lastBlockHash>>
  BY DEF VerifyFailed, RemoveIf, difficultyVars
<1>3. /\ K \in SUBSET DOMAIN m_verifying
      /\ \A i \in K : Sha3Uncles(m_verifying[i]) # work[v]
  BY DEF PlaceholdersOf
<1> HIDE DEF K
<1>4. /\ q \in Seq(VerifyingEntry) /\ RangeOf(q) = {m_verifying[i] : i \in K}
      /\ Distinct(HashesOf(q))
  BY <1>1, <1>3, HashesOfKept
<1> HIDE DEF q
<1>5. RangeOf(q) \subseteq RangeOf(m_verifying)
  BY <1>3, <1>4 DEF RangeOf
<1>6. RangeOf(HashesOf(q)) \subseteq VerifyingHashes
  BY <1>1, <1>4, <1>5, HashesOfProperties DEF VerifyingHashes
<1>7. \A e \in RangeOf(q) : e.done => e.hash \in SealValid
  BY <1>5 DEF QueueInv, VerifiedValid
<1>8. \A e \in RangeOf(q) : ~e.done => e \in RangeOf(m_verifying) /\ e.hash # work[v]
  BY <1>3, <1>4, <1>5 DEF Sha3Uncles
<1>9. /\ bad \in SUBSET Hash /\ ready \in SUBSET Blocks /\ m_knownBad \subseteq bad
      /\ bad \subseteq m_knownBad \cup {work[v]}
      /\ m_readySet \subseteq ready \cup bad /\ ready \subseteq m_readySet
  BY <1>1 DEF Hash
<1> HIDE DEF bad, ready
<1>10. signalled' \subseteq Verifiers
  BY <1>1, <1>2
<1>11. \A e \in RangeOf(q) : e.done => e \in RangeOf(m_verifying) \/ e.hash = work[v]
  BY <1>5
<1> QED BY <1>2, <1>4, <1>6, <1>7, <1>8, <1>9, <1>10, <1>11, ReturnKeepsInv

\* The placeholder that carries a block's hash is not finished.
LEMMA PlaceholderOf ==
    ASSUME NEW e \in VerifyingEntry, NEW b \in Blocks, Sha3Uncles(e) = b
    PROVE  ~e.done /\ e.hash = b
BY BlocksAssumption DEF Sha3Uncles, VerifyingEntry

LEMMA VerifiedInTurnKeepsInv ==
    ASSUME QueueInv, NEW v \in Verifiers, VerifiedInTurn(v)
    PROVE  /\ QueueInv' /\ Queued' \subseteq Queued /\ Returned(v)
           /\ \E q \in Seq(VerifyingEntry) :
                 HashesOf(q) = HashesOf(m_verifying) /\ DrainVerified(q, m_knownBad, m_readySet)
<1> DEFINE q == [m_verifying EXCEPT ![1].done = TRUE]
<1>1. /\ m_verifying \in Seq(VerifyingEntry) /\ Distinct(HashesOf(m_verifying))
      /\ work[v] \in SealValid /\ work[v] \in Blocks
      /\ m_knownBad \in SUBSET Hash /\ m_readySet \in SUBSET Blocks
      /\ signalled \subseteq Verifiers /\ m_verifying # <<>>
      /\ Sha3Uncles(Head(m_verifying)) = work[v]
  BY HeaderAssumption
     DEF QueueInv, QueueTypeOK, Pipelined, QueuedOnce, VerifiedInTurn, WeAreNext
<1>2. /\ DrainVerified(q, m_knownBad, m_readySet) /\ work' = [work EXCEPT ![v] = NoBlock]
      /\ signalled' = signalled \cup {v}
      /\ UNCHANGED <<m_drainingSet, m_unknown, m_future, m_unverified, m_difficulty,
                     m_drainingDifficulty, m_updateBad, chain, m_lastBlockHash>>
  BY DEF VerifiedInTurn, difficultyVars
<1>3. /\ Len(m_verifying) \in Nat \ {0} /\ DOMAIN m_verifying = 1..Len(m_verifying)
      /\ Head(m_verifying) = m_verifying[1]
      /\ \A i \in 1..Len(m_verifying) : m_verifying[i] \in VerifyingEntry
  BY <1>1
<1>4. ~m_verifying[1].done /\ m_verifying[1].hash = work[v] /\ 1 \in 1..Len(m_verifying)
  BY <1>1, <1>3, PlaceholderOf
<1>5. /\ DOMAIN q = 1..Len(m_verifying)
      /\ q[1] = [m_verifying[1] EXCEPT !.done = TRUE]
      /\ \A i \in 1..Len(m_verifying) : i # 1 => q[i] = m_verifying[i]
  BY <1>3, <1>4
<1>6. q[1] \in VerifyingEntry /\ q[1].hash = work[v] /\ q[1].done
  BY <1>3, <1>4, <1>5 DEF VerifyingEntry
<1>7. q \in [1..Len(m_verifying) -> VerifyingEntry]
  BY <1>3, <1>5, <1>6
<1> HIDE DEF q
<1>8. q \in Seq(VerifyingEntry)
  BY <1>3, <1>7
<1>9. HashesOf(q) = HashesOf(m_verifying)
  BY <1>3, <1>4, <1>5, <1>6 DEF HashesOf
<1>10. \A e \in RangeOf(q) : e.done => e.hash \in SealValid
  <2> SUFFICES ASSUME NEW i \in 1..Len(m_verifying), q[i].done PROVE q[i].hash \in SealValid
    BY <1>5 DEF RangeOf
  <2>1. CASE i = 1
    BY <1>1, <1>6, <2>1
  <2>2. CASE i # 1
    BY <1>3, <1>5, <2>2 DEF QueueInv, VerifiedValid, RangeOf
  <2> QED BY <2>1, <2>2
<1>11. \A e \in RangeOf(q) : ~e.done => e \in RangeOf(m_verifying) /\ e.hash # work[v]
  <2> SUFFICES ASSUME NEW i \in 1..Len(m_verifying), ~q[i].done
               PROVE  q[i] \in RangeOf(m_verifying) /\ q[i].hash # work[v]
    BY <1>5 DEF RangeOf
  <2>1. i # 1 /\ q[i] = m_verifying[i]
    BY <1>5, <1>6
  <2>2. q[i] \in RangeOf(m_verifying)
    BY <1>3, <2>1 DEF RangeOf
  <2>3. \A j, k \in 1..Len(m_verifying) : m_verifying[j].hash = m_verifying[k].hash => j = k
    BY <1>1, <1>3 DEF Distinct, HashesOf
  <2>4. m_verifying[i].hash # m_verifying[1].hash
    BY <1>4, <2>1, <2>3
  <2> QED BY <1>4, <2>1, <2>2, <2>4
<1>12. RangeOf(HashesOf(q)) \subseteq VerifyingHashes /\ Distinct(HashesOf(q))
  BY <1>1, <1>9 DEF VerifyingHashes
<1>13. signalled' \subseteq Verifiers
  BY <1>1, <1>2
<1>14. \A e \in RangeOf(q) : e.done => e \in RangeOf(m_verifying) \/ e.hash = work[v]
  <2> SUFFICES ASSUME NEW i \in 1..Len(m_verifying)
               PROVE  q[i] \in RangeOf(m_verifying) \/ q[i].hash = work[v]
    BY <1>5 DEF RangeOf
  <2> QED BY <1>3, <1>5, <1>6 DEF RangeOf
<1>15. QueueInv' /\ Queued' \subseteq Queued /\ Returned(v)
  BY <1>1, <1>2, <1>8, <1>10, <1>11, <1>12, <1>13, <1>14, ReturnKeepsInv
<1> QED BY <1>2, <1>8, <1>9, <1>15

LEMMA VerifiedOutOfTurnKeepsInv ==
    ASSUME QueueInv, NEW v \in Verifiers, VerifiedOutOfTurn(v)
    PROVE  /\ QueueInv' /\ Queued' = Queued /\ Returned(v)
           /\ HashesOf(m_verifying') = HashesOf(m_verifying)
<1> DEFINE w == work[v]
<1>1. /\ m_verifying \in Seq(VerifyingEntry) /\ w \in SealValid /\ w \in Blocks
      /\ work \in [Verifiers -> Blocks \cup {NoBlock}]
  BY HeaderAssumption DEF QueueInv, QueueTypeOK, VerifiedOutOfTurn
<1>2. /\ m_verifying' = Replaced(m_verifying, w) /\ work' = [work EXCEPT ![v] = NoBlock]
      /\ UNCHANGED <<m_readySet, m_drainingSet, m_unknown, m_knownBad, m_future, m_verified,
                     m_unverified, m_difficulty, m_drainingDifficulty, m_updateBad,
                     signalled, chain, m_lastBlockHash>>
  BY DEF VerifiedOutOfTurn, setVars, difficultyVars
<1> HIDE DEF w
<1> DEFINE n == Len(m_verifying)
<1>3. n \in Nat /\ DOMAIN m_verifying = 1..n /\ \A i \in 1..n : m_verifying[i] \in VerifyingEntry
  BY <1>1
<1>4. /\ DOMAIN m_verifying' = 1..n
      /\ \A i \in 1..n :
            IF Sha3Uncles(m_verifying[i]) = w
            THEN m_verifying'[i] = [hash |-> w, done |-> TRUE] /\ m_verifying[i].hash = w
            ELSE m_verifying'[i] = m_verifying[i]
  BY <1>1, <1>2, <1>3, PlaceholderOf DEF Replaced
<1>5. \A i \in 1..n : m_verifying'[i] \in VerifyingEntry /\ m_verifying'[i].hash = m_verifying[i].hash
  <2> SUFFICES ASSUME NEW i \in 1..n
               PROVE  m_verifying'[i] \in VerifyingEntry /\ m_verifying'[i].hash = m_verifying[i].hash
    OBVIOUS
  <2>1. CASE Sha3Uncles(m_verifying[i]) = w
    <3>1. m_verifying'[i] = [hash |-> w, done |-> TRUE] /\ m_verifying[i].hash = w
      BY <1>4, <2>1
    <3> QED BY <1>1, <3>1 DEF VerifyingEntry
  <2>2. CASE Sha3Uncles(m_verifying[i]) # w
    BY <1>3, <1>4, <2>2
  <2> QED BY <2>1, <2>2
<1>6. m_verifying' \in Seq(VerifyingEntry)
  <2>1. m_verifying' = [i \in 1..n |-> m_verifying'[i]]
    BY <1>2, <1>3, <1>4 DEF Replaced
  <2>2. m_verifying' \in [1..n -> VerifyingEntry]
    BY <1>5, <2>1
  <2> QED BY <1>3, <2>2
<1>7. HashesOf(m_verifying') = HashesOf(m_verifying)
  BY <1>3, <1>4, <1>5 DEF HashesOf
<1>8. VerifyingHashes' = VerifyingHashes /\ Queued' = Queued
  BY <1>2, <1>7 DEF VerifyingHashes, Queued
<1>9. QueueTypeOK'
  BY <1>1, <1>2, <1>6 DEF QueueInv, QueueTypeOK
<1>10. VerifiedValid'
  <2> SUFFICES ASSUME NEW i \in 1..n, m_verifying'[i].done
               PROVE  m_verifying'[i].hash \in SealValid
    BY <1>2, <1>4 DEF QueueInv, VerifiedValid, RangeOf
  <2>1. CASE Sha3Uncles(m_verifying[i]) = w
    BY <1>1, <1>4, <1>5, <2>1
  <2>2. CASE Sha3Uncles(m_verifying[i]) # w
    BY <1>3, <1>4, <2>2 DEF QueueInv, VerifiedValid, RangeOf
  <2> QED BY <2>1, <2>2
<1>11. QueuedOnce'
  BY <1>2, <1>7, <1>8 DEF QueueInv, Pipelined, QueuedOnce
<1>12. QueuedKnown' /\ UnknownNotQueued'
  BY <1>2, <1>8 DEF QueueInv, Pipelined, QueuedKnown, UnknownNotQueued
<1>13. JobsOwned'
  <2> SUFFICES ASSUME NEW i \in 1..n, ~m_verifying'[i].done
               PROVE  \E u \in Verifiers : work'[u] = m_verifying'[i].hash
    BY <1>4 DEF JobsOwned, RangeOf
  <2>1. Sha3Uncles(m_verifying[i]) # w /\ m_verifying'[i] = m_verifying[i]
    BY <1>4
  <2>2. ~m_verifying[i].done /\ m_verifying[i].hash # w
    BY <2>1 DEF Sha3Uncles
  <2>3. PICK u \in Verifiers : work[u] = m_verifying[i].hash
    BY <1>3, <2>2 DEF QueueInv, Pipelined, JobsOwned, RangeOf
  <2> QED BY <1>1, <1>2, <2>1, <2>2, <2>3 DEF w
<1>14. Returned(v)
  <2>1. \A e \in RangeOf(m_verifying') : e \in RangeOf(m_verifying) \/ e.hash = work[v]
    <3> SUFFICES ASSUME NEW i \in 1..n
                 PROVE  m_verifying'[i] \in RangeOf(m_verifying) \/ m_verifying'[i].hash = w
      BY <1>4 DEF RangeOf, w
    <3>1. CASE Sha3Uncles(m_verifying[i]) = w
      BY <1>4, <1>5, <3>1
    <3>2. CASE Sha3Uncles(m_verifying[i]) # w
      BY <1>3, <1>4, <3>2 DEF RangeOf
    <3> QED BY <3>1, <3>2
  <2> QED BY <1>2, <2>1 DEF Returned
<1> QED BY <1>7, <1>8, <1>9, <1>10, <1>11, <1>12, <1>13, <1>14 DEF QueueInv, Pipelined

-----------------------------------------------------------------------------
(***************************************************************************)
(* updateBad_WITH_LOCK, drain, doneDrain, clear and tick.                  *)
(***************************************************************************)
LEMMA WaitsForAnyUnknown ==
    ASSUME NEW unknown, NEW H
    PROVE  WaitsForAny(unknown, H) \subseteq unknown
BY DEF WaitsForAny, WaitsFor

\* A block left behind by collectUnknownBad_WITH_BOTH_LOCKS or
\* noteReady_WITH_LOCK does not wait for a block that was taken.
LEMMA WaitsForClosed ==
    ASSUME NEW unknown, NEW h, NEW u \in unknown \ WaitsFor(unknown, h)
    PROVE  Parent[u] # h /\ Parent[u] \notin WaitsFor(unknown, h)
<1>1. PICK S \in SUBSET unknown :
         (\A x \in unknown : Parent[x] \in S \cup {h} => x \in S) /\ u \notin S
  BY DEF WaitsFor
<1>2. Parent[u] \notin S \cup {h}
  BY <1>1
<1>3. WaitsFor(unknown, h) \subseteq S
  BY <1>1 DEF WaitsFor
<1> QED BY <1>2, <1>3

LEMMA WaitsForAnyClosed ==
    ASSUME NEW unknown, NEW H, NEW u \in unknown \ WaitsForAny(unknown, H)
    PROVE  Parent[u] \notin H /\ Parent[u] \notin WaitsForAny(unknown, H)
<1>1. ASSUME NEW h \in H PROVE u \in unknown \ WaitsFor(unknown, h)
  BY DEF WaitsForAny
<1>2. ASSUME NEW h \in H PROVE Parent[u] # h /\ Parent[u] \notin WaitsFor(unknown, h)
  BY <1>1, WaitsForClosed
<1> QED BY <1>2 DEF WaitsForAny

\* What removeIf leaves, for any set of positions kept.
LEMMA KeptSub ==
    ASSUME NEW S, NEW q \in Seq(S), Distinct(q), NEW K \in SUBSET DOMAIN q
    PROVE  /\ KeptAt(q, K) \in Seq(S) /\ Distinct(KeptAt(q, K))
           /\ RangeOf(KeptAt(q, K)) \subseteq RangeOf(q)
<1>1. KeptAt(q, K) \in Seq(S) /\ Distinct(KeptAt(q, K)) /\ RangeOf(KeptAt(q, K)) = {q[i] : i \in K}
  BY KeptAtProperties, KeptAtDistinct
<1>2. {q[i] : i \in K} \subseteq RangeOf(q)
  BY DEF RangeOf
<1> QED BY <1>1, <1>2

\* What removeIf returns was in the queue.
LEMMA TailIndices ==
    ASSUME NEW S, NEW q \in Seq(S), NEW K \in SUBSET DOMAIN q
    PROVE  \A i \in (Cardinality(K) + 1)..Len(q) : i \in DOMAIN q /\ q[i] \in S
<1>1. Cardinality(K) \in Nat
  BY KeptAtProperties
<1> QED BY <1>1

\* What a pass of updateBad_WITH_LOCK leaves: what goes bad was queued or
\* waited, and nothing still waits for it or for the block of the call.
Purged ==
    /\ m_unknown' \subseteq m_unknown
    /\ m_readySet' \subseteq m_readySet
    /\ m_readySet \cup m_knownBad \subseteq m_readySet' \cup m_knownBad'
    /\ RangeOf(m_verified') \subseteq RangeOf(m_verified)
    /\ RangeOf(m_unverified') \subseteq RangeOf(m_unverified)
    /\ RangeOf(m_verifying') \subseteq RangeOf(m_verifying)
    /\ m_knownBad' \subseteq
          m_knownBad \cup Queued \cup {EmptyListSHA3} \cup (m_unknown \ m_unknown')
    /\ \A u \in m_unknown' :
          Parent[u] # Head(m_updateBad) /\ (Parent[u] \in m_knownBad' => Parent[u] \in m_knownBad)

LEMMA UpdateBadPassKeepsInv ==
    ASSUME QueueInv, UpdateBadPass
    PROVE  QueueInv' /\ Queued' \subseteq Queued /\ Purged
<1> DEFINE unknown0 == m_unknown \ WaitsFor(m_unknown, Head(m_updateBad))
           bad0 == m_knownBad \cup WaitsFor(m_unknown, Head(m_updateBad))
           Bad1 == {i \in DOMAIN m_verified :
                        Parent[m_verified[i]] \in bad0 \/ m_verified[i] \in bad0}
           gone1 == {m_verified[i] : i \in ReturnedIndices(m_verified, Bad1)}
           unknown1 == unknown0 \ WaitsForAny(unknown0, gone1)
           bad1 == bad0 \cup gone1 \cup WaitsForAny(unknown0, gone1)
           Bad2 == {i \in DOMAIN m_unverified :
                        Parent[m_unverified[i]] \in bad1 \/ m_unverified[i] \in bad1}
           gone2 == {m_unverified[i] : i \in ReturnedIndices(m_unverified, Bad2)}
           unknown2 == unknown1 \ WaitsForAny(unknown1, gone2)
           bad2 == bad1 \cup gone2 \cup WaitsForAny(unknown1, gone2)
           Bad3 == {i \in DOMAIN m_verifying :
                        Parent[m_verifying[i].hash] \in bad2 \/ Sha3Uncles(m_verifying[i]) \in bad2}
           Reported(i) == IF m_verifying[i].done /\ i \notin Bad3
                          THEN EmptyListSHA3 ELSE m_verifying[i].hash
           gone3 == {Reported(i) : i \in ReturnedIndices(m_verifying, Bad3)}
           K1 == DOMAIN m_verified \ Bad1
           K2 == DOMAIN m_unverified \ Bad2
           K3 == DOMAIN m_verifying \ Bad3
<1>1. /\ m_verified \in Seq(Blocks) /\ m_unverified \in Seq(Blocks)
      /\ m_verifying \in Seq(VerifyingEntry) /\ m_unknown \subseteq Blocks
      /\ m_knownBad \subseteq Hash /\ m_updateBad \in Seq(Blocks) /\ m_updateBad # <<>>
      /\ m_readySet \subseteq Blocks
      /\ Distinct(m_verified) /\ Distinct(m_unverified) /\ Distinct(HashesOf(m_verifying))
  BY DEF QueueInv, QueueTypeOK, Pipelined, QueuedOnce, UpdateBadPass
<1>2. /\ m_verified' = KeptAt(m_verified, K1) /\ m_unverified' = KeptAt(m_unverified, K2)
      /\ m_verifying' = KeptAt(m_verifying, K3)
      /\ m_unknown' = unknown2 \ WaitsForAny(unknown2, gone3)
      /\ m_knownBad' = bad2 \cup gone3 \cup WaitsForAny(unknown2, gone3)
      /\ m_readySet' = m_readySet \ (gone1 \cup gone2 \cup gone3)
      /\ m_updateBad' = m_updateBad \/ m_updateBad' = Tail(m_updateBad)
      /\ UNCHANGED <<m_drainingSet, m_future, m_difficulty, m_drainingDifficulty,
                     work, signalled, chain, m_lastBlockHash>>
  BY DEF UpdateBadPass, RemoveIf, difficultyVars, threadVars
<1>3. K1 \in SUBSET DOMAIN m_verified /\ K2 \in SUBSET DOMAIN m_unverified
      /\ K3 \in SUBSET DOMAIN m_verifying
  OBVIOUS
<1>4. /\ gone1 = {m_verified[i] : i \in (Cardinality(K1) + 1)..Len(m_verified)}
      /\ gone2 = {m_unverified[i] : i \in (Cardinality(K2) + 1)..Len(m_unverified)}
  BY DEF ReturnedIndices
<1>5. gone3 \subseteq Hash /\ gone3 \subseteq VerifyingHashes \cup {EmptyListSHA3}
  <2>1. gone3 \subseteq {m_verifying[i].hash : i \in (Cardinality(K3) + 1)..Len(m_verifying)}
                        \cup {EmptyListSHA3}
    BY DEF ReturnedIndices
  <2> HIDE DEF K3, gone3
  <2>2. \A i \in (Cardinality(K3) + 1)..Len(m_verifying) : i \in DOMAIN m_verifying
    BY <1>1, <1>3, TailIndices
  <2>3. \A i \in (Cardinality(K3) + 1)..Len(m_verifying) : m_verifying[i] \in RangeOf(m_verifying)
    BY <2>2 DEF RangeOf
  <2>4. \A i \in (Cardinality(K3) + 1)..Len(m_verifying) : m_verifying[i].hash \in Blocks
    BY <1>1, <2>3, EntryType
  <2>5. VerifyingHashes = {e.hash : e \in RangeOf(m_verifying)}
    BY <1>1, HashesOfProperties DEF VerifyingHashes
  <2>6. \A i \in (Cardinality(K3) + 1)..Len(m_verifying) : m_verifying[i].hash \in VerifyingHashes
    BY <2>3, <2>5
  <2> QED BY <2>1, <2>4, <2>6 DEF Hash
<1> HIDE DEF K1, K2, K3, gone1, gone2, gone3
<1>6. /\ gone1 \subseteq Blocks /\ gone2 \subseteq Blocks
      /\ gone1 \subseteq RangeOf(m_verified) /\ gone2 \subseteq RangeOf(m_unverified)
  <2>1. gone1 \subseteq Blocks /\ gone2 \subseteq Blocks
    BY <1>1, <1>3, <1>4, TailIndices
  <2>2. gone1 \subseteq RangeOf(m_verified)
    BY <1>1, <1>3, <1>4, TailIndices DEF RangeOf
  <2>3. gone2 \subseteq RangeOf(m_unverified)
    BY <1>1, <1>3, <1>4, TailIndices DEF RangeOf
  <2> QED BY <2>1, <2>2, <2>3
<1>7. /\ WaitsFor(m_unknown, Head(m_updateBad)) \subseteq m_unknown
      /\ WaitsForAny(unknown0, gone1) \subseteq unknown0
      /\ WaitsForAny(unknown1, gone2) \subseteq unknown1
      /\ WaitsForAny(unknown2, gone3) \subseteq unknown2
  BY WaitsForAnyUnknown DEF WaitsFor
<1>8. m_unknown' \subseteq m_unknown /\ m_unknown' \subseteq Blocks
  BY <1>1, <1>2
<1>9. m_knownBad' \subseteq Hash /\ m_knownBad \subseteq m_knownBad'
  BY <1>1, <1>2, <1>5, <1>6, <1>7 DEF Hash
<1>10. m_readySet' \subseteq Blocks /\ m_readySet \subseteq m_readySet' \cup m_knownBad'
  BY <1>1, <1>2
<1>11. m_updateBad' \in Seq(Blocks)
  <2>1. Tail(m_updateBad) \in Seq(Blocks)
    BY <1>1, HeadTailRange
  <2> QED BY <1>1, <1>2, <2>1
<1> DEFINE w0 == WaitsFor(m_unknown, Head(m_updateBad))
           w1 == WaitsForAny(unknown0, gone1)
           w2 == WaitsForAny(unknown1, gone2)
           w3 == WaitsForAny(unknown2, gone3)
<1>12. /\ unknown0 = m_unknown \ w0 /\ unknown1 = unknown0 \ w1 /\ unknown2 = unknown1 \ w2
       /\ m_unknown' = unknown2 \ w3 /\ w0 \cup w1 \cup w2 \cup w3 \subseteq m_unknown
       /\ m_knownBad' = m_knownBad \cup w0 \cup gone1 \cup w1 \cup gone2 \cup w2 \cup gone3 \cup w3
  BY <1>2, <1>7
<1> HIDE DEF unknown0, unknown1, unknown2, bad0, bad1, bad2
<1>13. \A u \in m_unknown' :
          /\ Parent[u] # Head(m_updateBad) /\ Parent[u] \notin w0
          /\ Parent[u] \notin gone1 /\ Parent[u] \notin w1
          /\ Parent[u] \notin gone2 /\ Parent[u] \notin w2
          /\ Parent[u] \notin gone3 /\ Parent[u] \notin w3
  <2> SUFFICES ASSUME NEW u \in m_unknown'
               PROVE  /\ Parent[u] # Head(m_updateBad) /\ Parent[u] \notin w0
                      /\ Parent[u] \notin gone1 /\ Parent[u] \notin w1
                      /\ Parent[u] \notin gone2 /\ Parent[u] \notin w2
                      /\ Parent[u] \notin gone3 /\ Parent[u] \notin w3
    OBVIOUS
  <2>1. Parent[u] # Head(m_updateBad) /\ Parent[u] \notin w0
    BY <1>12, WaitsForClosed
  <2>2. Parent[u] \notin gone1 /\ Parent[u] \notin w1
    BY <1>12, WaitsForAnyClosed
  <2>3. Parent[u] \notin gone2 /\ Parent[u] \notin w2
    BY <1>12, WaitsForAnyClosed
  <2>4. Parent[u] \notin gone3 /\ Parent[u] \notin w3
    BY <1>12, WaitsForAnyClosed
  <2> QED BY <2>1, <2>2, <2>3, <2>4
<1> HIDE DEF w0, w1, w2, w3
<1>14. m_knownBad' \subseteq
          m_knownBad \cup Queued \cup {EmptyListSHA3} \cup (m_unknown \ m_unknown')
  <2>1. w0 \cup w1 \cup w2 \cup w3 \subseteq m_unknown \ m_unknown'
    BY <1>12
  <2>2. gone1 \cup gone2 \cup gone3 \subseteq Queued \cup {EmptyListSHA3}
    BY <1>5, <1>6 DEF Queued
  <2> QED BY <1>12, <2>1, <2>2
<1>15. \A u \in m_unknown' :
          Parent[u] # Head(m_updateBad) /\ (Parent[u] \in m_knownBad' => Parent[u] \in m_knownBad)
  BY <1>12, <1>13
<1>16. /\ m_verified' \in Seq(Blocks) /\ Distinct(m_verified')
       /\ RangeOf(m_verified') \subseteq RangeOf(m_verified)
       /\ m_unverified' \in Seq(Blocks) /\ Distinct(m_unverified')
       /\ RangeOf(m_unverified') \subseteq RangeOf(m_unverified)
  BY <1>1, <1>2, <1>3, KeptSub
<1>17. /\ m_verifying' \in Seq(VerifyingEntry) /\ Distinct(HashesOf(m_verifying'))
       /\ RangeOf(m_verifying') \subseteq RangeOf(m_verifying)
  <2>1. /\ m_verifying' \in Seq(VerifyingEntry) /\ Distinct(HashesOf(m_verifying'))
        /\ RangeOf(m_verifying') = {m_verifying[i] : i \in K3}
    BY <1>1, <1>2, <1>3, HashesOfKept
  <2> QED BY <1>3, <2>1 DEF RangeOf
<1>18. QueueTypeOK'
  BY <1>2, <1>8, <1>9, <1>10, <1>11, <1>16, <1>17 DEF QueueInv, QueueTypeOK
<1>19. Purged
  BY <1>2, <1>8, <1>9, <1>10, <1>16, <1>17, <1>14, <1>15 DEF Purged
<1>20. QueueInv' /\ Queued' \subseteq Queued
  BY <1>2, <1>8, <1>9, <1>10, <1>16, <1>17, <1>18, ShrinkKeepsPipelined
<1> QED BY <1>19, <1>20

LEMMA DrainKeepsInv ==
    ASSUME QueueInv, NEW n \in 0..Len(m_verified), Drain(n)
    PROVE  /\ QueueInv' /\ Queued' \subseteq Queued \ m_drainingSet' /\ m_drainingSet' \subseteq Queued
           /\ SubSeq(m_verified, 1, n) \in Seq(Blocks) /\ Distinct(SubSeq(m_verified, 1, n))
           /\ RangeOf(SubSeq(m_verified, 1, n)) \subseteq SealValid
<1> DEFINE out == SubSeq(m_verified, 1, n)
           rest == SubSeq(m_verified, n + 1, Len(m_verified))
<1>1. m_verified \in Seq(Blocks) /\ Distinct(m_verified) /\ m_readySet \subseteq Blocks
  BY DEF QueueInv, QueueTypeOK, Pipelined, QueuedOnce
<1>2. /\ m_drainingSet' = RangeOf(out) /\ m_drainingDifficulty' = SumOf(Difficulty, out)
      /\ m_readySet' = m_readySet \ RangeOf(out) /\ m_verified' = rest
      /\ UNCHANGED <<m_unknown, m_knownBad, m_future, m_verifying, m_unverified,
                     m_difficulty, m_updateBad, work, signalled, chain, m_lastBlockHash>>
  BY DEF Drain, SumDifficulty, threadVars
<1>3. /\ out \in Seq(Blocks) /\ rest \in Seq(Blocks)
      /\ RangeOf(m_verified) = RangeOf(out) \cup RangeOf(rest)
      /\ Distinct(out) /\ Distinct(rest) /\ RangeOf(out) \cap RangeOf(rest) = {}
  BY <1>1, CutProperties, CutDistinct
<1> HIDE DEF out, rest
<1>4. RangeOf(out) \subseteq SealValid
  BY <1>3 DEF QueueInv, VerifiedValid
<1>5. m_drainingDifficulty' \in Nat
  BY <1>2, <1>3, HeaderAssumption, SumOfType
<1>6. RangeOf(out) \subseteq Blocks
  BY <1>4, HeaderAssumption
<1>7. QueueTypeOK'
  BY <1>2, <1>3, <1>5, <1>6 DEF QueueInv, QueueTypeOK
<1>8. VerifyingHashes' = VerifyingHashes
  BY <1>2 DEF VerifyingHashes
<1>9. Queued' \subseteq Queued \ RangeOf(out)
  BY <1>2, <1>3, <1>8 DEF QueueInv, Pipelined, QueuedOnce, Queued
<1>10. VerifiedValid'
  BY <1>2, <1>3 DEF QueueInv, VerifiedValid
<1>11. QueuedOnce'
  BY <1>2, <1>3, <1>8 DEF QueueInv, Pipelined, QueuedOnce
<1>12. QueuedKnown' /\ UnknownNotQueued'
  BY <1>2, <1>9 DEF QueueInv, Pipelined, QueuedKnown, UnknownNotQueued
<1>13. JobsOwned'
  BY <1>2 DEF QueueInv, Pipelined, JobsOwned
<1>14. QueueInv'
  BY <1>7, <1>10, <1>11, <1>12, <1>13 DEF QueueInv, Pipelined
<1>15. RangeOf(out) \subseteq Queued
  BY <1>3 DEF Queued
<1> QED BY <1>2, <1>3, <1>4, <1>9, <1>14, <1>15 DEF out

LEMMA DoneDrainKeepsInv ==
    ASSUME QueueInv, NEW bad \in Seq(Blocks), DoneDrain(bad)
    PROVE  QueueInv'
<1>1. RangeOf(bad) \subseteq Blocks
  BY DEF RangeOf
<1>2. QueueTypeOK'
  BY <1>1 DEF QueueInv, QueueTypeOK, DoneDrain, queueVars, threadVars, Hash
<1> QED BY <1>2, FrameKeepsQueueInv
        DEF QueueInv, VerifiedValid, DoneDrain, queueVars, threadVars

LEMMA EmptyQueue ==
    RangeOf(<<>>) = {} /\ HashesOf(<<>>) = <<>> /\ Distinct(<<>>)
BY DEF RangeOf, HashesOf, Distinct

LEMMA ClearKeepsInv ==
    ASSUME QueueInv, Clear
    PROVE  QueueInv'
<1>1. QueueTypeOK'
  BY DEF QueueInv, QueueTypeOK, Clear, threadVars
<1> QED BY <1>1, EmptyQueue
        DEF QueueInv, VerifiedValid, Pipelined, QueuedOnce, QueuedKnown, UnknownNotQueued,
            JobsOwned, Queued, VerifyingHashes, Clear, threadVars

LEMMA TakePastFutureKeepsInv ==
    ASSUME QueueInv, NEW t \in Nat, TakePastFuture(t)
    PROVE  QueueInv' /\ SubSeq(m_future, 1, PastFuture(t)) \in Seq(Blocks)
<1> DEFINE K == {i \in DOMAIN m_future : Timestamp[m_future[i]] <= t}
<1>1. m_future \in Seq(Blocks)
  BY DEF QueueInv, QueueTypeOK
<1>2. K \in SUBSET DOMAIN m_future /\ PastFuture(t) = Cardinality(K)
  BY DEF PastFuture
<1> HIDE DEF K
<1>3. PastFuture(t) \in 0..Len(m_future)
  BY <1>1, <1>2, CountBounded
<1>4. /\ SubSeq(m_future, 1, PastFuture(t)) \in Seq(Blocks)
      /\ SubSeq(m_future, PastFuture(t) + 1, Len(m_future)) \in Seq(Blocks)
  BY <1>1, <1>3, CutProperties
<1>5. QueueTypeOK'
  BY <1>4 DEF QueueInv, QueueTypeOK, TakePastFuture, queueVars, difficultyVars, threadVars
<1>6. QueueInv'
  BY <1>5, FrameKeepsQueueInv
     DEF QueueInv, VerifiedValid, TakePastFuture, queueVars, threadVars
<1> QED BY <1>4, <1>6

\* Steps that change nothing of the queue.
LEMMA StutterKeepsQueueInv ==
    ASSUME QueueInv, UNCHANGED queueStateVars
    PROVE  QueueInv'
<1> USE DEF queueStateVars, setVars, queueVars, difficultyVars, threadVars
<1>1. QueueTypeOK'
  BY DEF QueueInv, QueueTypeOK
<1> QED BY <1>1, FrameKeepsQueueInv DEF QueueInv, VerifiedValid

-----------------------------------------------------------------------------
(***************************************************************************)
(* The difficulty held.  SumOver adds the difficulties of a set of blocks  *)
(* in whatever order it chooses.                                           *)
(***************************************************************************)
LEMMA DifficultyType == Difficulty \in [Blocks -> Nat]
BY HeaderAssumption

\* The sum over a set is the sum of any sequence that lists it.
LEMMA SumOverListed ==
    ASSUME NEW s \in Seq(Blocks), Distinct(s)
    PROVE  SumOver(RangeOf(s)) = SumOf(Difficulty, s)
<1> DEFINE R == RangeOf(s)
           c == CHOOSE o \in Orderings(R) : TRUE
<1>1. R \in SUBSET Blocks
  BY DEF RangeOf
<1>2. IsFiniteSet(R)
  BY <1>1, BlocksAssumption, FS_Subset
<1> HIDE DEF R
<1>3. c \in Orderings(R)
  BY <1>2, OrderingExists
<1>4. c \in Seq(Blocks) /\ Distinct(c) /\ RangeOf(c) = R
  <2> HIDE DEF c
  <2> QED BY <1>1, <1>3, UnknownOrdering
<1>5. SumOf(Difficulty, c) = SumOf(Difficulty, s)
  <2> HIDE DEF c
  <2>1. RangeOf(s) = R /\ Difficulty \in [Blocks -> Nat]
    BY DifficultyType DEF R
  <2> QED BY <1>4, <2>1, SumOfAnyOrder
<1> QED BY <1>5 DEF SumOver, SumDifficulty, R

\* Every set of blocks is listed by some sequence.
LEMMA BlocksListed ==
    ASSUME NEW S \in SUBSET Blocks
    PROVE  \E s \in Seq(Blocks) : Distinct(s) /\ RangeOf(s) = S
<1>1. IsFiniteSet(S)
  BY BlocksAssumption, FS_Subset
<1>2. PICK s \in Orderings(S) : TRUE
  BY <1>1, OrderingExists
<1> QED BY <1>2, UnknownOrdering

LEMMA SumOverType ==
    ASSUME NEW S \in SUBSET Blocks
    PROVE  SumOver(S) \in Nat
<1>1. PICK s \in Seq(Blocks) : Distinct(s) /\ RangeOf(s) = S
  BY BlocksListed
<1>2. SumOver(S) = SumOf(Difficulty, s)
  BY <1>1, SumOverListed
<1> QED BY <1>2, DifficultyType, SumOfType

LEMMA SumOverUnion ==
    ASSUME NEW S \in SUBSET Blocks, NEW T \in SUBSET Blocks, S \cap T = {}
    PROVE  SumOver(S \cup T) = SumOver(S) + SumOver(T)
<1>1. PICK s \in Seq(Blocks) : Distinct(s) /\ RangeOf(s) = S
  BY BlocksListed
<1>2. PICK t \in Seq(Blocks) : Distinct(t) /\ RangeOf(t) = T
  BY BlocksListed
<1>3. s \o t \in Seq(Blocks) /\ RangeOf(s \o t) = S \cup T /\ Distinct(s \o t)
  <2>1. RangeOf(s) \cap RangeOf(t) = {}
    BY <1>1, <1>2
  <2> QED BY <1>1, <1>2, <2>1, ConcatRange, ConcatDistinct
<1>4. SumOver(S) = SumOf(Difficulty, s) /\ SumOver(T) = SumOf(Difficulty, t)
  BY <1>1, <1>2, SumOverListed
<1>5. SumOver(S \cup T) = SumOf(Difficulty, s \o t)
  BY <1>3, SumOverListed
<1>6. SumOf(Difficulty, s \o t) = SumOf(Difficulty, s) + SumOf(Difficulty, t)
  BY DifficultyType, SumOfConcat
<1> QED BY <1>4, <1>5, <1>6

LEMMA SumOverGrows ==
    ASSUME NEW T \in SUBSET Blocks, NEW S \in SUBSET T
    PROVE  SumOver(S) <= SumOver(T)
<1> DEFINE D == T \ S
<1>1. D \in SUBSET Blocks /\ S \in SUBSET Blocks /\ S \cap D = {} /\ S \cup D = T
  OBVIOUS
<1> HIDE DEF D
<1>2. SumOver(S \cup D) = SumOver(S) + SumOver(D)
  BY <1>1, SumOverUnion
<1>3. SumOver(S) \in Nat /\ SumOver(D) \in Nat
  BY <1>1, SumOverType
<1>4. SumOver(T) = SumOver(S) + SumOver(D)
  BY <1>1, <1>2
<1> QED BY <1>3, <1>4

LEMMA SumOverOne ==
    /\ SumOver({}) = 0
    /\ \A b \in Blocks : SumOver({b}) = Difficulty[b]
<1>1. SumOver({}) = 0
  <2>1. <<>> \in Seq(Blocks) /\ Distinct(<<>>) /\ RangeOf(<<>>) = {}
    BY EmptyQueue
  <2>2. SumOf(Difficulty, <<>>) = 0
    BY DifficultyType, SumOfEmpty
  <2>3. SumOver(RangeOf(<<>>)) = SumOf(Difficulty, <<>>)
    BY <2>1, SumOverListed
  <2> QED BY <2>1, <2>2, <2>3
<1>2. ASSUME NEW b \in Blocks PROVE SumOver({b}) = Difficulty[b]
  <2> DEFINE none == <<>>
             one == Append(none, b)
  <2>1. none \in Seq(Blocks) /\ Distinct(none) /\ RangeOf(none) = {}
    BY EmptyQueue
  <2>2. SumOf(Difficulty, none) = 0
    BY DifficultyType, SumOfEmpty
  <2> HIDE DEF none
  <2>3. one \in Seq(Blocks) /\ Distinct(one) /\ RangeOf(one) = {} \cup {b}
    BY <2>1, AppendRange
  <2>4. SumOf(Difficulty, one) = SumOf(Difficulty, none) + Difficulty[b]
    BY <2>1, DifficultyType, SumOfAppend
  <2>5. Difficulty[b] \in Nat
    BY DifficultyType
  <2> HIDE DEF one
  <2>6. SumOver(RangeOf(one)) = SumOf(Difficulty, one)
    BY <2>3, SumOverListed
  <2>7. RangeOf(one) = {b}
    BY <2>3
  <2> QED BY <2>2, <2>4, <2>5, <2>6, <2>7
<1> QED BY <1>1, <1>2

-----------------------------------------------------------------------------
(***************************************************************************)
(* The client thread and the composition.                                  *)
(***************************************************************************)
LEMMA ClientFrame ==
    ASSUME ClientInv, UNCHANGED <<clientVars, now>>
    PROVE  ClientInv'
BY DEF ClientInv, ClientTypeOK, clientVars

LEMMA SyncDrainKeepsInv ==
    ASSUME IInv, SyncDrain
    PROVE  IInv'
<1>1. PICK n \in 0..Len(m_verified) : Drain(n) /\ batch' = SubSeq(m_verified, 1, n)
  <2>1. PICK max \in 1..MaxSync :
           LET n == IF max < Len(m_verified) THEN max ELSE Len(m_verified)
           IN  Drain(n) /\ batch' = SubSeq(m_verified, 1, n)
    BY DEF SyncDrain
  <2> DEFINE n == IF max < Len(m_verified) THEN max ELSE Len(m_verified)
  <2>2. n \in 0..Len(m_verified)
    BY SyncAssumption DEF IInv, QueueInv, QueueTypeOK
  <2> QED BY <2>1, <2>2
<1>2. QueueInv' /\ batch' \in Seq(Blocks) /\ RangeOf(batch') \subseteq SealValid
  BY <1>1, DrainKeepsInv DEF IInv
<1>3. ClientInv'
  BY <1>2 DEF IInv, ClientInv, ClientTypeOK, SyncDrain
<1> QED BY <1>2, <1>3 DEF IInv

\* A block that enters the chain comes from the drained batch.
LEMMA SyncImportKeepsInv ==
    ASSUME IInv, SyncImport
    PROVE  IInv'
<1>1. /\ batch \in Seq(Blocks) /\ batch # <<>> /\ RangeOf(batch) \subseteq SealValid
      /\ badBlocks \in Seq(Blocks) /\ chain \subseteq SealValid
  BY DEF IInv, QueueInv, VerifiedValid, ClientInv, ClientTypeOK, SyncImport
<1>2. /\ Head(batch) \in Blocks /\ Tail(batch) \in Seq(Blocks)
      /\ RangeOf(batch) = {Head(batch)} \cup RangeOf(Tail(batch))
  BY <1>1, HeadTailRange
<1>3. chain' = chain \/ chain' = chain \cup {Head(batch)}
  BY DEF SyncImport
<1>4. badBlocks' = badBlocks \/ badBlocks' = Append(badBlocks, Head(batch))
  BY DEF SyncImport
<1>5. badBlocks' \in Seq(Blocks)
  BY <1>1, <1>2, <1>4
<1>6. chain' \subseteq SealValid /\ m_lastBlockHash' \in Blocks \cup {Genesis}
  BY <1>1, <1>2, <1>3 DEF SyncImport, HeadAfter, IInv, QueueInv, QueueTypeOK
<1>7. batch' \in Seq(Blocks) /\ RangeOf(batch') \subseteq SealValid
  BY <1>1, <1>2 DEF SyncImport
<1>8. UNCHANGED <<m_readySet, m_drainingSet, m_unknown, m_knownBad, m_future, m_verified,
                  m_verifying, m_unverified, m_difficulty, m_drainingDifficulty, m_updateBad,
                  work, signalled>>
  BY DEF SyncImport, setVars, queueVars, difficultyVars, threadVars
<1>9. QueueTypeOK'
  BY <1>6, <1>8, HeaderAssumption DEF IInv, QueueInv, QueueTypeOK
<1>10. QueueInv'
  BY <1>6, <1>8, <1>9, FrameKeepsQueueInv DEF IInv
<1>11. ClientInv'
  BY <1>5, <1>7 DEF IInv, ClientInv, ClientTypeOK, SyncImport
<1> QED BY <1>10, <1>11 DEF IInv

LEMMA SyncDoneKeepsInv ==
    ASSUME IInv, SyncDone
    PROVE  IInv'
<1>1. QueueInv'
  BY DoneDrainKeepsInv DEF IInv, ClientInv, ClientTypeOK, SyncDone
<1>2. ClientInv'
  BY DEF IInv, ClientInv, ClientTypeOK, SyncDone
<1> QED BY <1>1, <1>2 DEF IInv

LEMMA OnReadyKeepsInv ==
    ASSUME IInv, NEW v \in Verifiers, OnReady(v)
    PROVE  IInv'
<1>1. QueueTypeOK'
  BY DEF IInv, QueueInv, QueueTypeOK, OnReady, setVars, queueVars, difficultyVars
<1>2. QueueInv'
  BY <1>1, FrameKeepsQueueInv DEF IInv, QueueInv, VerifiedValid, OnReady, setVars, queueVars
<1>3. ClientInv'
  BY DEF IInv, ClientInv, ClientTypeOK, OnReady
<1> QED BY <1>2, <1>3 DEF IInv

\* StartSync, DoneDrainReturn, SyncAssign and the clock change no queue.
LEMMA ClientFlagKeepsInv ==
    ASSUME IInv, StartSync \/ DoneDrainReturn \/ SyncAssign \/ Clock
    PROVE  IInv'
<1>1. UNCHANGED queueStateVars
  BY DEF StartSync, DoneDrainReturn, SyncAssign, Clock
<1>2. QueueInv'
  BY <1>1, StutterKeepsQueueInv DEF IInv
<1>3. ClientInv'
  <2>1. CASE StartSync
    BY <2>1 DEF IInv, ClientInv, ClientTypeOK, StartSync
  <2>2. CASE DoneDrainReturn
    BY <2>2 DEF IInv, ClientInv, ClientTypeOK, DoneDrainReturn
  <2>3. CASE SyncAssign
    BY <2>3 DEF IInv, ClientInv, ClientTypeOK, SyncAssign
  <2>4. CASE Clock
    BY <2>4 DEF IInv, ClientInv, ClientTypeOK, Clock, clientVars
  <2> QED BY <2>1, <2>2, <2>3, <2>4
<1> QED BY <1>2, <1>3 DEF IInv

\* A rewind moves the head and nothing else.
LEMMA RewindKeepsInv ==
    ASSUME IInv, Rewind
    PROVE  IInv'
<1>1. QueueTypeOK'
  BY DEF IInv, QueueInv, QueueTypeOK, Rewind, AncestorsOf, setVars, queueVars, difficultyVars,
         threadVars
<1>2. QueueInv'
  BY <1>1, FrameKeepsQueueInv DEF IInv, QueueInv, VerifiedValid, Rewind, setVars, queueVars,
                                  threadVars
<1>3. ClientInv'
  BY ClientFrame DEF IInv, Rewind
<1> QED BY <1>2, <1>3 DEF IInv

LEMMA TickKeepsInv ==
    ASSUME IInv, Tick
    PROVE  IInv'
<1>1. QueueInv' /\ todo' \in Seq(Blocks)
  BY TakePastFutureKeepsInv DEF IInv, ClientInv, ClientTypeOK, Tick
<1>2. ClientInv'
  BY <1>1 DEF IInv, ClientInv, ClientTypeOK, Tick
<1> QED BY <1>1, <1>2 DEF IInv

LEMMA TickImportKeepsInv ==
    ASSUME IInv, TickImport
    PROVE  IInv'
<1>1. todo \in Seq(Blocks) /\ todo # <<>> /\ now \in Nat
  BY DEF IInv, ClientInv, ClientTypeOK, TickImport
<1>2. Head(todo) \in Blocks /\ Tail(todo) \in Seq(Blocks)
  BY <1>1, HeadTailRange
<1>3. Import(Head(todo), FALSE, now) \/ UNCHANGED queueStateVars
  BY DEF TickImport
<1>4. QueueInv'
  BY <1>1, <1>2, <1>3, ImportKeepsInv, StutterKeepsQueueInv DEF IInv
<1>5. ClientInv'
  BY <1>2 DEF IInv, ClientInv, ClientTypeOK, TickImport
<1> QED BY <1>4, <1>5 DEF IInv

LEMMA InitInv == Init => IInv
<1> SUFFICES ASSUME Init PROVE IInv
  OBVIOUS
<1> USE DEF Init, QueueInit
<1>1. QueueTypeOK
  BY DEF QueueTypeOK
<1>2. VerifiedValid /\ Pipelined
  BY EmptyQueue DEF VerifiedValid, Pipelined, QueuedOnce, QueuedKnown, UnknownNotQueued,
                    JobsOwned, Queued, VerifyingHashes
<1>3. ClientInv
  <2>1. RangeOf(batch) = {}
    BY EmptyQueue
  <2>2. ClientTypeOK
    <3>1. m_syncBlockQueue \in BOOLEAN /\ moreReady \in BOOLEAN
      OBVIOUS
    <3>2. client \in {"idle", "drain", "import", "doneDrain", "assign"}
      OBVIOUS
    <3>3. batch \in Seq(Blocks) /\ badBlocks \in Seq(Blocks) /\ todo \in Seq(Blocks) /\ now \in Nat
      OBVIOUS
    <3> QED BY <3>1, <3>2, <3>3 DEF ClientTypeOK
  <2> QED BY <2>1, <2>2 DEF ClientInv
<1> QED BY <1>1, <1>2, <1>3 DEF IInv, QueueInv

LEMMA NextKeepsInv == IInv /\ [Next]_vars => IInv'
<1> SUFFICES ASSUME IInv, [Next]_vars PROVE IInv'
  OBVIOUS
<1>1. ASSUME NEW b \in Blocks, Receive(b) PROVE IInv'
  <2>1. QueueInv'
    BY <1>1, ImportKeepsInv DEF IInv, ClientInv, ClientTypeOK, Receive
  <2> QED BY <1>1, <2>1, ClientFrame DEF IInv, Receive
<1>2. ASSUME NEW v \in Verifiers, Verifier(v) PROVE IInv'
  <2>1. QueueInv'
    BY <1>2, TakeKeepsInv, VerifyFailedKeepsInv, VerifiedInTurnKeepsInv,
       VerifiedOutOfTurnKeepsInv DEF IInv, Verifier
  <2> QED BY <1>2, <2>1, ClientFrame DEF IInv, Verifier
<1>3. CASE UpdateBad
  BY <1>3, UpdateBadPassKeepsInv, ClientFrame DEF IInv, UpdateBad
<1>4. CASE ClientThread
  BY <1>4, ClientFlagKeepsInv, SyncDrainKeepsInv, SyncImportKeepsInv, SyncDoneKeepsInv,
     TickKeepsInv, TickImportKeepsInv DEF ClientThread
<1>5. CASE SyncRestart
  BY <1>5, ClearKeepsInv, ClientFrame DEF IInv, SyncRestart
<1>6. CASE RetryUnknown
  BY <1>6, RetryKeepsInv, ClientFrame DEF IInv, RetryUnknown
<1>7. CASE Clock
  BY <1>7, ClientFlagKeepsInv
<1>8. CASE UNCHANGED vars
  <2>1. UNCHANGED queueStateVars /\ UNCHANGED <<clientVars, now>>
    BY <1>8 DEF vars
  <2> QED BY <2>1, StutterKeepsQueueInv, ClientFrame DEF IInv
<1>9. CASE Rewind
  BY <1>9, RewindKeepsInv
<1> QED BY <1>1, <1>2, <1>3, <1>4, <1>5, <1>6, <1>7, <1>8, <1>9, OnReadyKeepsInv
        DEF Next, SteadyNext

-----------------------------------------------------------------------------
(***************************************************************************)
(* m_difficulty covers what is held.  The part that makes this inductive:  *)
(* what doneDrain will subtract is the difficulty of the blocks being      *)
(* drained, no more.                                                       *)
(***************************************************************************)
DrainingCounted == m_drainingDifficulty = SumOver(m_drainingSet)
Covered == DrainingCounted /\ m_difficulty >= HeldDifficulty

LEMMA QueuedBlocks ==
    ASSUME QueueInv
    PROVE  Queued \in SUBSET Blocks /\ m_unknown \in SUBSET Blocks /\ m_drainingSet \in SUBSET Blocks
<1>1. VerifyingHashes \subseteq Blocks
  <2>1. HashesOf(m_verifying) \in Seq(Blocks)
    BY HashesOfProperties DEF QueueInv, QueueTypeOK
  <2> QED BY <2>1 DEF VerifyingHashes, RangeOf
<1>2. RangeOf(m_verified) \subseteq Blocks /\ RangeOf(m_unverified) \subseteq Blocks
  BY DEF QueueInv, QueueTypeOK, RangeOf
<1> QED BY <1>1, <1>2 DEF Queued, QueueInv, QueueTypeOK

LEMMA HeldTypes ==
    ASSUME QueueInv
    PROVE  /\ SumOver(Queued) \in Nat /\ SumOver(m_unknown) \in Nat /\ SumOver(m_drainingSet) \in Nat
           /\ SumOf(Difficulty, m_future) \in Nat /\ m_difficulty \in Int
<1>1. SumOver(Queued) \in Nat /\ SumOver(m_unknown) \in Nat /\ SumOver(m_drainingSet) \in Nat
  BY QueuedBlocks, SumOverType
<1>2. m_future \in Seq(Blocks) /\ m_difficulty \in Int
  BY DEF QueueInv, QueueTypeOK
<1>3. SumOf(Difficulty, m_future) \in Nat
  BY <1>2, DifficultyType, SumOfType
<1> QED BY <1>1, <1>2, <1>3

\* Blocks may leave the queue and m_unknown, those of A go from m_unknown to
\* the queue, and those of N are new there and counted.
LEMMA MovingKeepsCovered ==
    ASSUME QueueInv, QueueInv', Covered, NEW A \in SUBSET m_unknown, NEW N \in SUBSET Blocks,
           N \cap (Queued \cup m_unknown) = {},
           Queued' \subseteq Queued \cup N \cup A, m_unknown' \subseteq m_unknown \ A,
           m_difficulty' = m_difficulty + SumOver(N),
           UNCHANGED <<m_drainingSet, m_future, m_drainingDifficulty>>
    PROVE  Covered'
<1> DEFINE rest == m_unknown \ A
<1>1. /\ Queued \in SUBSET Blocks /\ A \in SUBSET Blocks /\ rest \in SUBSET Blocks
      /\ Queued \cap A = {} /\ N \cap A = {} /\ Queued \cap N = {} /\ A \cap rest = {}
      /\ A \cup rest = m_unknown /\ Queued \cup N \in SUBSET Blocks
      /\ (Queued \cup N) \cap A = {} /\ Queued \cup N \cup A \in SUBSET Blocks
  BY QueuedBlocks DEF QueueInv, Pipelined, UnknownNotQueued
<1> HIDE DEF rest
<1>2. SumOver(m_unknown) = SumOver(A) + SumOver(rest)
  BY <1>1, SumOverUnion
<1>3. SumOver(Queued \cup N) = SumOver(Queued) + SumOver(N)
  BY <1>1, SumOverUnion
<1>4. SumOver(Queued \cup N \cup A) = SumOver(Queued \cup N) + SumOver(A)
  BY <1>1, SumOverUnion
<1>5. SumOver(Queued') <= SumOver(Queued \cup N \cup A)
  BY <1>1, SumOverGrows
<1>6. SumOver(m_unknown') <= SumOver(rest)
  BY <1>1, SumOverGrows DEF rest
<1>7. /\ SumOver(Queued) \in Nat /\ SumOver(N) \in Nat /\ SumOver(A) \in Nat
      /\ SumOver(rest) \in Nat
  BY <1>1, SumOverType
<1>8. SumOver(Queued') \in Nat /\ SumOver(m_unknown') \in Nat
  <2>1. Queued' \in SUBSET Blocks /\ m_unknown' \in SUBSET Blocks
    BY <1>1
  <2> QED BY <2>1, SumOverType
<1>9. /\ SumOver(m_drainingSet) \in Nat /\ SumOf(Difficulty, m_future) \in Nat
      /\ m_difficulty \in Int
  BY HeldTypes
<1>10. /\ SumOver(m_drainingSet') = SumOver(m_drainingSet)
       /\ SumOf(Difficulty, m_future') = SumOf(Difficulty, m_future)
  OBVIOUS
<1>11. m_difficulty >= SumOver(Queued) + SumOver(m_drainingSet) + SumOver(m_unknown)
                       + SumOf(Difficulty, m_future)
  BY DEF Covered, HeldDifficulty, SumDifficulty
<1>12. m_difficulty' >= SumOver(Queued') + SumOver(m_drainingSet') + SumOver(m_unknown')
                        + SumOf(Difficulty, m_future')
  BY <1>2, <1>3, <1>4, <1>5, <1>6, <1>7, <1>8, <1>9, <1>10, <1>11
<1>13. DrainingCounted'
  BY <1>10 DEF Covered, DrainingCounted
<1> QED BY <1>12, <1>13 DEF Covered, HeldDifficulty, SumDifficulty, SumOver, Queued, VerifyingHashes

\* Nothing enters the queue or m_unknown.
LEMMA ShrinkingKeepsCovered ==
    ASSUME QueueInv, QueueInv', Covered, Queued' \subseteq Queued, m_unknown' \subseteq m_unknown,
           UNCHANGED <<m_drainingSet, m_future, m_difficulty, m_drainingDifficulty>>
    PROVE  Covered'
<1> DEFINE none == {}
<1>1. none \in SUBSET m_unknown /\ none \in SUBSET Blocks
  OBVIOUS
<1>2. SumOver(none) = 0
  BY SumOverOne
<1>3. m_difficulty' = m_difficulty + SumOver(none)
  BY <1>2 DEF QueueInv, QueueTypeOK
<1>4. /\ none \cap (Queued \cup m_unknown) = {}
      /\ Queued' \subseteq Queued \cup none \cup none /\ m_unknown' \subseteq m_unknown \ none
  OBVIOUS
<1> HIDE DEF none
<1> QED BY <1>1, <1>3, <1>4, MovingKeepsCovered

LEMMA CoveredByQueues ==
    ASSUME QueueInv, Covered
    PROVE  m_difficulty >= m_drainingDifficulty
<1>1. /\ SumOver(Queued) \in Nat /\ SumOver(m_unknown) \in Nat /\ SumOver(m_drainingSet) \in Nat
      /\ SumOf(Difficulty, m_future) \in Nat /\ m_difficulty \in Int
  BY HeldTypes
<1> QED BY <1>1 DEF Covered, DrainingCounted, HeldDifficulty, SumDifficulty

\* A block of the future is counted like any other, wherever it is put.
LEMMA ImportFutureKeepsCovered ==
    ASSUME QueueInv, Covered, NEW b \in Blocks, NEW t \in Nat, ImportFuture(b, t)
    PROVE  Covered'
<1> DEFINE k == Cardinality({i \in DOMAIN m_future : Timestamp[m_future[i]] <= Timestamp[b]})
           front == SubSeq(m_future, 1, k)
           back == SubSeq(m_future, k + 1, Len(m_future))
<1>1. m_future \in Seq(Blocks)
  BY DEF QueueInv, QueueTypeOK
<1>2. k \in 0..Len(m_future)
  BY <1>1, CountBounded
<1> HIDE DEF k
<1>3. front \in Seq(Blocks) /\ back \in Seq(Blocks) /\ m_future = front \o back
  <2>1. front \in Seq(Blocks) /\ back \in Seq(Blocks)
    BY <1>1, <1>2, CutProperties
  <2>2. m_future = front \o back
    BY <1>1, <1>2, CutConcat
  <2> QED BY <2>1, <2>2
<1>4. m_future' = front \o <<b>> \o back
  BY DEF ImportFuture, InsertFuture, k
<1> HIDE DEF front, back
<1>5. front \o <<b>> = Append(front, b)
  BY <1>3
<1> DEFINE more == Append(front, b)
<1>6. m_future' = more \o back
  BY <1>4, <1>5
<1>7. more \in Seq(Blocks) /\ SumOf(Difficulty, more) = SumOf(Difficulty, front) + Difficulty[b]
  <2>1. more \in Seq(Blocks)
    BY <1>3
  <2> QED BY <2>1, <1>3, DifficultyType, SumOfAppend
<1> HIDE DEF more
<1>8. SumOf(Difficulty, more \o back) = SumOf(Difficulty, more) + SumOf(Difficulty, back)
  BY <1>3, <1>7, DifficultyType, SumOfConcat
<1>9. SumOf(Difficulty, front \o back) = SumOf(Difficulty, front) + SumOf(Difficulty, back)
  BY <1>3, DifficultyType, SumOfConcat
<1>10. /\ SumOf(Difficulty, front) \in Nat /\ SumOf(Difficulty, back) \in Nat
       /\ Difficulty[b] \in Nat
  BY <1>3, DifficultyType, SumOfType
<1>11. SumOf(Difficulty, m_future') = SumOf(Difficulty, m_future) + Difficulty[b]
  BY <1>3, <1>6, <1>7, <1>8, <1>9, <1>10
<1>12. /\ UNCHANGED <<m_readySet, m_drainingSet, m_unknown, m_knownBad, m_verified, m_verifying,
                      m_unverified, m_drainingDifficulty>>
       /\ m_difficulty' = m_difficulty + Difficulty[b]
  BY DEF ImportFuture, AddDifficulty, queueVars
<1>13. Queued' = Queued
  BY <1>12 DEF Queued, VerifyingHashes
<1>14. /\ SumOver(Queued) \in Nat /\ SumOver(m_unknown) \in Nat /\ SumOver(m_drainingSet) \in Nat
       /\ SumOf(Difficulty, m_future) \in Nat /\ m_difficulty \in Int
  BY HeldTypes
<1>15. m_difficulty >= SumOver(Queued) + SumOver(m_drainingSet) + SumOver(m_unknown)
                       + SumOf(Difficulty, m_future)
  BY DEF Covered, HeldDifficulty, SumDifficulty
<1>16. m_difficulty' >= SumOver(Queued) + SumOver(m_drainingSet) + SumOver(m_unknown)
                        + SumOf(Difficulty, m_future')
  BY <1>10, <1>11, <1>12, <1>14, <1>15
<1>17. m_difficulty' >= SumOver(Queued') + SumOver(m_drainingSet') + SumOver(m_unknown')
                        + SumOf(Difficulty, m_future')
  BY <1>12, <1>13, <1>16
<1> QED BY <1>12, <1>17 DEF Covered, DrainingCounted, HeldDifficulty, SumDifficulty

LEMMA ImportKeepsCovered ==
    ASSUME QueueInv, QueueInv', Covered, NEW b \in Blocks, NEW isOurs, NEW t \in Nat,
           Import(b, isOurs, t)
    PROVE  Covered'
<1>1. CASE ImportFuture(b, t)
  BY <1>1, ImportFutureKeepsCovered
<1>2. CASE ImportBadChain(b)
  <2>1. Queued' = Queued /\ m_unknown' = m_unknown
    BY <1>2 DEF ImportBadChain, Queued, VerifyingHashes, queueVars
  <2> QED BY <1>2, <2>1, ShrinkingKeepsCovered DEF ImportBadChain, difficultyVars
<1>3. CASE ImportUnknownParent(b)
  <2>1. /\ Queued' = Queued /\ m_unknown' = m_unknown \cup {b} /\ b \notin m_unknown
        /\ UNCHANGED <<m_drainingSet, m_future, m_drainingDifficulty>>
        /\ m_difficulty' = m_difficulty + Difficulty[b]
    BY <1>3 DEF ImportUnknownParent, ImportNew, Queued, VerifyingHashes, queueVars, AddDifficulty
  <2>2. SumOver(m_unknown \cup {b}) = SumOver(m_unknown) + SumOver({b})
    <3>1. m_unknown \in SUBSET Blocks /\ {b} \in SUBSET Blocks /\ m_unknown \cap {b} = {}
      BY <2>1, QueuedBlocks
    <3> QED BY <3>1, SumOverUnion
  <2>3. SumOver(m_unknown') = SumOver(m_unknown) + Difficulty[b]
    BY <2>1, <2>2, SumOverOne
  <2>4. /\ SumOver(Queued) \in Nat /\ SumOver(m_unknown) \in Nat /\ SumOver(m_drainingSet) \in Nat
        /\ SumOf(Difficulty, m_future) \in Nat /\ m_difficulty \in Int
    BY HeldTypes
  <2>5. Difficulty[b] \in Nat
    BY DifficultyType
  <2>6. m_difficulty >= SumOver(Queued) + SumOver(m_drainingSet) + SumOver(m_unknown)
                        + SumOf(Difficulty, m_future)
    BY DEF Covered, HeldDifficulty, SumDifficulty
  <2>7. m_difficulty' >= SumOver(Queued) + SumOver(m_drainingSet) + SumOver(m_unknown')
                         + SumOf(Difficulty, m_future)
    BY <2>1, <2>3, <2>4, <2>5, <2>6
  <2>8. m_difficulty' >= SumOver(Queued') + SumOver(m_drainingSet') + SumOver(m_unknown')
                         + SumOf(Difficulty, m_future')
    BY <2>1, <2>7
  <2> QED BY <2>1, <2>8 DEF Covered, DrainingCounted, HeldDifficulty, SumDifficulty
<1>4. CASE ImportReady(b)
  <2> DEFINE A == WaitsFor(m_unknown, b)
  <2>1. /\ Queued' = Queued \cup {b} \cup A /\ A \in SUBSET m_unknown
        /\ m_unknown' = m_unknown \ A
    BY <1>4, ImportReadyKeepsInv DEF ImportReady, WaitsFor
  <2>2. b \notin Queued /\ b \notin m_unknown
    BY <1>4, NewNotQueued DEF ImportReady, ImportNew
  <2>3. m_difficulty' = m_difficulty + SumOver({b})
    BY <1>4, SumOverOne DEF ImportReady, AddDifficulty
  <2>4. UNCHANGED <<m_drainingSet, m_future, m_drainingDifficulty>>
    BY <1>4 DEF ImportReady
  <2> HIDE DEF A
  <2> DEFINE N == {b}
  <2>5. /\ N \in SUBSET Blocks /\ N \cap (Queued \cup m_unknown) = {}
        /\ Queued' \subseteq Queued \cup N \cup A /\ m_unknown' \subseteq m_unknown \ A
        /\ m_difficulty' = m_difficulty + SumOver(N)
    BY <2>1, <2>2, <2>3
  <2> HIDE DEF N
  <2> QED BY <2>1, <2>4, <2>5, MovingKeepsCovered
<1> QED BY <1>1, <1>2, <1>3, <1>4 DEF Import

LEMMA RetryKeepsCovered ==
    ASSUME QueueInv, QueueInv', Covered, RetryAllUnknown
    PROVE  Covered'
<1> DEFINE none == {}
<1>1. none \in SUBSET Blocks /\ SumOver(none) = 0
  BY SumOverOne
<1>2. Queued' = Queued \cup m_unknown /\ m_unknown' = {}
  BY RetryKeepsInv DEF RetryAllUnknown
<1>3. UNCHANGED <<m_drainingSet, m_future, m_difficulty, m_drainingDifficulty>>
  BY DEF RetryAllUnknown, difficultyVars
<1>4. m_difficulty' = m_difficulty + SumOver(none)
  BY <1>1, <1>3 DEF QueueInv, QueueTypeOK
<1>5. /\ none \cap (Queued \cup m_unknown) = {}
      /\ Queued' \subseteq Queued \cup none \cup m_unknown /\ m_unknown' \subseteq m_unknown \ m_unknown
  BY <1>2
<1> HIDE DEF none
<1> QED BY <1>1, <1>3, <1>4, <1>5, MovingKeepsCovered

LEMMA DrainKeepsCovered ==
    ASSUME QueueInv, Covered, NEW n \in 0..Len(m_verified), Drain(n)
    PROVE  Covered'
<1> DEFINE out == SubSeq(m_verified, 1, n)
<1>1. /\ Queued' \subseteq Queued \ m_drainingSet' /\ m_drainingSet' \subseteq Queued
      /\ out \in Seq(Blocks) /\ Distinct(out)
  BY DrainKeepsInv
<1>2. /\ m_drainingSet = {} /\ m_drainingSet' = RangeOf(out)
      /\ m_drainingDifficulty' = SumOf(Difficulty, out)
      /\ UNCHANGED <<m_unknown, m_future, m_difficulty>>
  BY DEF Drain, SumDifficulty
<1> HIDE DEF out
<1>3. DrainingCounted'
  <2>1. SumOver(RangeOf(out)) = SumOf(Difficulty, out)
    BY <1>1, SumOverListed
  <2>2. m_drainingDifficulty' = SumOver(m_drainingSet')
    BY <1>2, <2>1
  <2> QED BY <2>2 DEF DrainingCounted
<1> DEFINE left == Queued \ m_drainingSet'
           d == m_drainingSet'
<1>4. left \in SUBSET Blocks /\ d \in SUBSET Blocks /\ left \cap d = {} /\ left \cup d = Queued
  BY <1>1, QueuedBlocks
<1>5. Queued' \in SUBSET left
  BY <1>1
<1> HIDE DEF left, d
<1>6. SumOver(left \cup d) = SumOver(left) + SumOver(d)
  BY <1>4, SumOverUnion
<1>7. SumOver(Queued') <= SumOver(left)
  BY <1>4, <1>5, SumOverGrows
<1>8. SumOver(left) \in Nat /\ SumOver(d) \in Nat /\ SumOver(Queued') \in Nat
  <2>1. Queued' \in SUBSET Blocks
    BY <1>4, <1>5
  <2> QED BY <1>4, <2>1, SumOverType
<1>9. /\ SumOver(Queued) \in Nat /\ SumOver(m_unknown) \in Nat
      /\ SumOf(Difficulty, m_future) \in Nat /\ m_difficulty \in Int
  BY HeldTypes
<1>10. m_difficulty >= SumOver(Queued) + 0 + SumOver(m_unknown) + SumOf(Difficulty, m_future)
  BY <1>2, SumOverOne DEF Covered, HeldDifficulty, SumDifficulty
<1>11. SumOver(Queued) = SumOver(left) + SumOver(d)
  BY <1>4, <1>6
<1>12. m_difficulty >= SumOver(Queued') + SumOver(d) + SumOver(m_unknown) + SumOf(Difficulty, m_future)
  BY <1>7, <1>8, <1>9, <1>10, <1>11
<1>13. m_difficulty' >= SumOver(Queued') + SumOver(m_drainingSet') + SumOver(m_unknown')
                        + SumOf(Difficulty, m_future')
  BY <1>2, <1>12 DEF d
<1> QED BY <1>3, <1>13 DEF Covered, HeldDifficulty, SumDifficulty

\* doneDrain subtracts the blocks it stops holding.
LEMMA DoneDrainKeepsCovered ==
    ASSUME QueueInv, Covered, NEW bad, DoneDrain(bad)
    PROVE  Covered'
<1>1. /\ m_drainingSet' = {} /\ m_drainingDifficulty' = 0
      /\ m_difficulty' = m_difficulty - m_drainingDifficulty
      /\ UNCHANGED <<m_unknown, m_future, m_verified, m_verifying, m_unverified>>
  BY DEF DoneDrain, queueVars
<1>2. Queued' = Queued
  BY <1>1 DEF Queued, VerifyingHashes
<1>3. /\ SumOver(Queued) \in Nat /\ SumOver(m_unknown) \in Nat /\ SumOver(m_drainingSet) \in Nat
      /\ SumOf(Difficulty, m_future) \in Nat /\ m_difficulty \in Int
  BY HeldTypes
<1>4. /\ m_difficulty >= SumOver(Queued) + SumOver(m_drainingSet) + SumOver(m_unknown)
                         + SumOf(Difficulty, m_future)
      /\ m_drainingDifficulty = SumOver(m_drainingSet)
  BY DEF Covered, DrainingCounted, HeldDifficulty, SumDifficulty
<1>5. SumOver(m_drainingSet') = 0
  BY <1>1, SumOverOne
<1>6. m_difficulty' >= SumOver(Queued) + 0 + SumOver(m_unknown) + SumOf(Difficulty, m_future)
  BY <1>1, <1>3, <1>4
<1>7. m_difficulty' >= SumOver(Queued') + SumOver(m_drainingSet') + SumOver(m_unknown')
                       + SumOf(Difficulty, m_future')
  BY <1>1, <1>2, <1>5, <1>6
<1> QED BY <1>1, <1>5, <1>7 DEF Covered, DrainingCounted, HeldDifficulty, SumDifficulty

\* An empty queue holds nothing.
LEMMA EmptyIsCovered ==
    ASSUME m_drainingSet = {}, m_unknown = {}, m_future = <<>>, m_verified = <<>>,
           m_verifying = <<>>, m_unverified = <<>>, m_difficulty = 0, m_drainingDifficulty = 0
    PROVE  Covered
<1>1. Queued = {}
  BY EmptyQueue DEF Queued, VerifyingHashes
<1>2. SumOver({}) = 0
  BY SumOverOne
<1>3. SumOf(Difficulty, <<>>) = 0
  BY DifficultyType, SumOfEmpty
<1>4. m_difficulty >= SumOver(Queued) + SumOver(m_drainingSet) + SumOver(m_unknown)
                      + SumOf(Difficulty, m_future)
  BY <1>1, <1>2, <1>3
<1>5. DrainingCounted
  BY <1>2 DEF DrainingCounted
<1> QED BY <1>4, <1>5 DEF Covered, HeldDifficulty, SumDifficulty

LEMMA ClearKeepsCovered ==
    ASSUME Clear
    PROVE  Covered'
<1>1. Queued' = {}
  BY EmptyQueue DEF Queued, VerifyingHashes, Clear
<1>2. SumOver({}) = 0
  BY SumOverOne
<1>3. SumOf(Difficulty, <<>>) = 0
  BY DifficultyType, SumOfEmpty
<1>4. m_difficulty' >= SumOver(Queued') + SumOver(m_drainingSet') + SumOver(m_unknown')
                       + SumOf(Difficulty, m_future')
  BY <1>1, <1>2, <1>3 DEF Clear
<1>5. DrainingCounted'
  BY <1>2 DEF DrainingCounted, Clear
<1> QED BY <1>4, <1>5 DEF Covered, HeldDifficulty, SumDifficulty

\* The blocks tick() takes are no longer held, and counted again if they
\* are imported.
LEMMA TakePastFutureKeepsCovered ==
    ASSUME QueueInv, Covered, NEW t \in Nat, TakePastFuture(t)
    PROVE  Covered'
<1> DEFINE k == PastFuture(t)
           front == SubSeq(m_future, 1, k)
           back == SubSeq(m_future, k + 1, Len(m_future))
<1>1. m_future \in Seq(Blocks)
  BY DEF QueueInv, QueueTypeOK
<1>2. k \in 0..Len(m_future)
  BY <1>1, CountBounded DEF PastFuture
<1>3. /\ m_future' = back
      /\ UNCHANGED <<m_drainingSet, m_unknown, m_verified, m_verifying, m_unverified,
                     m_difficulty, m_drainingDifficulty>>
  BY DEF TakePastFuture, queueVars, difficultyVars
<1> HIDE DEF k
<1>4. front \in Seq(Blocks) /\ back \in Seq(Blocks) /\ m_future = front \o back
  <2>1. front \in Seq(Blocks) /\ back \in Seq(Blocks)
    BY <1>1, <1>2, CutProperties
  <2>2. m_future = front \o back
    BY <1>1, <1>2, CutConcat
  <2> QED BY <2>1, <2>2
<1> HIDE DEF front, back
<1>5. SumOf(Difficulty, front \o back) = SumOf(Difficulty, front) + SumOf(Difficulty, back)
  BY <1>4, DifficultyType, SumOfConcat
<1>6. SumOf(Difficulty, front) \in Nat /\ SumOf(Difficulty, back) \in Nat
  BY <1>4, DifficultyType, SumOfType
<1>7. SumOf(Difficulty, m_future') <= SumOf(Difficulty, m_future) /\ SumOf(Difficulty, m_future') \in Nat
  BY <1>3, <1>4, <1>5, <1>6
<1>8. Queued' = Queued
  BY <1>3 DEF Queued, VerifyingHashes
<1>9. /\ SumOver(Queued) \in Nat /\ SumOver(m_unknown) \in Nat /\ SumOver(m_drainingSet) \in Nat
      /\ SumOf(Difficulty, m_future) \in Nat /\ m_difficulty \in Int
  BY HeldTypes
<1>10. m_difficulty >= SumOver(Queued) + SumOver(m_drainingSet) + SumOver(m_unknown)
                       + SumOf(Difficulty, m_future)
  BY DEF Covered, HeldDifficulty, SumDifficulty
<1>11. m_difficulty >= SumOver(Queued) + SumOver(m_drainingSet) + SumOver(m_unknown)
                       + SumOf(Difficulty, m_future')
  BY <1>7, <1>9, <1>10
<1>12. m_difficulty' >= SumOver(Queued') + SumOver(m_drainingSet') + SumOver(m_unknown')
                        + SumOf(Difficulty, m_future')
  BY <1>3, <1>8, <1>11
<1> QED BY <1>3, <1>12 DEF Covered, DrainingCounted, HeldDifficulty, SumDifficulty

\* A step that changes none of what is counted.
LEMMA FrameKeepsCovered ==
    ASSUME Covered, UNCHANGED <<m_drainingSet, m_unknown, m_future, queueVars, difficultyVars>>
    PROVE  Covered'
<1>1. Queued' = Queued
  BY DEF Queued, VerifyingHashes, queueVars
<1>2. SumOver(Queued') = SumOver(Queued)
  BY <1>1
<1> QED BY <1>1, <1>2 DEF Covered, DrainingCounted, HeldDifficulty, SumDifficulty, difficultyVars

LEMMA NextKeepsCovered ==
    IInv /\ IInv' /\ Covered /\ [Next]_vars => Covered'
<1> SUFFICES ASSUME IInv, IInv', Covered, [Next]_vars PROVE Covered'
  OBVIOUS
<1>0. QueueInv /\ QueueInv' /\ now \in Nat /\ todo \in Seq(Blocks)
  BY DEF IInv, ClientInv, ClientTypeOK
<1>1. ASSUME NEW b \in Blocks, Receive(b) PROVE Covered'
  BY <1>0, <1>1, ImportKeepsCovered DEF Receive
<1>2. ASSUME NEW v \in Verifiers, Verifier(v) PROVE Covered'
  <2>1. Queued' \subseteq Queued
    BY <1>0, <1>2, TakeKeepsInv, VerifyFailedKeepsInv, VerifiedInTurnKeepsInv,
       VerifiedOutOfTurnKeepsInv DEF Verifier
  <2>2. UNCHANGED <<m_unknown, m_drainingSet, m_future, m_difficulty, m_drainingDifficulty>>
    BY <1>2 DEF Verifier, Take, VerifyFailed, VerifiedInTurn, VerifiedOutOfTurn, setVars,
                difficultyVars
  <2> QED BY <1>0, <2>1, <2>2, ShrinkingKeepsCovered
<1>3. CASE UpdateBad
  <2>1. UpdateBadPass /\ Queued' \subseteq Queued /\ m_unknown' \subseteq m_unknown
    BY <1>0, <1>3, UpdateBadPassKeepsInv DEF UpdateBad, Purged
  <2>2. UNCHANGED <<m_drainingSet, m_future, m_difficulty, m_drainingDifficulty>>
    BY <2>1 DEF UpdateBadPass, difficultyVars
  <2> QED BY <1>0, <2>1, <2>2, ShrinkingKeepsCovered
<1>4. CASE SyncDrain
  <2>1. PICK max \in 1..MaxSync :
           LET n == IF max < Len(m_verified) THEN max ELSE Len(m_verified) IN Drain(n)
    BY <1>4 DEF SyncDrain
  <2> DEFINE n == IF max < Len(m_verified) THEN max ELSE Len(m_verified)
  <2>2. n \in 0..Len(m_verified) /\ Drain(n)
    BY <2>1, SyncAssumption DEF IInv, QueueInv, QueueTypeOK
  <2> HIDE DEF n
  <2> QED BY <1>0, <2>2, DrainKeepsCovered
<1>5. CASE SyncDone
  BY <1>0, <1>5, DoneDrainKeepsCovered DEF SyncDone
<1>6. CASE Tick
  BY <1>0, <1>6, TakePastFutureKeepsCovered DEF Tick
<1>7. CASE TickImport
  <2>1. Head(todo) \in Blocks
    BY <1>0, <1>7, HeadTailRange DEF TickImport
  <2>2. Import(Head(todo), FALSE, now) \/ UNCHANGED queueStateVars
    BY <1>7 DEF TickImport
  <2>3. CASE Import(Head(todo), FALSE, now)
    BY <1>0, <2>1, <2>3, ImportKeepsCovered
  <2>4. CASE UNCHANGED queueStateVars
    BY <2>4, FrameKeepsCovered DEF queueStateVars, setVars
  <2> QED BY <2>2, <2>3, <2>4
<1>8. CASE SyncRestart
  BY <1>8, ClearKeepsCovered DEF SyncRestart
<1>9. CASE RetryUnknown
  BY <1>0, <1>9, RetryKeepsCovered DEF RetryUnknown
<1>10. ASSUME NEW v \in Verifiers, OnReady(v) PROVE Covered'
  BY <1>10, FrameKeepsCovered DEF OnReady, setVars
<1>11. CASE StartSync \/ DoneDrainReturn \/ SyncAssign \/ Clock \/ UNCHANGED vars
  BY <1>11, FrameKeepsCovered
     DEF StartSync, DoneDrainReturn, SyncAssign, Clock, vars, queueStateVars, setVars
<1>12. CASE SyncImport \/ Rewind
  BY <1>12, FrameKeepsCovered DEF SyncImport, Rewind, setVars, queueVars, difficultyVars
<1> QED BY <1>1, <1>2, <1>3, <1>4, <1>5, <1>6, <1>7, <1>8, <1>9, <1>10, <1>11, <1>12
        DEF Next, SteadyNext, ClientThread

-----------------------------------------------------------------------------
(***************************************************************************)
(* The theorems.                                                           *)
(***************************************************************************)
\* Type correctness: every container of BlockQueue holds what its declaration
\* says, whatever the peers, the verifiers and the client do.
THEOREM TypeCorrect == Spec => []TypeOK
<1>1. IInv => TypeOK
  BY DEF IInv, QueueInv, ClientInv, TypeOK
<1> QED BY <1>1, InitInv, NextKeepsInv, PTL DEF Spec

\* No block is queued twice, for any number of verifiers, with restarts and
\* forced retries at any time.
THEOREM QueueHoldsOnce == Spec => []QueuedOnce
<1>1. IInv => QueuedOnce
  BY DEF IInv, QueueInv, Pipelined
<1> QED BY <1>1, InitInv, NextKeepsInv, PTL DEF Spec

\* What is queued is known to import(), so its AlreadyKnown test is complete.
THEOREM QueueIsKnown == Spec => []QueuedKnown
<1>1. IInv => QueuedKnown
  BY DEF IInv, QueueInv, Pipelined
<1> QED BY <1>1, InitInv, NextKeepsInv, PTL DEF Spec

\* Every unfinished job of m_verifying has a verifier at work on it.
THEOREM EveryJobOwned == Spec => []JobsOwned
<1>1. IInv => JobsOwned
  BY DEF IInv, QueueInv, Pipelined
<1> QED BY <1>1, InitInv, NextKeepsInv, PTL DEF Spec

\* Only verified blocks are drained and enter the chain.
THEOREM ChainIsVerified == Spec => []OnlyVerified
<1>1. IInv => OnlyVerified
  BY DEF IInv, QueueInv, ClientInv, VerifiedValid, OnlyVerified
<1> QED BY <1>1, InitInv, NextKeepsInv, PTL DEF Spec

\* The difficulty the queue announces never falls below what it holds, and
\* doneDrain never makes it wrap, whatever is cleared or retried meanwhile.
THEOREM DifficultyAlwaysCovers == Spec => []DifficultyCovers
<1>1. Init => Covered
  BY EmptyIsCovered DEF Init, QueueInit
<1>2. IInv /\ Covered => DifficultyCovers
  <2> SUFFICES ASSUME IInv, Covered PROVE DifficultyCovers
    OBVIOUS
  <2>1. m_difficulty >= m_drainingDifficulty
    BY CoveredByQueues DEF IInv
  <2> QED BY <2>1 DEF DifficultyCovers, Covered
<1> QED BY <1>1, <1>2, InitInv, NextKeepsInv, NextKeepsCovered, PTL DEF Spec

-----------------------------------------------------------------------------
(***************************************************************************)
(* What the block queue does with blocks that are not rejected, for any    *)
(* set of blocks, any tree and any number of verifiers: which blocks wait  *)
(* in m_unknown, what invariants() counts, the order in which drain() gives*)
(* the blocks, and that valid blocks are never taken for bad.              *)
(***************************************************************************)

(***************************************************************************)
(* The inductive invariant.  A block waits in m_unknown for a parent that  *)
(* import() has not seen, or that a call of updateBad_WITH_LOCK still on   *)
(* its way will take it out for.  That needs to know where the jobs of the *)
(* verifiers and the drained blocks are: what they report to m_knownBad is *)
(* no block somebody waits for.                                            *)
(***************************************************************************)
\* A verifier's job is known to import() and in nobody else's hands.
WorkHeld ==
    \A v \in Verifiers : work[v] # NoBlock =>
        /\ work[v] \in m_readySet \cup m_knownBad
        /\ work[v] \notin RangeOf(m_verified) \cup RangeOf(m_unverified)
        /\ \A e \in RangeOf(m_verifying) : e.hash = work[v] => ~e.done
WorkDistinct ==
    \A u, v \in Verifiers : work[u] = work[v] /\ work[u] # NoBlock => u = v
BatchDraining == RangeOf(batch) \cup RangeOf(badBlocks) \subseteq m_drainingSet
UnknownApart == m_unknown \cap (m_readySet \cup m_drainingSet \cup m_knownBad) = {}
Waiting ==
    \A u \in m_unknown :
        /\ Parent[u] \notin m_readySet \cup m_drainingSet
        /\ Parent[u] \in m_knownBad => Parent[u] \in RangeOf(m_updateBad)
Jobs == WorkHeld /\ WorkDistinct
Unknowns == UnknownApart /\ Waiting
SteadyInv == Jobs /\ BatchDraining /\ Unknowns

\* With no call of updateBad_WITH_LOCK on its way, nothing bad is waited for.
LEMMA WaitingWhenFree ==
    ASSUME QueueInv, Unknowns, LockFree, NEW u \in m_unknown
    PROVE  Parent[u] \notin m_readySet \cup m_drainingSet \cup m_knownBad \cup Queued
<1>1. RangeOf(m_updateBad) = {}
  BY EmptyQueue DEF LockFree
<1>2. Parent[u] \notin m_readySet \cup m_drainingSet \cup m_knownBad
  BY <1>1 DEF Unknowns, Waiting
<1> QED BY <1>2 DEF QueueInv, Pipelined, QueuedKnown

-----------------------------------------------------------------------------
(***************************************************************************)
(* The jobs.                                                               *)
(***************************************************************************)
\* A step in which no verifier takes or returns a job.
LEMMA FrameKeepsJobs ==
    ASSUME Jobs, work' = work,
           \A v \in Verifiers : work[v] # NoBlock /\ work[v] \in m_readySet \cup m_knownBad
               => work[v] \in m_readySet' \cup m_knownBad',
           \A v \in Verifiers : work[v] # NoBlock /\ work[v] \in m_readySet \cup m_knownBad
               => work[v] \notin RangeOf(m_verified') \cup RangeOf(m_unverified')
                  \/ work[v] \in RangeOf(m_verified) \cup RangeOf(m_unverified),
           RangeOf(m_verifying') \subseteq RangeOf(m_verifying)
    PROVE  Jobs'
<1>1. WorkDistinct'
  BY DEF Jobs, WorkDistinct
<1>2. WorkHeld'
  BY DEF Jobs, WorkHeld
<1> QED BY <1>1, <1>2 DEF Jobs

LEMMA TakeKeepsJobs ==
    ASSUME QueueInv, Jobs, NEW v \in Verifiers, Take(v)
    PROVE  Jobs'
<1> DEFINE h == Head(m_unverified)
           e == [hash |-> h, done |-> FALSE]
<1>1. /\ m_unverified \in Seq(Blocks) /\ m_unverified # <<>> /\ Distinct(m_unverified)
      /\ m_verifying \in Seq(VerifyingEntry)
      /\ work \in [Verifiers -> Blocks \cup {NoBlock}]
  BY DEF QueueInv, QueueTypeOK, Pipelined, QueuedOnce, Take
<1>2. /\ work' = [work EXCEPT ![v] = h] /\ m_unverified' = Tail(m_unverified)
      /\ m_verifying' = Append(m_verifying, e)
      /\ UNCHANGED <<m_readySet, m_knownBad, m_verified>>
  BY DEF Take, setVars
<1>3. /\ h \in Blocks
      /\ RangeOf(m_unverified) = {h} \cup RangeOf(m_unverified') /\ h \notin RangeOf(m_unverified')
  BY <1>1, <1>2, HeadTailRange
<1> HIDE DEF h
<1>4. e \in VerifyingEntry /\ e.hash = h /\ e.done = FALSE
  BY <1>3 DEF VerifyingEntry
<1> HIDE DEF e
<1>5. RangeOf(m_verifying') = RangeOf(m_verifying) \cup {e}
  BY <1>1, <1>2, <1>4, AppendRange
<1>6. /\ h \notin RangeOf(m_verified) /\ h \in m_readySet \cup m_knownBad
      /\ \A d \in RangeOf(m_verifying) : d.hash # h
  <2>1. h \notin VerifyingHashes /\ h \notin RangeOf(m_verified) /\ h \in Queued
    BY <1>3 DEF QueueInv, Pipelined, QueuedOnce, Queued
  <2>2. VerifyingHashes = {d.hash : d \in RangeOf(m_verifying)}
    BY <1>1, HashesOfProperties DEF VerifyingHashes
  <2> QED BY <2>1, <2>2 DEF QueueInv, Pipelined, QueuedKnown
<1>7. \A u \in Verifiers : work[u] # h
  BY <1>3, BlocksAssumption DEF Jobs, WorkHeld
<1>8. WorkDistinct'
  BY <1>1, <1>2, <1>7 DEF Jobs, WorkDistinct
<1>9. WorkHeld'
  <2> SUFFICES ASSUME NEW u \in Verifiers, work'[u] # NoBlock
               PROVE  /\ work'[u] \in m_readySet \cup m_knownBad
                      /\ work'[u] \notin RangeOf(m_verified) \cup RangeOf(m_unverified')
                      /\ \A d \in RangeOf(m_verifying') : d.hash = work'[u] => ~d.done
    BY <1>2 DEF WorkHeld
  <2>1. CASE u = v
    <3>1. work'[u] = h
      BY <1>1, <1>2, <2>1
    <3> QED BY <1>3, <1>4, <1>5, <1>6, <3>1
  <2>2. CASE u # v
    <3>1. work'[u] = work[u]
      BY <1>1, <1>2, <2>2
    <3> QED BY <1>3, <1>4, <1>5, <3>1 DEF Jobs, WorkHeld
  <2> QED BY <2>1, <2>2
<1> QED BY <1>8, <1>9 DEF Jobs

LEMMA ReturnKeepsJobs ==
    ASSUME QueueInv, Jobs, NEW v \in Verifiers, Returned(v)
    PROVE  Jobs'
<1>1. work \in [Verifiers -> Blocks \cup {NoBlock}] /\ work' = [work EXCEPT ![v] = NoBlock]
  BY DEF QueueInv, QueueTypeOK, Returned
<1>2. WorkDistinct'
  BY <1>1 DEF Jobs, WorkDistinct
<1>3. WorkHeld'
  <2> SUFFICES ASSUME NEW u \in Verifiers, work'[u] # NoBlock
               PROVE  /\ work'[u] \in m_readySet' \cup m_knownBad'
                      /\ work'[u] \notin RangeOf(m_verified') \cup RangeOf(m_unverified')
                      /\ \A d \in RangeOf(m_verifying') : d.hash = work'[u] => ~d.done
    BY DEF WorkHeld
  <2>1. u # v /\ work'[u] = work[u] /\ work[u] # NoBlock
    BY <1>1
  <2>2. work[u] # work[v]
    BY <2>1 DEF Jobs, WorkDistinct
  <2>3. /\ work[u] \in m_readySet \cup m_knownBad
        /\ work[u] \notin RangeOf(m_verified) \cup RangeOf(m_unverified)
        /\ \A d \in RangeOf(m_verifying) : d.hash = work[u] => ~d.done
    BY <2>1 DEF Jobs, WorkHeld
  <2>4. work[u] \in m_readySet' \cup m_knownBad'
    BY <2>3 DEF Returned
  <2>5. work[u] \notin RangeOf(m_verified') \cup RangeOf(m_unverified')
    BY <2>2, <2>3 DEF Returned
  <2>6. \A d \in RangeOf(m_verifying') : d.hash = work[u] => ~d.done
    BY <2>2, <2>3 DEF Returned
  <2> QED BY <2>1, <2>4, <2>5, <2>6
<1> QED BY <1>2, <1>3 DEF Jobs

-----------------------------------------------------------------------------
(***************************************************************************)
(* The blocks that wait.                                                   *)
(***************************************************************************)
\* A verifier reports its job and queued blocks: nobody waits for them.
LEMMA ReturnKeepsUnknowns ==
    ASSUME QueueInv, Jobs, Unknowns, LockFree, NEW v \in Verifiers, work[v] # NoBlock, Returned(v)
    PROVE  Unknowns'
<1>1. work[v] \in m_readySet \cup m_knownBad
  BY DEF Jobs, WorkHeld
<1>2. /\ UNCHANGED <<m_drainingSet, m_unknown, m_updateBad, chain, m_lastBlockHash>>
      /\ m_knownBad' \subseteq m_knownBad \cup {work[v]} \cup Queued
      /\ m_readySet' \subseteq m_readySet
  BY DEF Returned
<1>3. UnknownApart'
  BY <1>1, <1>2 DEF Unknowns, UnknownApart, QueueInv, Pipelined, UnknownNotQueued
<1>4. Waiting'
  <2> SUFFICES ASSUME NEW u \in m_unknown
               PROVE  /\ Parent[u] \notin m_readySet' \cup m_drainingSet
                      /\ Parent[u] \notin m_knownBad'
    BY <1>2 DEF Waiting
  <2> QED BY <1>1, <1>2, WaitingWhenFree
<1> QED BY <1>3, <1>4 DEF Unknowns

LEMMA ImportKeepsUnknowns ==
    ASSUME QueueInv, Unknowns, NEW b \in Blocks, NEW isOurs, NEW t \in Nat, Import(b, isOurs, t)
    PROVE  Unknowns'
<1>1. CASE ImportFuture(b, t)
  BY <1>1 DEF ImportFuture, Unknowns, UnknownApart, Waiting
<1>2. CASE ImportBadChain(b)
  <2>1. /\ b \notin m_unknown /\ LockFree
        /\ m_knownBad' = m_knownBad \cup {b} /\ m_updateBad' = <<b>>
        /\ UNCHANGED <<m_readySet, m_drainingSet, m_unknown, chain>>
    BY <1>2 DEF ImportBadChain, ImportNew
  <2>2. RangeOf(<<b>>) = {b}
    BY DEF RangeOf
  <2>3. UnknownApart'
    BY <2>1 DEF Unknowns, UnknownApart
  <2>4. Waiting'
    BY <2>1, <2>2, WaitingWhenFree DEF Waiting
  <2> QED BY <2>3, <2>4 DEF Unknowns
<1>3. CASE ImportUnknownParent(b)
  <2>1. /\ b \notin m_readySet \cup m_drainingSet \cup m_knownBad
        /\ Parent[b] \notin m_readySet \cup m_drainingSet \cup m_knownBad
        /\ m_unknown' = m_unknown \cup {b}
        /\ UNCHANGED <<m_readySet, m_drainingSet, m_knownBad, m_updateBad, chain, m_lastBlockHash>>
    BY <1>3 DEF ImportUnknownParent, ImportNew, ParentUnknown, KnownBlock
  <2>2. UnknownApart'
    BY <2>1 DEF Unknowns, UnknownApart
  <2>3. Waiting'
    BY <2>1 DEF Unknowns, Waiting
  <2> QED BY <2>2, <2>3 DEF Unknowns
<1>4. CASE ImportReady(b)
  <2> DEFINE released == WaitsFor(m_unknown, b)
  <2>1. /\ b \notin m_unknown /\ released \subseteq m_unknown
        /\ m_readySet' = m_readySet \cup {b} \cup released /\ m_unknown' = m_unknown \ released
        /\ UNCHANGED <<m_drainingSet, m_knownBad, m_updateBad, chain, m_lastBlockHash>>
    BY <1>4 DEF ImportReady, ImportNew, ReadyWith, WaitsFor
  <2>2. \A u \in m_unknown \ released : Parent[u] # b /\ Parent[u] \notin released
    BY WaitsForClosed
  <2> HIDE DEF released
  <2>3. UnknownApart'
    BY <2>1 DEF Unknowns, UnknownApart
  <2>4. Waiting'
    BY <2>1, <2>2 DEF Unknowns, Waiting
  <2> QED BY <2>3, <2>4 DEF Unknowns
<1> QED BY <1>1, <1>2, <1>3, <1>4 DEF Import

\* A call of updateBad_WITH_LOCK ends when nothing waits for its block.
LEMMA UpdateBadKeepsUnknowns ==
    ASSUME QueueInv, Unknowns, UpdateBadPass
    PROVE  Unknowns'
<1>1. Purged
  BY UpdateBadPassKeepsInv
<1>2. /\ UNCHANGED <<m_drainingSet, chain>>
      /\ m_updateBad' = m_updateBad \/ m_updateBad' = Tail(m_updateBad)
      /\ m_updateBad # <<>> /\ m_updateBad \in Seq(Blocks)
  BY DEF UpdateBadPass, QueueInv, QueueTypeOK
<1>3. RangeOf(m_updateBad) \subseteq {Head(m_updateBad)} \cup RangeOf(m_updateBad')
  BY <1>2, HeadTailRange
<1>4. m_unknown \subseteq Blocks /\ EmptyListSHA3 \notin Blocks
  BY BlocksAssumption DEF QueueInv, QueueTypeOK
<1>5. UnknownApart'
  BY <1>1, <1>2, <1>4 DEF Purged, Unknowns, UnknownApart, QueueInv, Pipelined, UnknownNotQueued
<1>6. Waiting'
  <2> SUFFICES ASSUME NEW u \in m_unknown'
               PROVE  /\ Parent[u] \notin m_readySet' \cup m_drainingSet
                      /\ Parent[u] \in m_knownBad' => Parent[u] \in RangeOf(m_updateBad')
    BY <1>2 DEF Waiting
  <2>1. /\ u \in m_unknown /\ Parent[u] # Head(m_updateBad)
        /\ Parent[u] \in m_knownBad' => Parent[u] \in m_knownBad
        /\ m_readySet' \subseteq m_readySet
    BY <1>1 DEF Purged
  <2> QED BY <1>3, <2>1 DEF Unknowns, Waiting
<1> QED BY <1>5, <1>6 DEF Unknowns

-----------------------------------------------------------------------------
(***************************************************************************)
(* The composition.                                                        *)
(***************************************************************************)
\* Importing a block gives no verifier its job.
LEMMA ImportKeepsJobs ==
    ASSUME QueueInv, Jobs, Unknowns, NEW b \in Blocks, NEW isOurs, NEW t \in Nat,
           Import(b, isOurs, t)
    PROVE  Jobs'
<1>1. CASE ImportFuture(b, t) \/ ImportBadChain(b) \/ ImportUnknownParent(b)
  <2>1. /\ work' = work /\ UNCHANGED <<m_readySet, m_verified, m_verifying, m_unverified>>
        /\ m_knownBad \subseteq m_knownBad'
    BY <1>1 DEF ImportFuture, ImportBadChain, ImportUnknownParent, queueVars, threadVars
  <2> QED BY <2>1, FrameKeepsJobs
<1>2. CASE ImportReady(b)
  <2> DEFINE released == WaitsFor(m_unknown, b)
  <2>1. /\ released \subseteq m_unknown /\ b \notin m_readySet \cup m_knownBad
        /\ m_readySet' = m_readySet \cup {b} \cup released
        /\ UNCHANGED <<m_knownBad, m_verified, m_verifying, work>>
    BY <1>2 DEF ImportReady, ImportNew, ReadyWith, WaitsFor, threadVars
  <2>2. Queued' = Queued \cup {b} \cup released
    BY <1>2, ImportReadyKeepsInv
  <2> HIDE DEF released
  <2>3. VerifyingHashes' = VerifyingHashes
    BY <2>1 DEF VerifyingHashes
  <2>4. m_unverified \in Seq(Blocks)
    BY DEF QueueInv, QueueTypeOK
  <2>5. RangeOf(m_unverified') \subseteq RangeOf(m_unverified) \cup {b} \cup released
    <3>1. QueuedOnce'
      BY <1>2, ImportReadyKeepsInv DEF QueueInv, Pipelined
    <3>2. RangeOf(m_unverified') \cap (RangeOf(m_verified) \cup VerifyingHashes) = {}
      BY <2>1, <2>3, <3>1 DEF QueuedOnce
    <3>3. RangeOf(m_unverified') \subseteq Queued \cup {b} \cup released
      BY <2>2 DEF Queued
    <3> QED BY <3>2, <3>3 DEF Queued
  <2>6. (m_readySet \cup m_knownBad) \cap ({b} \cup released) = {}
    BY <2>1 DEF Unknowns, UnknownApart
  <2> QED BY <2>1, <2>5, <2>6, FrameKeepsJobs
<1> QED BY <1>1, <1>2 DEF Import

LEMMA ImportKeepsSteady ==
    ASSUME QueueInv, SteadyInv, NEW b \in Blocks, NEW isOurs, NEW t \in Nat,
           Import(b, isOurs, t), UNCHANGED <<batch, badBlocks>>
    PROVE  SteadyInv'
<1>1. Jobs' /\ Unknowns'
  BY ImportKeepsJobs, ImportKeepsUnknowns DEF SteadyInv
<1>2. m_drainingSet' = m_drainingSet
  BY DEF Import, ImportFuture, ImportBadChain, ImportUnknownParent, ImportReady
<1> QED BY <1>1, <1>2 DEF SteadyInv, BatchDraining

LEMMA VerifierKeepsSteady ==
    ASSUME QueueInv, SteadyInv, NEW v \in Verifiers, Verifier(v)
    PROVE  SteadyInv'
<1>1. UNCHANGED <<batch, badBlocks, m_drainingSet>>
  BY DEF Verifier, clientVars, Take, VerifyFailed, VerifiedInTurn, VerifiedOutOfTurn, setVars
<1>2. CASE Take(v)
  <2>1. Jobs'
    BY <1>2, TakeKeepsJobs DEF SteadyInv
  <2>2. Unknowns'
    BY <1>2 DEF Take, setVars, SteadyInv, Unknowns, UnknownApart, Waiting
  <2> QED BY <1>1, <2>1, <2>2 DEF SteadyInv, BatchDraining
<1>3. CASE VerifyFailed(v) \/ VerifiedInTurn(v) \/ VerifiedOutOfTurn(v)
  <2>1. Returned(v)
    BY <1>3, VerifyFailedKeepsInv, VerifiedInTurnKeepsInv, VerifiedOutOfTurnKeepsInv
  <2>2. LockFree /\ work[v] \in Blocks
    BY <1>3, HeaderAssumption DEF VerifyFailed, VerifiedInTurn, VerifiedOutOfTurn
  <2>3. work[v] # NoBlock
    BY <2>2, BlocksAssumption
  <2>4. Jobs' /\ Unknowns'
    BY <2>1, <2>2, <2>3, ReturnKeepsJobs, ReturnKeepsUnknowns DEF SteadyInv
  <2> QED BY <1>1, <2>4 DEF SteadyInv, BatchDraining
<1> QED BY <1>2, <1>3 DEF Verifier

LEMMA UpdateBadKeepsSteady ==
    ASSUME QueueInv, SteadyInv, UpdateBad
    PROVE  SteadyInv'
<1>1. UpdateBadPass /\ UNCHANGED <<batch, badBlocks, m_drainingSet, work>>
  BY DEF UpdateBad, UpdateBadPass, clientVars, threadVars
<1>2. Purged
  BY <1>1, UpdateBadPassKeepsInv
<1>3. Jobs'
  BY <1>1, <1>2, FrameKeepsJobs DEF Purged, SteadyInv
<1>4. Unknowns'
  BY <1>1, UpdateBadKeepsUnknowns DEF SteadyInv
<1> QED BY <1>1, <1>3, <1>4 DEF SteadyInv, BatchDraining

\* drain() takes verified blocks, which no verifier and no waiting block has.
LEMMA SyncDrainKeepsSteady ==
    ASSUME IInv, SteadyInv, SyncDrain
    PROVE  SteadyInv'
<1>1. PICK max \in 1..MaxSync :
         LET n == IF max < Len(m_verified) THEN max ELSE Len(m_verified)
         IN  Drain(n) /\ batch' = SubSeq(m_verified, 1, n)
  BY DEF SyncDrain
<1> DEFINE n == IF max < Len(m_verified) THEN max ELSE Len(m_verified)
           out == SubSeq(m_verified, 1, n)
<1>2. QueueInv /\ m_verified \in Seq(Blocks)
  BY DEF IInv, QueueInv, QueueTypeOK
<1>3. n \in 0..Len(m_verified) /\ Drain(n) /\ batch' = out
  BY <1>1, <1>2, SyncAssumption
<1> HIDE DEF n
<1>4. /\ LockFree /\ m_drainingSet = {} /\ m_drainingSet' = RangeOf(out)
      /\ m_readySet' = m_readySet \ RangeOf(out)
      /\ m_verified' = SubSeq(m_verified, n + 1, Len(m_verified))
      /\ UNCHANGED <<m_unknown, m_knownBad, m_verifying, m_unverified, m_updateBad, work, chain>>
      /\ badBlocks' = badBlocks
  BY <1>3 DEF Drain, threadVars, SyncDrain
<1>5. RangeOf(m_verified) = RangeOf(out) \cup RangeOf(m_verified')
  BY <1>2, <1>3, <1>4, CutProperties
<1> HIDE DEF out
<1>6. RangeOf(out) \subseteq Queued /\ RangeOf(badBlocks) = {}
  BY <1>4, <1>5 DEF Queued, SteadyInv, BatchDraining
<1>7. BatchDraining'
  BY <1>3, <1>4, <1>6 DEF BatchDraining
<1>8. \A v \in Verifiers : work[v] # NoBlock => work[v] \notin RangeOf(out)
  BY <1>5 DEF SteadyInv, Jobs, WorkHeld
<1>9. Jobs'
  BY <1>4, <1>5, <1>8, FrameKeepsJobs DEF SteadyInv
<1>10. UnknownApart'
  BY <1>2, <1>4, <1>6
     DEF SteadyInv, Unknowns, UnknownApart, QueueInv, Pipelined, UnknownNotQueued
<1>11. Waiting'
  <2> SUFFICES ASSUME NEW u \in m_unknown
               PROVE  /\ Parent[u] \notin m_readySet' \cup m_drainingSet'
                      /\ Parent[u] \notin m_knownBad
    BY <1>4 DEF Waiting
  <2> QED BY <1>2, <1>4, <1>6, WaitingWhenFree DEF SteadyInv
<1> QED BY <1>7, <1>9, <1>10, <1>11 DEF SteadyInv, Unknowns

\* A drained block enters the chain or badBlocks: nobody waits for it.
LEMMA SyncImportKeepsSteady ==
    ASSUME IInv, SteadyInv, SyncImport
    PROVE  SteadyInv'
<1>1. batch \in Seq(Blocks) /\ batch # <<>> /\ badBlocks \in Seq(Blocks) /\ batch' = Tail(batch)
  BY DEF IInv, ClientInv, ClientTypeOK, SyncImport
<1> DEFINE b == Head(batch)
<1>2. b \in Blocks /\ b \in RangeOf(batch) /\ RangeOf(batch') \subseteq RangeOf(batch)
  BY <1>1, HeadTailRange
<1>3. /\ UNCHANGED <<m_readySet, m_drainingSet, m_unknown, m_knownBad, m_verified, m_verifying,
                     m_unverified, m_updateBad, work>>
      /\ chain' \subseteq chain \cup {b}
      /\ badBlocks' = badBlocks \/ badBlocks' = Append(badBlocks, b)
  BY DEF SyncImport, setVars, queueVars, threadVars
<1> HIDE DEF b
<1>4. RangeOf(badBlocks') \subseteq RangeOf(badBlocks) \cup {b}
  <2>1. RangeOf(Append(badBlocks, b)) = RangeOf(badBlocks) \cup {b}
    BY <1>1, <1>2, AppendRange
  <2> QED BY <1>3, <2>1
<1>5. b \in m_drainingSet
  BY <1>2 DEF SteadyInv, BatchDraining
<1>6. BatchDraining'
  BY <1>2, <1>3, <1>4, <1>5 DEF SteadyInv, BatchDraining
<1>7. Jobs'
  BY <1>3, FrameKeepsJobs DEF SteadyInv
<1>8. Unknowns'
  BY <1>3, <1>5 DEF SteadyInv, Unknowns, UnknownApart, Waiting
<1> QED BY <1>6, <1>7, <1>8 DEF SteadyInv

\* doneDrain starts a call of updateBad_WITH_LOCK for every rejected block.
LEMMA SyncDoneKeepsSteady ==
    ASSUME IInv, SteadyInv, SyncDone
    PROVE  SteadyInv'
<1>1. /\ LockFree /\ m_drainingSet' = {} /\ m_knownBad' = m_knownBad \cup RangeOf(badBlocks)
      /\ m_updateBad' = badBlocks /\ batch = <<>> /\ batch' = <<>> /\ badBlocks' = <<>>
      /\ UNCHANGED <<m_readySet, m_unknown, m_verified, m_verifying, m_unverified, work, chain>>
  BY DEF SyncDone, DoneDrain, queueVars, threadVars
<1>2. BatchDraining'
  BY <1>1, EmptyQueue DEF BatchDraining
<1>3. Jobs'
  BY <1>1, FrameKeepsJobs DEF SteadyInv
<1>4. UnknownApart'
  BY <1>1 DEF SteadyInv, BatchDraining, Unknowns, UnknownApart
<1>5. Waiting'
  <2> SUFFICES ASSUME NEW u \in m_unknown
               PROVE  /\ Parent[u] \notin m_readySet
                      /\ Parent[u] \in m_knownBad' => Parent[u] \in RangeOf(badBlocks)
    BY <1>1 DEF Waiting
  <2> QED BY <1>1, WaitingWhenFree DEF IInv, SteadyInv
<1> QED BY <1>2, <1>3, <1>4, <1>5 DEF SteadyInv, Unknowns

LEMMA FrameKeepsSteady ==
    ASSUME SteadyInv,
           UNCHANGED <<m_readySet, m_drainingSet, m_unknown, m_knownBad, m_verified, m_verifying,
                       m_unverified, m_updateBad, work, chain, batch, badBlocks>>
    PROVE  SteadyInv'
<1>1. Jobs'
  BY FrameKeepsJobs DEF SteadyInv
<1>2. BatchDraining' /\ Unknowns'
  BY DEF SteadyInv, BatchDraining, Unknowns, UnknownApart, Waiting
<1> QED BY <1>1, <1>2 DEF SteadyInv

LEMMA StepKeepsSteady ==
    IInv /\ SteadyInv /\ [SteadyNext]_vars => SteadyInv'
<1> SUFFICES ASSUME IInv, SteadyInv, [SteadyNext]_vars PROVE SteadyInv'
  OBVIOUS
<1>0. QueueInv /\ now \in Nat /\ todo \in Seq(Blocks)
  BY DEF IInv, ClientInv, ClientTypeOK
<1>1. ASSUME NEW b \in Blocks, Receive(b) PROVE SteadyInv'
  BY <1>0, <1>1, ImportKeepsSteady DEF Receive, clientVars
<1>2. ASSUME NEW v \in Verifiers, Verifier(v) PROVE SteadyInv'
  BY <1>0, <1>2, VerifierKeepsSteady
<1>3. ASSUME NEW v \in Verifiers, OnReady(v) PROVE SteadyInv'
  BY <1>3, FrameKeepsSteady DEF OnReady, setVars, queueVars
<1>4. CASE UpdateBad
  BY <1>0, <1>4, UpdateBadKeepsSteady
<1>5. CASE SyncDrain
  BY <1>5, SyncDrainKeepsSteady
<1>6. CASE SyncImport
  BY <1>6, SyncImportKeepsSteady
<1>7. CASE SyncDone
  BY <1>7, SyncDoneKeepsSteady
<1>8. CASE StartSync \/ DoneDrainReturn \/ SyncAssign \/ Clock \/ UNCHANGED vars
  BY <1>8, FrameKeepsSteady
     DEF StartSync, DoneDrainReturn, SyncAssign, Clock, vars, clientVars, queueStateVars,
         setVars, queueVars, threadVars
<1>9. CASE Tick
  BY <1>9, FrameKeepsSteady DEF Tick, TakePastFuture, queueVars, threadVars
<1>10. CASE TickImport
  <2>1. Head(todo) \in Blocks /\ UNCHANGED <<batch, badBlocks>>
    BY <1>0, <1>10, HeadTailRange DEF TickImport
  <2>2. CASE Import(Head(todo), FALSE, now)
    BY <1>0, <2>1, <2>2, ImportKeepsSteady
  <2>3. CASE UNCHANGED queueStateVars
    BY <2>1, <2>3, FrameKeepsSteady DEF queueStateVars, setVars, queueVars, threadVars
  <2> QED BY <1>10, <2>2, <2>3 DEF TickImport
<1> QED BY <1>1, <1>2, <1>3, <1>4, <1>5, <1>6, <1>7, <1>8, <1>9, <1>10 DEF SteadyNext, ClientThread

-----------------------------------------------------------------------------
(***************************************************************************)
(* As long as nothing is known to be bad, the ready set is what is queued, *)
(* restarts and forced retries included, and a verifier that returns its   *)
(* job leaves the order of the pipeline as it was.                         *)
(***************************************************************************)
LEMMA BlocksAssoc ==
    \A s, t, u \in Seq(Blocks) : (s \o t) \o u = s \o (t \o u)
BY ConcatAssoc

LEMMA PipelineRange ==
    ASSUME NEW a \in Seq(Blocks), NEW q \in Seq(VerifyingEntry), NEW u \in Seq(Blocks)
    PROVE  /\ HashesOf(q) \in Seq(Blocks) /\ a \o HashesOf(q) \in Seq(Blocks)
           /\ a \o HashesOf(q) \o u \in Seq(Blocks)
           /\ RangeOf(a \o HashesOf(q) \o u) = RangeOf(a) \cup RangeOf(HashesOf(q)) \cup RangeOf(u)
<1>1. HashesOf(q) \in Seq(Blocks)
  BY HashesOfProperties
<1> DEFINE h == HashesOf(q)
<1> HIDE DEF h
<1>2. a \o h \in Seq(Blocks) /\ RangeOf(a \o h) = RangeOf(a) \cup RangeOf(h)
  BY <1>1, ConcatRange DEF h
<1>3. a \o h \o u \in Seq(Blocks) /\ RangeOf(a \o h \o u) = RangeOf(a \o h) \cup RangeOf(u)
  <2> DEFINE ah == a \o h
  <2>1. ah \in Seq(Blocks)
    BY <1>2
  <2> HIDE DEF ah
  <2>2. ah \o u \in Seq(Blocks) /\ RangeOf(ah \o u) = RangeOf(ah) \cup RangeOf(u)
    BY <2>1, ConcatRange
  <2> QED BY <2>2 DEF ah
<1> QED BY <1>1, <1>2, <1>3 DEF h

LEMMA QueuedInPipeline ==
    ASSUME QueueTypeOK
    PROVE  Pipeline \in Seq(Blocks) /\ RangeOf(Pipeline) = Queued
BY PipelineRange DEF QueueTypeOK, Pipeline, Queued, VerifyingHashes

\* The same of the next state.
LEMMA NextQueuedInPipeline ==
    ASSUME QueueTypeOK'
    PROVE  Pipeline' \in Seq(Blocks) /\ RangeOf(Pipeline') = Queued'
BY PipelineRange DEF QueueTypeOK, Pipeline, Queued, VerifyingHashes

\* With nothing bad drainVerified_WITH_BOTH_LOCKS moves the finished blocks
\* from one queue to the other, all of them and in their order.
LEMMA DrainNothingBad ==
    ASSUME NEW q \in Seq(VerifyingEntry), NEW ready, m_verified \in Seq(Blocks),
           DrainVerified(q, {}, ready)
    PROVE  /\ m_readySet' = ready /\ m_knownBad' = {}
           /\ m_verified' \o HashesOf(m_verifying') = m_verified \o HashesOf(q)
<1> DEFINE n == FinishedPrefix(q)
           B == DrainBad(q, n, {})
           front == SubSeq(q, 1, n)
           back == SubSeq(q, n + 1, Len(q))
<1>1. n \in 0..Len(q)
  BY FinishedPrefixType
<1>2. B = {}
  <2>1. \A h \in B : \A S \in SUBSET {q[i].hash : i \in 1..n} :
           (\A i \in 1..n : Parent[q[i].hash] \in {} \cup (S \cap {q[j].hash : j \in 1..(i - 1)})
               => q[i].hash \in S)
           => h \in S
    BY DEF DrainBad
  <2>2. \A h \in B : h \in {}
    BY <2>1
  <2> QED BY <2>2
<1>3. /\ m_verifying' = back /\ m_readySet' = ready \ B /\ m_knownBad' = {} \cup B
      /\ m_verified' = m_verified \o HashesOf(KeptAt(front, DOMAIN front \ {i \in 1..n : q[i].hash \in B}))
  BY DEF DrainVerified, RemoveIf
<1> HIDE DEF n, B
<1>4. DOMAIN front \ {i \in 1..n : q[i].hash \in B} = DOMAIN front
  BY <1>2
<1>5. front \in Seq(VerifyingEntry)
  BY <1>1, CutProperties
<1> DEFINE h == HashesOf(q)
<1>6. h \in Seq(Blocks) /\ Len(h) = Len(q)
  BY HashesOfProperties
<1>7. HashesOf(front) = SubSeq(h, 1, n) /\ HashesOf(back) = SubSeq(h, n + 1, Len(h))
  BY <1>1, HashesCut
<1> HIDE DEF front, back, h
<1>8. m_verified' = m_verified \o HashesOf(front)
  BY <1>3, <1>4, <1>5, KeptAll
<1>9. /\ SubSeq(h, 1, n) \in Seq(Blocks) /\ SubSeq(h, n + 1, Len(h)) \in Seq(Blocks)
      /\ h = SubSeq(h, 1, n) \o SubSeq(h, n + 1, Len(h))
  BY <1>1, <1>6, CutProperties, CutConcat
<1>10. (m_verified \o HashesOf(front)) \o HashesOf(back)
          = m_verified \o (HashesOf(front) \o HashesOf(back))
  <2> DEFINE hf == HashesOf(front)
             hb == HashesOf(back)
  <2>1. hf \in Seq(Blocks) /\ hb \in Seq(Blocks)
    BY <1>7, <1>9
  <2> HIDE DEF hf, hb
  <2>2. (m_verified \o hf) \o hb = m_verified \o (hf \o hb)
    BY <2>1, BlocksAssoc
  <2> QED BY <2>2 DEF hf, hb
<1> QED BY <1>2, <1>3, <1>7, <1>8, <1>9, <1>10 DEF h

LEMMA ReturnNothingBad ==
    ASSUME QueueInv, NEW v \in Verifiers, m_knownBad' = {},
           VerifyFailed(v) \/ VerifiedInTurn(v) \/ VerifiedOutOfTurn(v)
    PROVE  m_knownBad = {} /\ m_readySet' = m_readySet /\ Pipeline' = Pipeline
<1>1. CASE VerifyFailed(v)
  BY <1>1 DEF VerifyFailed, DrainVerified
<1>2. CASE VerifiedInTurn(v)
  <2>1. PICK q \in Seq(VerifyingEntry) :
           HashesOf(q) = HashesOf(m_verifying) /\ DrainVerified(q, m_knownBad, m_readySet)
    BY <1>2, VerifiedInTurnKeepsInv
  <2>2. m_knownBad = {}
    BY <2>1 DEF DrainVerified
  <2>3. DrainVerified(q, {}, m_readySet) /\ m_verified \in Seq(Blocks)
    BY <2>1, <2>2 DEF QueueInv, QueueTypeOK
  <2>4. m_readySet' = m_readySet
        /\ m_verified' \o HashesOf(m_verifying') = m_verified \o HashesOf(q)
    BY <2>3, DrainNothingBad
  <2>5. m_unverified' = m_unverified
    BY <1>2 DEF VerifiedInTurn
  <2> QED BY <2>1, <2>2, <2>4, <2>5 DEF Pipeline
<1>3. CASE VerifiedOutOfTurn(v)
  <2>1. HashesOf(m_verifying') = HashesOf(m_verifying)
    BY <1>3, VerifiedOutOfTurnKeepsInv
  <2> QED BY <1>3, <2>1 DEF VerifiedOutOfTurn, setVars, Pipeline
<1> QED BY <1>1, <1>2, <1>3

\* A call of updateBad_WITH_LOCK has a bad block, and as long as there is none
\* the ready set is what is queued.
ReadyIsQueued ==
    /\ m_knownBad = {} => LockFree
    /\ m_knownBad = {} => m_readySet = Queued

LEMMA ImportKeepsReady ==
    ASSUME QueueInv, ReadyIsQueued, NEW b \in Blocks, NEW isOurs, NEW t \in Nat,
           Import(b, isOurs, t)
    PROVE  ReadyIsQueued'
<1>1. CASE ImportFuture(b, t) \/ ImportUnknownParent(b)
  BY <1>1 DEF ImportFuture, ImportUnknownParent, queueVars, ReadyIsQueued, LockFree, Queued,
              VerifyingHashes
<1>2. CASE ImportBadChain(b)
  BY <1>2 DEF ImportBadChain, ReadyIsQueued
<1>3. CASE ImportReady(b)
  <2>1. Queued' = Queued \cup {b} \cup WaitsFor(m_unknown, b)
    BY <1>3, ImportReadyKeepsInv
  <2> QED BY <1>3, <2>1 DEF ImportReady, ReadyWith, ReadyIsQueued, LockFree
<1> QED BY <1>1, <1>2, <1>3 DEF Import

LEMMA NextKeepsReady ==
    IInv /\ IInv' /\ ReadyIsQueued /\ [Next]_vars => ReadyIsQueued'
<1> SUFFICES ASSUME IInv, IInv', ReadyIsQueued, [Next]_vars PROVE ReadyIsQueued'
  OBVIOUS
<1>0. QueueInv /\ QueueTypeOK' /\ now \in Nat /\ todo \in Seq(Blocks)
  BY DEF IInv, QueueInv, ClientInv, ClientTypeOK
<1>1. ASSUME NEW b \in Blocks, Receive(b) PROVE ReadyIsQueued'
  BY <1>0, <1>1, ImportKeepsReady DEF Receive
<1>2. ASSUME NEW v \in Verifiers, Verifier(v) PROVE ReadyIsQueued'
  <2>1. CASE Take(v)
    BY <1>0, <2>1, TakeKeepsInv DEF Take, setVars, ReadyIsQueued, LockFree
  <2>2. CASE VerifyFailed(v) \/ VerifiedInTurn(v) \/ VerifiedOutOfTurn(v)
    <3> SUFFICES ASSUME m_knownBad' = {} PROVE LockFree' /\ m_readySet' = Queued'
      BY DEF ReadyIsQueued
    <3>1. m_knownBad = {} /\ m_readySet' = m_readySet /\ Pipeline' = Pipeline
      BY <1>0, <2>2, ReturnNothingBad
    <3>2. RangeOf(Pipeline) = Queued /\ RangeOf(Pipeline') = Queued'
      BY <1>0, QueuedInPipeline, NextQueuedInPipeline DEF QueueInv
    <3>3. LockFree'
      BY <2>2 DEF VerifyFailed, VerifiedInTurn, VerifiedOutOfTurn, LockFree
    <3> QED BY <3>1, <3>2, <3>3 DEF ReadyIsQueued
  <2> QED BY <1>2, <2>1, <2>2 DEF Verifier
<1>3. CASE UpdateBad
  <2>1. m_updateBad # <<>> /\ m_knownBad \subseteq m_knownBad'
    BY <1>3 DEF UpdateBad, UpdateBadPass
  <2> QED BY <2>1 DEF ReadyIsQueued, LockFree
<1>4. CASE SyncDrain
  <2>1. PICK max \in 1..MaxSync :
           LET n == IF max < Len(m_verified) THEN max ELSE Len(m_verified) IN Drain(n)
    BY <1>4 DEF SyncDrain
  <2> DEFINE n == IF max < Len(m_verified) THEN max ELSE Len(m_verified)
             out == SubSeq(m_verified, 1, n)
  <2>2. n \in 0..Len(m_verified) /\ Drain(n) /\ m_verified \in Seq(Blocks)
    BY <2>1, SyncAssumption DEF IInv, QueueInv, QueueTypeOK
  <2> HIDE DEF n
  <2>3. Queued' \subseteq Queued \ m_drainingSet'
    BY <1>0, <2>2, DrainKeepsInv
  <2>4. /\ m_drainingSet' = RangeOf(out) /\ m_readySet' = m_readySet \ RangeOf(out)
        /\ m_verified' = SubSeq(m_verified, n + 1, Len(m_verified))
        /\ UNCHANGED <<m_verifying, m_unverified, m_knownBad, m_updateBad>>
    BY <2>2 DEF Drain
  <2>5. RangeOf(m_verified) = RangeOf(out) \cup RangeOf(m_verified')
    BY <2>2, <2>4, CutProperties
  <2>6. Queued \subseteq Queued' \cup RangeOf(out)
    BY <2>4, <2>5 DEF Queued, VerifyingHashes
  <2> QED BY <2>3, <2>4, <2>6 DEF ReadyIsQueued, LockFree
<1>5. CASE SyncDone
  <2>1. /\ m_knownBad' = m_knownBad \cup RangeOf(badBlocks) /\ m_updateBad' = badBlocks
        /\ UNCHANGED <<m_readySet, m_verified, m_verifying, m_unverified>>
        /\ badBlocks \in Seq(Blocks)
    BY <1>5 DEF SyncDone, DoneDrain, queueVars, IInv, ClientInv, ClientTypeOK
  <2>2. RangeOf(badBlocks) = {} => badBlocks = <<>>
    BY <2>1, HeadTailRange
  <2>3. Queued' = Queued
    BY <2>1 DEF Queued, VerifyingHashes
  <2> QED BY <2>1, <2>2, <2>3 DEF ReadyIsQueued, LockFree
<1>6. CASE TickImport
  <2>1. Head(todo) \in Blocks
    BY <1>0, <1>6, HeadTailRange DEF TickImport
  <2>2. CASE Import(Head(todo), FALSE, now)
    BY <1>0, <2>1, <2>2, ImportKeepsReady
  <2>3. CASE UNCHANGED queueStateVars
    BY <2>3 DEF queueStateVars, setVars, queueVars, ReadyIsQueued, LockFree, Queued, VerifyingHashes
  <2> QED BY <1>6, <2>2, <2>3 DEF TickImport
<1>7. CASE SyncRestart
  BY <1>7, EmptyQueue
     DEF SyncRestart, Clear, ReadyIsQueued, LockFree, Queued, VerifyingHashes
<1>8. CASE RetryUnknown
  <2>1. RetryAllUnknown /\ Queued' = Queued \cup m_unknown
    BY <1>0, <1>8, RetryKeepsInv DEF RetryUnknown
  <2> QED BY <2>1 DEF RetryAllUnknown, ReadyIsQueued, LockFree
<1>9. ASSUME NEW v \in Verifiers, OnReady(v) PROVE ReadyIsQueued'
  BY <1>9 DEF OnReady, setVars, queueVars, ReadyIsQueued, LockFree, Queued, VerifyingHashes
<1>10. CASE StartSync \/ DoneDrainReturn \/ SyncAssign \/ Clock \/ UNCHANGED vars
  BY <1>10 DEF StartSync, DoneDrainReturn, SyncAssign, Clock, vars, queueStateVars, setVars,
               queueVars, ReadyIsQueued, LockFree, Queued, VerifyingHashes
<1>11. CASE SyncImport \/ Rewind
  BY <1>11 DEF SyncImport, Rewind, setVars, queueVars, ReadyIsQueued, LockFree, Queued, VerifyingHashes
<1>12. CASE Tick
  BY <1>12 DEF Tick, TakePastFuture, queueVars, ReadyIsQueued, LockFree, Queued, VerifyingHashes
<1> QED BY <1>1, <1>2, <1>3, <1>4, <1>5, <1>6, <1>7, <1>8, <1>9, <1>10, <1>11, <1>12
        DEF Next, SteadyNext, ClientThread

\* Three queues without repetitions and without a common block are together
\* as long as the set of what they hold is large.
LEMMA QueuedCardinality ==
    ASSUME QueueInv
    PROVE  Cardinality(Queued) = Len(m_verified) + Len(m_verifying) + Len(m_unverified)
<1> DEFINE a == RangeOf(m_verified)
           h == HashesOf(m_verifying)
           c == RangeOf(m_unverified)
<1>1. /\ m_verified \in Seq(Blocks) /\ m_unverified \in Seq(Blocks)
      /\ m_verifying \in Seq(VerifyingEntry)
      /\ Distinct(m_verified) /\ Distinct(h) /\ Distinct(m_unverified)
      /\ a \cap RangeOf(h) = {} /\ a \cap c = {} /\ RangeOf(h) \cap c = {}
  BY DEF QueueInv, QueueTypeOK, Pipelined, QueuedOnce, VerifyingHashes
<1>2. h \in Seq(Blocks) /\ Len(h) = Len(m_verifying)
  BY <1>1, HashesOfProperties
<1> DEFINE b == RangeOf(h)
<1>3. Queued = a \cup b \cup c
  BY DEF Queued, VerifyingHashes
<1> HIDE DEF h
<1>4. /\ IsFiniteSet(a) /\ Cardinality(a) = Len(m_verified)
      /\ IsFiniteSet(b) /\ Cardinality(b) = Len(h)
      /\ IsFiniteSet(c) /\ Cardinality(c) = Len(m_unverified)
  BY <1>1, <1>2, DistinctCardinality
<1>5. a \cap b = {} /\ (a \cup b) \cap c = {}
  BY <1>1
<1> HIDE DEF a, b, c
<1>6. Cardinality({}) = 0
  BY FS_EmptySet
<1>7. IsFiniteSet(a \cup b) /\ Cardinality(a \cup b) = Cardinality(a) + Cardinality(b)
  <2>1. /\ IsFiniteSet(a \cup b)
        /\ Cardinality(a \cup b) = Cardinality(a) + Cardinality(b) - Cardinality(a \cap b)
    BY <1>4, FS_Union
  <2>2. Cardinality(a) \in Nat /\ Cardinality(b) \in Nat
    BY <1>4, FS_CardinalityType
  <2>3. Cardinality(a \cap b) = 0
    BY <1>5, <1>6
  <2> QED BY <2>1, <2>2, <2>3
<1>8. Cardinality(a \cup b \cup c) = Cardinality(a \cup b) + Cardinality(c)
  <2>1. Cardinality(a \cup b \cup c)
           = Cardinality(a \cup b) + Cardinality(c) - Cardinality((a \cup b) \cap c)
    BY <1>4, <1>7, FS_Union
  <2>2. Cardinality(a \cup b) \in Nat /\ Cardinality(c) \in Nat
    BY <1>4, <1>7, FS_CardinalityType
  <2>3. Cardinality((a \cup b) \cap c) = 0
    BY <1>5, <1>6
  <2> QED BY <2>1, <2>2, <2>3
<1> QED BY <1>2, <1>3, <1>4, <1>7, <1>8

-----------------------------------------------------------------------------
(***************************************************************************)
(* The order of the blocks on their way into the chain: the ones the       *)
(* client is importing, then the pipeline, read as one line.  As long as   *)
(* nothing is rejected or passed over, each stands behind its parent.      *)
(***************************************************************************)
Line == batch \o Pipeline
InLine(s, C) ==
    \A i \in DOMAIN s :
        Parent[s[i]] \in C \cup {Genesis} \/ \E j \in 1..(i - 1) : s[j] = Parent[s[i]]
NothingRejected == m_knownBad = {} /\ badBlocks = <<>>
LineInv ==
    NothingRejected =>
        /\ InLine(Line, chain)
        /\ m_drainingSet \subseteq RangeOf(batch) \cup chain
        /\ \A b \in RangeOf(batch) \cup Queued \cup m_unknown : Timestamp[b] <= now

\* No block ends in BadRoot, and the blocks this node seals, for which
\* import() skips the test of the timestamp, are not ahead of the clock: the
\* cases in which sync passes a block over and goes on with its children.
Dependable == Flaky = {} /\ \A b \in Ours : Timestamp[b] = 0

LEMMA InLineConcat ==
    ASSUME NEW s \in Seq(Blocks), NEW t \in Seq(Blocks), NEW C, InLine(s, C),
           \A i \in DOMAIN t : \/ Parent[t[i]] \in C \cup {Genesis} \cup RangeOf(s)
                               \/ \E j \in 1..(i - 1) : t[j] = Parent[t[i]]
    PROVE  InLine(s \o t, C)
<1> DEFINE st == s \o t
           m == Len(s)
           n == Len(t)
<1>1. /\ m \in Nat /\ n \in Nat /\ DOMAIN s = 1..m /\ DOMAIN t = 1..n /\ DOMAIN st = 1..(m + n)
      /\ \A i \in 1..m : st[i] = s[i]
      /\ \A i \in 1..n : st[m + i] = t[i]
  OBVIOUS
<1> HIDE DEF st, m, n
<1> SUFFICES ASSUME NEW i \in 1..(m + n), Parent[st[i]] \notin C \cup {Genesis}
             PROVE  \E j \in 1..(i - 1) : st[j] = Parent[st[i]]
  BY <1>1 DEF InLine, st
<1>2. CASE i <= m
  <2>1. i \in 1..m /\ st[i] = s[i]
    BY <1>1, <1>2
  <2>2. PICK j \in 1..(i - 1) : s[j] = Parent[s[i]]
    BY <1>1, <2>1 DEF InLine
  <2>3. j \in 1..m
    BY <1>1, <2>1
  <2> QED BY <1>1, <2>1, <2>2, <2>3
<1>3. CASE i > m
  <2> DEFINE k == i - m
  <2>1. k \in 1..n /\ i = m + k
    BY <1>1, <1>3
  <2>2. st[i] = t[k]
    BY <1>1, <2>1
  <2>3. CASE Parent[t[k]] \in RangeOf(s)
    <3>1. PICK j \in 1..m : s[j] = Parent[t[k]]
      BY <1>1, <2>3 DEF RangeOf
    <3>2. j \in 1..(i - 1)
      BY <1>1, <1>3
    <3> QED BY <1>1, <2>2, <3>1, <3>2
  <2>4. CASE \E j \in 1..(k - 1) : t[j] = Parent[t[k]]
    <3>1. PICK j \in 1..(k - 1) : t[j] = Parent[t[k]]
      BY <2>4
    <3>2. j \in 1..n /\ m + j \in 1..(i - 1)
      BY <1>1, <2>1
    <3> QED BY <1>1, <2>2, <3>1, <3>2
  <2> QED BY <1>1, <2>1, <2>2, <2>3, <2>4
<1> QED BY <1>1, <1>2, <1>3

LEMMA InLineTail ==
    ASSUME NEW s \in Seq(Blocks), s # <<>>, NEW C, InLine(s, C)
    PROVE  Parent[Head(s)] \in C \cup {Genesis} /\ InLine(Tail(s), C \cup {Head(s)})
<1> DEFINE n == Len(s)
           t == Tail(s)
<1>1. /\ n \in Nat \ {0} /\ DOMAIN s = 1..n /\ Head(s) = s[1]
      /\ DOMAIN t = 1..(n - 1) /\ \A i \in 1..(n - 1) : t[i] = s[i + 1]
  OBVIOUS
<1>2. Parent[Head(s)] \in C \cup {Genesis}
  BY <1>1 DEF InLine
<1> HIDE DEF t, n
<1>3. ASSUME NEW i \in 1..(n - 1), Parent[t[i]] \notin C \cup {s[1]} \cup {Genesis}
      PROVE  \E j \in 1..(i - 1) : t[j] = Parent[t[i]]
  <2>1. i + 1 \in 1..n /\ t[i] = s[i + 1]
    BY <1>1
  <2>2. PICK j \in 1..((i + 1) - 1) : s[j] = Parent[s[i + 1]]
    BY <1>1, <1>3, <2>1 DEF InLine
  <2>3. j # 1
    BY <1>3, <2>1, <2>2
  <2>4. j - 1 \in 1..(i - 1) /\ j - 1 \in 1..(n - 1) /\ (j - 1) + 1 = j
    BY <1>1, <2>2, <2>3
  <2>5. t[j - 1] = s[j]
    BY <1>1, <2>4
  <2> QED BY <2>1, <2>2, <2>4, <2>5
<1> QED BY <1>1, <1>2, <1>3 DEF InLine, t

\* A released block waited for the imported one or for another released one.
LEMMA WaitsForFollows ==
    ASSUME NEW unknown, NEW h, NEW u \in WaitsFor(unknown, h)
    PROVE  Parent[u] \in {h} \cup WaitsFor(unknown, h)
<1> DEFINE W == WaitsFor(unknown, h)
           S == {x \in W : Parent[x] \in {h} \cup W}
<1>1. W \subseteq unknown
  BY DEF WaitsFor
<1>2. \A x \in unknown : Parent[x] \in {h} \cup W => x \in W
  BY WaitsForClosed
<1>3. S \in SUBSET unknown /\ \A x \in unknown : Parent[x] \in S \cup {h} => x \in S
  <2> HIDE DEF W
  <2> QED BY <1>1, <1>2
<1>4. u \in S
  <2> HIDE DEF S
  <2> QED BY <1>3 DEF WaitsFor
<1> QED BY <1>4

\* noteReady_WITH_LOCK appends a block after its parent.
LEMMA ReleasedInLine ==
    ASSUME NEW unknown \in SUBSET Blocks, NEW b \in Blocks,
           NEW s \in BreadthFirst(WaitsFor(unknown, b)), NEW i \in DOMAIN s
    PROVE  Parent[s[i]] = b \/ \E j \in 1..(i - 1) : s[j] = Parent[s[i]]
<1> DEFINE W == WaitsFor(unknown, b)
<1>1. W \in SUBSET Blocks
  BY DEF WaitsFor
<1>2. s \in Orderings(W) /\ \A k, l \in DOMAIN s : k < l => Number[s[k]] <= Number[s[l]]
  BY DEF BreadthFirst
<1>3. s[i] \in W => Parent[s[i]] \in {b} \cup W
  BY WaitsForFollows
<1> HIDE DEF W
<1>4. s \in Seq(Blocks) /\ RangeOf(s) = W
  BY <1>1, <1>2, UnknownOrdering
<1>5. s[i] \in W /\ s[i] \in Blocks /\ i \in Nat /\ DOMAIN s = 1..Len(s)
  BY <1>1, <1>4 DEF RangeOf
<1> SUFFICES ASSUME Parent[s[i]] # b PROVE \E j \in 1..(i - 1) : s[j] = Parent[s[i]]
  OBVIOUS
<1>6. PICK j \in DOMAIN s : s[j] = Parent[s[i]]
  BY <1>3, <1>4, <1>5 DEF RangeOf
<1>7. s[j] \in Blocks /\ j \in 1..Len(s) /\ Len(s) \in Nat
  BY <1>4
<1>8. /\ Number[s[i]] = Number[s[j]] + 1 /\ Number[s[j]] \in Nat /\ Number[s[i]] \in Nat
  BY <1>5, <1>6, <1>7, HeaderAssumption
<1>9. ~(Number[s[i]] <= Number[s[j]])
  BY <1>8
<1>10. ~(i < j) /\ i # j
  BY <1>2, <1>5, <1>7, <1>8, <1>9
<1>11. j \in 1..(i - 1)
  BY <1>5, <1>7, <1>10
<1> QED BY <1>6, <1>11

\* A step that leaves the line as it is and the rest of what is said of it.
LEMMA FrameKeepsLine ==
    ASSUME LineInv, NothingRejected' => NothingRejected,
           NothingRejected' =>
               /\ Line' = Line /\ chain' = chain
               /\ m_drainingSet' \subseteq RangeOf(batch') \cup m_drainingSet
               /\ RangeOf(batch) \subseteq RangeOf(batch')
               /\ RangeOf(batch') \cup Queued' \cup m_unknown'
                      \subseteq RangeOf(batch) \cup Queued \cup m_unknown
               /\ now' = now
    PROVE  LineInv'
<1> SUFFICES ASSUME NothingRejected'
             PROVE  /\ InLine(Line', chain')
                    /\ m_drainingSet' \subseteq RangeOf(batch') \cup chain'
                    /\ \A b \in RangeOf(batch') \cup Queued' \cup m_unknown' : Timestamp[b] <= now'
  BY DEF LineInv, InLine
<1>1. /\ InLine(Line, chain)
      /\ m_drainingSet \subseteq RangeOf(batch) \cup chain
      /\ \A b \in RangeOf(batch) \cup Queued \cup m_unknown : Timestamp[b] <= now
  BY DEF LineInv
<1> QED BY <1>1

\* import() puts a block behind its parent, and what waited behind the block.
LEMMA ImportKeepsLine ==
    ASSUME IInv, ReadyIsQueued, LineInv, NEW b \in Blocks, NEW isOurs,
           isOurs => Timestamp[b] = 0, Import(b, isOurs, now),
           UNCHANGED <<batch, badBlocks, now>>
    PROVE  LineInv'
<1>0. QueueInv /\ now \in Nat /\ batch \in Seq(Blocks)
  BY DEF IInv, ClientInv, ClientTypeOK
<1>1. CASE ImportFuture(b, now)
  BY <1>1, FrameKeepsLine
     DEF ImportFuture, queueVars, NothingRejected, Line, Pipeline, Queued, VerifyingHashes
<1>2. CASE ImportBadChain(b)
  BY <1>2 DEF ImportBadChain, LineInv, NothingRejected
<1>3. ASSUME ~ImportFuture(b, now) PROVE Timestamp[b] <= now
  BY <1>0, <1>3, HeaderAssumption DEF Import
<1>4. CASE ImportUnknownParent(b) /\ Timestamp[b] <= now
  <2>1. /\ m_unknown' = m_unknown \cup {b} /\ Line' = Line /\ Queued' = Queued
        /\ UNCHANGED <<m_drainingSet, m_knownBad, chain>>
    BY <1>4 DEF ImportUnknownParent, queueVars, Line, Pipeline, Queued, VerifyingHashes
  <2> QED BY <1>4, <2>1 DEF LineInv, NothingRejected, InLine
<1>5. CASE ImportReady(b) /\ Timestamp[b] <= now
  <2> SUFFICES ASSUME NothingRejected'
               PROVE  /\ InLine(Line', chain')
                      /\ m_drainingSet' \subseteq RangeOf(batch') \cup chain'
                      /\ \A x \in RangeOf(batch') \cup Queued' \cup m_unknown' : Timestamp[x] <= now'
    BY DEF LineInv, InLine
  <2>1. /\ UNCHANGED <<m_drainingSet, m_knownBad, m_verified, m_verifying, chain>>
        /\ m_unknown' \subseteq m_unknown /\ ~ParentUnknown(b)
    BY <1>5 DEF ImportReady
  <2>2. /\ NothingRejected /\ InLine(Line, chain)
        /\ m_drainingSet \subseteq RangeOf(batch) \cup chain
        /\ \A x \in RangeOf(batch) \cup Queued \cup m_unknown : Timestamp[x] <= now
    BY <2>1 DEF LineInv, NothingRejected
  <2>3. Queued' = Queued \cup {b} \cup WaitsFor(m_unknown, b) /\ WaitsFor(m_unknown, b) \subseteq m_unknown
    BY <1>0, <1>5, ImportReadyKeepsInv DEF WaitsFor
  <2>4. \A x \in RangeOf(batch') \cup Queued' \cup m_unknown' : Timestamp[x] <= now'
    BY <1>5, <2>1, <2>2, <2>3
  <2>5. PICK s \in BreadthFirst(WaitsFor(m_unknown, b)) : m_unverified' = Append(m_unverified, b) \o s
    BY <1>5 DEF ImportReady
  <2>6. m_unknown \in SUBSET Blocks /\ s \in Seq(Blocks)
    <3>1. m_unknown \in SUBSET Blocks
      BY <1>0 DEF QueueInv, QueueTypeOK
    <3>2. WaitsFor(m_unknown, b) \in SUBSET Blocks
      BY <2>3, <3>1
    <3>3. s \in Orderings(WaitsFor(m_unknown, b))
      BY DEF BreadthFirst
    <3> QED BY <3>1, <3>2, <3>3, UnknownOrdering
  <2>7. \A i \in DOMAIN s : Parent[s[i]] = b \/ \E j \in 1..(i - 1) : s[j] = Parent[s[i]]
    BY <2>6, ReleasedInLine
  <2>8. Pipeline \in Seq(Blocks) /\ RangeOf(Pipeline) = Queued
    BY <1>0, QueuedInPipeline DEF QueueInv
  <2>9. Line \in Seq(Blocks) /\ RangeOf(Line) = RangeOf(batch) \cup Queued
    BY <1>0, <2>8, ConcatRange DEF Line
  <2> DEFINE one == <<b>>
  <2>10. one \in Seq(Blocks) /\ DOMAIN one = 1..1 /\ one[1] = b /\ RangeOf(one) = {b}
    BY DEF RangeOf
  <2>11. Parent[b] \in chain \cup {Genesis} \cup RangeOf(Line)
    <3>1. m_readySet = Queued
      BY <2>2 DEF ReadyIsQueued, NothingRejected
    <3> QED BY <2>1, <2>2, <2>9, <3>1 DEF ParentUnknown, KnownBlock
  <2>12. Line' = (Line \o one) \o s
    <3> DEFINE v == m_verified \o HashesOf(m_verifying)
    <3>1. v \in Seq(Blocks) /\ m_unverified \in Seq(Blocks)
      BY <1>0, PipelineRange DEF QueueInv, QueueTypeOK
    <3>2. Pipeline = v \o m_unverified /\ Pipeline' = v \o (Append(m_unverified, b) \o s)
      BY <2>1, <2>5 DEF Pipeline
    <3>3. Append(m_unverified, b) = m_unverified \o one
      BY <3>1, AppendConcat
    <3> HIDE DEF v, one
    <3>4. m_unverified \o one \in Seq(Blocks) /\ v \o m_unverified \in Seq(Blocks)
      BY <2>10, <3>1, ConcatRange
    <3>5. v \o ((m_unverified \o one) \o s) = ((v \o m_unverified) \o one) \o s
      <4>1. v \o ((m_unverified \o one) \o s) = (v \o (m_unverified \o one)) \o s
        BY <2>6, <3>1, <3>4, BlocksAssoc
      <4>2. v \o (m_unverified \o one) = (v \o m_unverified) \o one
        BY <2>10, <3>1, BlocksAssoc, Zenon
      <4> QED BY <4>1, <4>2
    <3>6. Pipeline' = (Pipeline \o one) \o s
      BY <3>2, <3>3, <3>5
    <3>7. batch \o ((Pipeline \o one) \o s) = ((batch \o Pipeline) \o one) \o s
      <4> DEFINE po == Pipeline \o one
      <4>1. po \in Seq(Blocks)
        BY <2>8, <2>10, ConcatRange
      <4>2. batch \o po = (batch \o Pipeline) \o one
        BY <1>0, <2>8, <2>10, BlocksAssoc, Zenon
      <4> HIDE DEF po
      <4>3. batch \o (po \o s) = (batch \o po) \o s
        BY <1>0, <2>6, <4>1, BlocksAssoc
      <4> QED BY <4>2, <4>3 DEF po
    <3> QED BY <3>6, <3>7 DEF Line
  <2> HIDE DEF one
  <2>13. InLine(Line \o one, chain)
    <3>1. \A i \in DOMAIN one : Parent[one[i]] \in chain \cup {Genesis} \cup RangeOf(Line)
      BY <2>10, <2>11
    <3> QED BY <2>2, <2>9, <2>10, <3>1, InLineConcat
  <2>14. Line \o one \in Seq(Blocks) /\ b \in RangeOf(Line \o one)
    BY <2>9, <2>10, ConcatRange
  <2>15. InLine((Line \o one) \o s, chain)
    <3> DEFINE lo == Line \o one
    <3>1. lo \in Seq(Blocks) /\ InLine(lo, chain) /\ b \in RangeOf(lo)
      BY <2>13, <2>14
    <3> HIDE DEF lo
    <3>2. InLine(lo \o s, chain)
      BY <2>6, <2>7, <3>1, InLineConcat
    <3> QED BY <3>2 DEF lo
  <2> QED BY <2>1, <2>2, <2>4, <2>12, <2>15
<1> QED BY <1>1, <1>2, <1>3, <1>4, <1>5 DEF Import

LEMMA VerifierKeepsLine ==
    ASSUME IInv, QueueTypeOK', LineInv, NEW v \in Verifiers, Verifier(v)
    PROVE  LineInv'
<1>0. QueueInv /\ UNCHANGED <<batch, badBlocks, now>>
  BY DEF IInv, Verifier, clientVars
<1>1. CASE Take(v)
  <2>1. /\ m_unverified \in Seq(Blocks) /\ m_unverified # <<>>
        /\ m_verifying \in Seq(VerifyingEntry) /\ m_verified \in Seq(Blocks)
        /\ m_unverified' = Tail(m_unverified)
        /\ UNCHANGED <<m_verified, m_knownBad, m_drainingSet, m_unknown, chain>>
    BY <1>0, <1>1 DEF QueueInv, QueueTypeOK, Take, setVars
  <2> DEFINE h == HashesOf(m_verifying)
  <2>2. Queued' = Queued /\ HashesOf(m_verifying') = Append(h, Head(m_unverified))
    BY <1>0, <1>1, TakeKeepsInv
  <2>3. h \in Seq(Blocks)
    BY <2>1, HashesOfProperties
  <2> HIDE DEF h
  <2> DEFINE a == Append(h, Head(m_unverified))
             t == Tail(m_unverified)
  <2>4. Head(m_unverified) \in Blocks /\ t \in Seq(Blocks)
    BY <2>1, HeadTailRange
  <2>5. a \in Seq(Blocks) /\ a \o t = h \o m_unverified
    BY <2>1, <2>3, <2>4, MoveAcross, AppendRange
  <2>6. Pipeline' = (m_verified \o a) \o t /\ Pipeline = (m_verified \o h) \o m_unverified
    BY <2>1, <2>2 DEF Pipeline, h
  <2> HIDE DEF a, t
  <2>7. /\ (m_verified \o a) \o t = m_verified \o (a \o t)
        /\ (m_verified \o h) \o m_unverified = m_verified \o (h \o m_unverified)
    <3>1. (m_verified \o a) \o t = m_verified \o (a \o t)
      BY <2>1, <2>4, <2>5, BlocksAssoc, Zenon
    <3>2. (m_verified \o h) \o m_unverified = m_verified \o (h \o m_unverified)
      BY <2>1, <2>3, BlocksAssoc, Zenon
    <3> QED BY <3>1, <3>2
  <2>8. Line' = Line
    BY <1>0, <2>5, <2>6, <2>7 DEF Line
  <2> QED BY <1>0, <2>1, <2>2, <2>8, FrameKeepsLine DEF NothingRejected
<1>2. CASE VerifyFailed(v) \/ VerifiedInTurn(v) \/ VerifiedOutOfTurn(v)
  <2>1. UNCHANGED <<m_drainingSet, m_unknown, chain>>
    BY <1>2 DEF VerifyFailed, VerifiedInTurn, VerifiedOutOfTurn, setVars
  <2>2. NothingRejected' => m_knownBad = {} /\ Pipeline' = Pipeline
    BY <1>0, <1>2, ReturnNothingBad DEF NothingRejected
  <2>3. RangeOf(Pipeline) = Queued /\ RangeOf(Pipeline') = Queued'
    BY <1>0, QueuedInPipeline, NextQueuedInPipeline DEF QueueInv
  <2>4. NothingRejected' => NothingRejected /\ Line' = Line /\ Queued' = Queued
    BY <1>0, <2>2, <2>3 DEF NothingRejected, Line
  <2> QED BY <1>0, <2>1, <2>4, FrameKeepsLine
<1> QED BY <1>1, <1>2 DEF Verifier

\* drain() takes the front of the line.
LEMMA SyncDrainKeepsLine ==
    ASSUME IInv, SteadyInv, LineInv, SyncDrain
    PROVE  LineInv'
<1>1. PICK max \in 1..MaxSync :
         LET n == IF max < Len(m_verified) THEN max ELSE Len(m_verified)
         IN  Drain(n) /\ batch' = SubSeq(m_verified, 1, n)
  BY DEF SyncDrain
<1> DEFINE n == IF max < Len(m_verified) THEN max ELSE Len(m_verified)
           out == SubSeq(m_verified, 1, n)
           rest == SubSeq(m_verified, n + 1, Len(m_verified))
           h == HashesOf(m_verifying)
<1>2. /\ QueueInv /\ m_verified \in Seq(Blocks) /\ m_verifying \in Seq(VerifyingEntry)
      /\ m_unverified \in Seq(Blocks) /\ batch \in Seq(Blocks)
  BY DEF IInv, QueueInv, QueueTypeOK, ClientInv, ClientTypeOK
<1>3. n \in 0..Len(m_verified) /\ Drain(n) /\ batch' = out
  BY <1>1, <1>2, SyncAssumption
<1> HIDE DEF n
<1>4. /\ m_drainingSet = {} /\ m_drainingSet' = RangeOf(out) /\ m_verified' = rest
      /\ UNCHANGED <<m_unknown, m_knownBad, m_verifying, m_unverified, chain, badBlocks, now>>
  BY <1>3 DEF Drain, SyncDrain
<1>5. out \in Seq(Blocks) /\ rest \in Seq(Blocks) /\ m_verified = out \o rest
  BY <1>2, <1>3, CutProperties, CutConcat
<1>6. Queued' \subseteq Queued /\ RangeOf(out) \subseteq Queued
  BY <1>2, <1>3, <1>4, DrainKeepsInv
<1>7. batch = <<>> /\ RangeOf(batch) = {}
  <2>1. RangeOf(batch) = {}
    BY <1>4 DEF SteadyInv, BatchDraining
  <2> QED BY <1>2, <2>1, EmptyRange
<1>8. h \in Seq(Blocks)
  BY <1>2, HashesOfProperties
<1> HIDE DEF out, rest, h
<1>9. Pipeline' = (rest \o h) \o m_unverified /\ Pipeline = ((out \o rest) \o h) \o m_unverified
  BY <1>4, <1>5 DEF Pipeline, h
<1>10. out \o ((rest \o h) \o m_unverified) = ((out \o rest) \o h) \o m_unverified
  <2> DEFINE r == rest \o h
  <2>1. r \in Seq(Blocks) /\ out \o r = (out \o rest) \o h
    BY <1>5, <1>8, ConcatRange, BlocksAssoc
  <2> HIDE DEF r
  <2>2. out \in Seq(Blocks) /\ r \in Seq(Blocks) /\ m_unverified \in Seq(Blocks)
    BY <1>2, <1>5, <2>1
  <2>3. out \o (r \o m_unverified) = (out \o r) \o m_unverified
    BY <2>2, BlocksAssoc, Zenon
  <2> QED BY <2>1, <2>3 DEF r
<1>11. Line' = Line
  <2>1. Pipeline \in Seq(Blocks)
    BY <1>2, QueuedInPipeline DEF QueueInv
  <2>2. <<>> \o Pipeline = Pipeline
    BY <2>1, EmptyConcat
  <2>3. Line' = out \o Pipeline' /\ Line = <<>> \o Pipeline
    BY <1>3, <1>7 DEF Line
  <2> QED BY <1>9, <1>10, <2>2, <2>3
<1>12. /\ RangeOf(batch') = RangeOf(out) /\ RangeOf(batch) \subseteq RangeOf(batch')
       /\ RangeOf(batch') \cup Queued' \cup m_unknown' \subseteq RangeOf(batch) \cup Queued \cup m_unknown
  BY <1>3, <1>4, <1>6, <1>7
<1>13. NothingRejected' => NothingRejected
  BY <1>4 DEF NothingRejected
<1> QED BY <1>4, <1>11, <1>12, <1>13, FrameKeepsLine

\* With nothing rejected so far, the next drained block has its parent in the
\* chain, and its time has come.
LEMMA NextInLine ==
    ASSUME IInv, LineInv, NothingRejected, SyncImport
    PROVE  /\ Stored(Parent[Head(batch)]) /\ Head(batch) \in Blocks
           /\ Timestamp[Head(batch)] <= now
           /\ Head(batch) = Head(Line) /\ Line \in Seq(Blocks) /\ Line # <<>>
           /\ InLine(Tail(batch) \o Pipeline, chain \cup {Head(batch)})
<1>1. QueueInv /\ batch \in Seq(Blocks) /\ batch # <<>>
  BY DEF IInv, ClientInv, ClientTypeOK, SyncImport
<1>2. Pipeline \in Seq(Blocks)
  BY <1>1, QueuedInPipeline DEF QueueInv
<1>3. /\ Line # <<>> /\ Head(Line) = Head(batch) /\ Tail(Line) = Tail(batch) \o Pipeline
      /\ Line \in Seq(Blocks)
  BY <1>1, <1>2, HeadTailConcat, ConcatRange DEF Line
<1>4. Head(batch) \in Blocks /\ Head(batch) \in RangeOf(batch)
  BY <1>1, HeadTailRange
<1>5. /\ InLine(Line, chain)
      /\ \A b \in RangeOf(batch) \cup Queued \cup m_unknown : Timestamp[b] <= now
  BY DEF LineInv
<1>6. /\ Parent[Head(Line)] \in chain \cup {Genesis}
      /\ InLine(Tail(Line), chain \cup {Head(Line)})
  BY <1>3, <1>5, InLineTail
<1> QED BY <1>3, <1>4, <1>5, <1>6 DEF Stored

LEMMA SyncImportKeepsLine ==
    ASSUME Dependable, IInv, LineInv, SyncImport
    PROVE  LineInv'
<1> SUFFICES ASSUME NothingRejected'
             PROVE  /\ InLine(Line', chain')
                    /\ m_drainingSet' \subseteq RangeOf(batch') \cup chain'
                    /\ \A b \in RangeOf(batch') \cup Queued' \cup m_unknown' : Timestamp[b] <= now'
  BY DEF LineInv, InLine
<1> DEFINE b == Head(batch)
<1>1. /\ UNCHANGED <<m_readySet, m_drainingSet, m_unknown, m_knownBad, m_verified, m_verifying,
                     m_unverified, now>>
      /\ batch' = Tail(batch) /\ batch \in Seq(Blocks) /\ batch # <<>> /\ badBlocks \in Seq(Blocks)
  BY DEF SyncImport, setVars, queueVars, IInv, ClientInv, ClientTypeOK
<1>2. NothingRejected /\ badBlocks' # Append(badBlocks, b)
  <2>1. badBlocks' = badBlocks \/ badBlocks' = Append(badBlocks, b)
    BY DEF SyncImport
  <2>2. b \in Blocks
    BY <1>1, HeadTailRange
  <2>3. Append(badBlocks, b) # <<>>
    BY <1>1, <2>2
  <2> QED BY <1>1, <2>1, <2>3 DEF NothingRejected
<1>3. /\ Stored(Parent[b]) /\ b \in Blocks /\ Timestamp[b] <= now
      /\ InLine(Tail(batch) \o Pipeline, chain \cup {b})
  BY <1>2, NextInLine
<1>4. chain' = chain \cup {b}
  <2>1. now \in Nat /\ Timestamp[b] \in Nat
    BY <1>3, HeaderAssumption DEF IInv, ClientInv, ClientTypeOK
  <2>2. ~(Timestamp[b] > now)
    BY <1>3, <2>1
  <2>3. PassedOver(b) => b \in chain
    BY <1>3, <2>2, BlocksAssumption DEF PassedOver, KnownBlock
  <2>4. b \notin Flaky
    BY DEF Dependable
  <2>5. \/ PassedOver(b) /\ chain' = chain
        \/ badBlocks' = Append(badBlocks, b)
        \/ chain' = chain \cup {b}
    BY <2>4 DEF SyncImport
  <2> QED BY <1>2, <2>3, <2>5
<1>5. RangeOf(batch) = {b} \cup RangeOf(batch')
  BY <1>1, HeadTailRange
<1> HIDE DEF b
<1>6. Queued' = Queued /\ Pipeline' = Pipeline
  BY <1>1 DEF Queued, VerifyingHashes, Pipeline
<1>7. Line' = Tail(batch) \o Pipeline
  BY <1>1, <1>6 DEF Line
<1>8. /\ m_drainingSet \subseteq RangeOf(batch) \cup chain
      /\ \A x \in RangeOf(batch) \cup Queued \cup m_unknown : Timestamp[x] <= now
  BY <1>2 DEF LineInv
<1>9. InLine(Line', chain')
  BY <1>3, <1>4, <1>7
<1>10. m_drainingSet' \subseteq RangeOf(batch') \cup chain'
  BY <1>1, <1>4, <1>5, <1>8
<1> QED BY <1>1, <1>5, <1>6, <1>8, <1>9, <1>10

LEMMA StepKeepsLine ==
    ASSUME Dependable
    PROVE  IInv /\ IInv' /\ SteadyInv /\ ReadyIsQueued /\ LineInv /\ [SteadyNext]_vars => LineInv'
<1> SUFFICES ASSUME IInv, IInv', SteadyInv, ReadyIsQueued, LineInv, [SteadyNext]_vars
             PROVE  LineInv'
  OBVIOUS
<1>0. QueueInv /\ QueueTypeOK' /\ now \in Nat /\ todo \in Seq(Blocks) /\ badBlocks \in Seq(Blocks)
  BY DEF IInv, QueueInv, ClientInv, ClientTypeOK
<1>1. ASSUME NEW b \in Blocks, Receive(b) PROVE LineInv'
  <2>1. (b \in Ours) => Timestamp[b] = 0
    BY DEF Dependable
  <2> QED BY <1>0, <1>1, <2>1, ImportKeepsLine DEF Receive, clientVars
<1>2. ASSUME NEW v \in Verifiers, Verifier(v) PROVE LineInv'
  BY <1>0, <1>2, VerifierKeepsLine
<1>3. ASSUME NEW v \in Verifiers, OnReady(v) PROVE LineInv'
  BY <1>3, FrameKeepsLine
     DEF OnReady, setVars, queueVars, NothingRejected, Line, Pipeline, Queued, VerifyingHashes
<1>4. CASE UpdateBad
  <2>1. m_updateBad # <<>> /\ m_knownBad \subseteq m_knownBad'
    BY <1>4 DEF UpdateBad, UpdateBadPass
  <2> QED BY <2>1 DEF ReadyIsQueued, LockFree, LineInv, NothingRejected
<1>5. CASE SyncDrain
  BY <1>5, SyncDrainKeepsLine
<1>6. CASE SyncImport
  BY <1>6, SyncImportKeepsLine
<1>7. CASE SyncDone
  <2>1. /\ m_drainingSet' = {} /\ m_knownBad' = m_knownBad \cup RangeOf(badBlocks)
        /\ UNCHANGED <<m_unknown, m_verified, m_verifying, m_unverified, chain, batch, now>>
    BY <1>7 DEF SyncDone, DoneDrain, queueVars
  <2>2. NothingRejected' => NothingRejected
    BY <1>0, <2>1, HeadTailRange DEF NothingRejected
  <2>3. Line' = Line /\ Queued' = Queued
    BY <2>1 DEF Line, Pipeline, Queued, VerifyingHashes
  <2> QED BY <2>1, <2>2, <2>3, FrameKeepsLine
<1>8. CASE StartSync \/ DoneDrainReturn \/ SyncAssign \/ UNCHANGED vars
  <2>1. UNCHANGED <<queueStateVars, batch, badBlocks, now>>
    BY <1>8 DEF StartSync, DoneDrainReturn, SyncAssign, vars, clientVars
  <2> QED BY <2>1, FrameKeepsLine
          DEF queueStateVars, setVars, queueVars, NothingRejected, Line, Pipeline, Queued,
              VerifyingHashes
<1>9. CASE Clock
  <2>1. /\ UNCHANGED <<m_drainingSet, m_unknown, m_knownBad, m_verified, m_verifying, m_unverified,
                       chain, batch, badBlocks>>
        /\ now' = now + 1
    BY <1>9 DEF Clock, clientVars, queueStateVars, setVars, queueVars
  <2>2. Line' = Line /\ Queued' = Queued
    BY <2>1 DEF Line, Pipeline, Queued, VerifyingHashes
  <2>3. ASSUME NEW b \in RangeOf(batch) \cup Queued \cup m_unknown, Timestamp[b] <= now
        PROVE  Timestamp[b] <= now'
    <3>1. b \in Blocks
      <4>1. RangeOf(batch) \subseteq Blocks
        BY DEF IInv, ClientInv, ClientTypeOK, RangeOf
      <4>2. Queued \subseteq Blocks /\ m_unknown \subseteq Blocks
        BY <1>0, QueuedBlocks DEF QueueInv, QueueTypeOK
      <4> QED BY <4>1, <4>2
    <3>2. Timestamp[b] \in Nat
      BY <3>1, HeaderAssumption
    <3> QED BY <1>0, <2>1, <2>3, <3>2
  <2> QED BY <2>1, <2>2, <2>3 DEF LineInv, NothingRejected, InLine
<1>10. CASE Tick
  BY <1>10, FrameKeepsLine
     DEF Tick, TakePastFuture, queueVars, NothingRejected, Line, Pipeline, Queued, VerifyingHashes
<1>11. CASE TickImport
  <2>1. Head(todo) \in Blocks /\ UNCHANGED <<batch, badBlocks, now>>
    BY <1>0, <1>11, HeadTailRange DEF TickImport
  <2>2. CASE Import(Head(todo), FALSE, now)
    BY <1>0, <2>1, <2>2, ImportKeepsLine
  <2>3. CASE UNCHANGED queueStateVars
    BY <2>1, <2>3, FrameKeepsLine
       DEF queueStateVars, setVars, queueVars, NothingRejected, Line, Pipeline, Queued,
           VerifyingHashes
  <2> QED BY <1>11, <2>2, <2>3 DEF TickImport
<1> QED BY <1>1, <1>2, <1>3, <1>4, <1>5, <1>6, <1>7, <1>8, <1>9, <1>10, <1>11
        DEF SteadyNext, ClientThread

\* The line read without the blocks the client is importing.
LEMMA LineGivesOrder ==
    ASSUME IInv, InLine(Line, chain)
    PROVE  InOrder
<1> DEFINE p == Pipeline
           m == Len(batch)
           n == Len(p)
<1>1. batch \in Seq(Blocks) /\ p \in Seq(Blocks)
  BY QueuedInPipeline DEF IInv, QueueInv, ClientInv, ClientTypeOK
<1>2. Line = batch \o p
  BY DEF Line
<1> HIDE DEF p
<1>3. /\ m \in Nat /\ n \in Nat /\ DOMAIN batch = 1..m /\ DOMAIN p = 1..n /\ DOMAIN Line = 1..(m + n)
      /\ \A i \in 1..m : Line[i] = batch[i]
      /\ \A i \in 1..n : Line[m + i] = p[i]
  BY <1>1, <1>2
<1> HIDE DEF m, n
<1>4. ASSUME NEW i \in 1..n
      PROVE  \/ Stored(Parent[p[i]]) \/ Parent[p[i]] \in RangeOf(batch)
             \/ \E j \in 1..(i - 1) : p[j] = Parent[p[i]]
  <2>1. m + i \in 1..(m + n) /\ Line[m + i] = p[i]
    BY <1>3
  <2>2. CASE Parent[p[i]] \in chain \cup {Genesis}
    BY <2>2 DEF Stored
  <2>3. CASE \E j \in 1..((m + i) - 1) : Line[j] = Parent[p[i]]
    <3>1. PICK j \in 1..((m + i) - 1) : Line[j] = Parent[p[i]]
      BY <2>3
    <3>2. CASE j <= m
      <4>1. j \in 1..m /\ batch[j] = Parent[p[i]]
        BY <1>3, <3>1, <3>2
      <4> QED BY <1>3, <4>1 DEF RangeOf
    <3>3. CASE j > m
      <4> DEFINE k == j - m
      <4>1. k \in 1..(i - 1) /\ k \in 1..n /\ m + k = j
        BY <1>3, <3>3
      <4> HIDE DEF k
      <4>2. p[k] = Parent[p[i]]
        BY <1>3, <3>1, <4>1
      <4> QED BY <4>1, <4>2
    <3> QED BY <1>3, <3>2, <3>3
  <2> QED BY <1>3, <2>1, <2>2, <2>3 DEF InLine
<1> QED BY <1>3, <1>4 DEF InOrder, p

\* With valid blocks only, nothing is ever rejected.
AllValid == Dependable /\ SealValid = Blocks /\ Enactable = Blocks

LEMMA StepRejectsNothing ==
    ASSUME AllValid
    PROVE  /\ IInv /\ ReadyIsQueued /\ LineInv /\ NothingRejected /\ [SteadyNext]_vars
           => NothingRejected'
<1> SUFFICES ASSUME IInv, ReadyIsQueued, LineInv, NothingRejected, [SteadyNext]_vars
             PROVE  m_knownBad' = {} /\ badBlocks' = <<>>
  BY DEF NothingRejected
<1>0. /\ QueueInv /\ m_knownBad = {} /\ badBlocks = <<>> /\ LockFree
      /\ m_verified \in Seq(Blocks)
  BY DEF IInv, QueueInv, QueueTypeOK, NothingRejected, ReadyIsQueued
<1>1. ASSUME NEW b, NEW isOurs, NEW t, Import(b, isOurs, t) PROVE m_knownBad' = {}
  BY <1>0, <1>1 DEF Import, ImportFuture, ImportBadChain, ImportUnknownParent, ImportReady
<1>2. ASSUME NEW b \in Blocks, Receive(b) PROVE m_knownBad' = {} /\ badBlocks' = <<>>
  BY <1>0, <1>1, <1>2 DEF Receive, clientVars
<1>3. ASSUME NEW v \in Verifiers, Verifier(v) PROVE m_knownBad' = {} /\ badBlocks' = <<>>
  <2>1. badBlocks' = <<>>
    BY <1>0, <1>3 DEF Verifier, clientVars
  <2>2. CASE Take(v) \/ VerifiedOutOfTurn(v)
    BY <1>0, <2>1, <2>2 DEF Take, VerifiedOutOfTurn, setVars
  <2>3. CASE VerifyFailed(v)
    BY <2>3 DEF VerifyFailed, AllValid
  <2>4. CASE VerifiedInTurn(v)
    <3>1. PICK q \in Seq(VerifyingEntry) : DrainVerified(q, {}, m_readySet)
      BY <1>0, <2>4, VerifiedInTurnKeepsInv
    <3> QED BY <1>0, <2>1, <3>1, DrainNothingBad
  <2> QED BY <1>3, <2>2, <2>3, <2>4 DEF Verifier
<1>4. CASE UpdateBad
  BY <1>0, <1>4 DEF UpdateBad, UpdateBadPass, LockFree
<1>5. CASE SyncImport
  <2> DEFINE b == Head(batch)
  <2>1. Stored(Parent[b]) /\ b \in Blocks
    BY <1>5, NextInLine
  <2>2. ~Rejected(b)
    BY <2>1 DEF Rejected, AllValid
  <2> QED BY <1>0, <1>5, <2>2 DEF SyncImport, setVars
<1>6. CASE SyncDone
  BY <1>0, <1>6, EmptyQueue DEF SyncDone, DoneDrain
<1>7. CASE SyncDrain
  BY <1>0, <1>7 DEF SyncDrain, Drain
<1>8. CASE TickImport
  BY <1>0, <1>1, <1>8 DEF TickImport, queueStateVars, setVars
<1>9. CASE Tick
  BY <1>0, <1>9 DEF Tick, TakePastFuture
<1>10. ASSUME NEW v \in Verifiers, OnReady(v) PROVE m_knownBad' = {} /\ badBlocks' = <<>>
  BY <1>0, <1>10 DEF OnReady, setVars
<1>11. CASE StartSync \/ DoneDrainReturn \/ SyncAssign \/ Clock \/ UNCHANGED vars
  BY <1>0, <1>11 DEF StartSync, DoneDrainReturn, SyncAssign, Clock, vars, clientVars,
                     queueStateVars, setVars
<1> QED BY <1>2, <1>3, <1>4, <1>5, <1>6, <1>7, <1>8, <1>9, <1>10, <1>11 DEF SteadyNext, ClientThread

LEMMA SteadyIsNext == [SteadyNext]_vars => [Next]_vars
BY DEF Next

LEMMA InitSteady == Init => SteadyInv /\ ReadyIsQueued /\ LineInv /\ NothingRejected
<1> SUFFICES ASSUME Init PROVE SteadyInv /\ ReadyIsQueued /\ LineInv /\ NothingRejected
  OBVIOUS
<1>1. Jobs
  BY DEF Init, QueueInit, Jobs, WorkHeld, WorkDistinct
<1>2. BatchDraining /\ Unknowns
  BY EmptyQueue DEF Init, QueueInit, BatchDraining, Unknowns, UnknownApart, Waiting
<1>3. ReadyIsQueued
  BY EmptyQueue DEF Init, QueueInit, ReadyIsQueued, LockFree, Queued, VerifyingHashes
<1>4. LineInv
  <2>1. IInv
    BY InitInv
  <2>2. Pipeline \in Seq(Blocks) /\ RangeOf(Pipeline) = Queued /\ Queued = {}
    BY <2>1, QueuedInPipeline, EmptyQueue DEF IInv, QueueInv, Init, QueueInit, Queued, VerifyingHashes
  <2>3. Pipeline = <<>>
    BY <2>2, EmptyRange
  <2>4. Line = <<>>
    BY <2>3, EmptyConcat DEF Line, Init
  <2>5. InLine(Line, chain)
    BY <2>4 DEF InLine
  <2> QED BY <2>2, <2>5, EmptyQueue DEF LineInv, Init, QueueInit
<1>5. NothingRejected
  BY DEF Init, QueueInit, NothingRejected
<1> QED BY <1>1, <1>2, <1>3, <1>4, <1>5 DEF SteadyInv

-----------------------------------------------------------------------------
(***************************************************************************)
(* The chain's head.  import() asks for the parent with isKnown(), which   *)
(* also asks that it is no higher than the head.  If a longer branch is a  *)
(* heavier one, the head is as high as anything stored, so a block that    *)
(* waits has a parent that is not stored: not when it starts to wait, and  *)
(* not later, because what the chain stores comes from m_drainingSet.      *)
(***************************************************************************)
HeadHeaviest ==
    /\ m_lastBlockHash \in chain \cup {Genesis}
    /\ \A h \in chain : TotalOf(h) <= TotalOf(m_lastBlockHash)
NotStored == \A u \in m_unknown : Parent[u] \notin chain

\* What a steady step does to the blocks that wait and to the chain.
LEMMA SteadyStepKinds ==
    ASSUME IInv, [SteadyNext]_vars
    PROVE  \/ SyncImport /\ m_unknown' = m_unknown
           \/ /\ UNCHANGED <<chain, m_lastBlockHash>>
              /\ \/ m_unknown' \subseteq m_unknown
                 \/ \E b \in Blocks : ~KnownBlock(Parent[b]) /\ m_unknown' = m_unknown \cup {b}
<1> DEFINE Waits == \E b \in Blocks : ~KnownBlock(Parent[b]) /\ m_unknown' = m_unknown \cup {b}
           Kept == UNCHANGED <<chain, m_lastBlockHash>> /\ (m_unknown' \subseteq m_unknown \/ Waits)
<1>0. todo \in Seq(Blocks) /\ QueueInv
  BY DEF IInv, ClientInv, ClientTypeOK
<1>1. ASSUME NEW b \in Blocks, NEW isOurs, NEW t, Import(b, isOurs, t) PROVE Kept
  <2>1. CASE ImportFuture(b, t)
    BY <2>1 DEF ImportFuture
  <2>2. CASE ImportBadChain(b)
    BY <2>2 DEF ImportBadChain
  <2>3. CASE ImportUnknownParent(b)
    BY <2>3 DEF ImportUnknownParent, ParentUnknown
  <2>4. CASE ImportReady(b)
    BY <2>4 DEF ImportReady
  <2> QED BY <1>1, <2>1, <2>2, <2>3, <2>4 DEF Import
<1>2. ASSUME NEW b \in Blocks, Receive(b) PROVE Kept
  BY <1>1, <1>2 DEF Receive
<1>3. ASSUME NEW v \in Verifiers, Verifier(v) \/ OnReady(v) PROVE Kept
  BY <1>3 DEF Verifier, Take, VerifyFailed, VerifiedInTurn, VerifiedOutOfTurn, OnReady, setVars
<1>4. CASE UpdateBad
  BY <1>0, <1>4, UpdateBadPassKeepsInv DEF UpdateBad, Purged, UpdateBadPass
<1>5. CASE SyncDrain \/ SyncDone \/ Tick
  BY <1>5 DEF SyncDrain, Drain, SyncDone, DoneDrain, Tick, TakePastFuture
<1>6. CASE SyncImport
  BY <1>6 DEF SyncImport, setVars
<1>7. CASE StartSync \/ DoneDrainReturn \/ SyncAssign \/ Clock \/ UNCHANGED vars
  BY <1>7 DEF StartSync, DoneDrainReturn, SyncAssign, Clock, vars, queueStateVars, setVars
<1>8. CASE TickImport
  <2>1. Head(todo) \in Blocks
    BY <1>0, <1>8, HeadTailRange DEF TickImport
  <2> QED BY <1>1, <1>8, <2>1 DEF TickImport, queueStateVars, setVars
<1> QED BY <1>2, <1>3, <1>4, <1>5, <1>6, <1>7, <1>8 DEF SteadyNext, ClientThread

LEMMA StepKeepsHeaviest ==
    IInv /\ HeadHeaviest /\ [SteadyNext]_vars => HeadHeaviest'
<1> SUFFICES ASSUME IInv, HeadHeaviest, [SteadyNext]_vars PROVE HeadHeaviest'
  OBVIOUS
<1>1. CASE UNCHANGED <<chain, m_lastBlockHash>>
  BY <1>1 DEF HeadHeaviest, TotalOf
<1>2. ASSUME SyncImport, ~UNCHANGED <<chain, m_lastBlockHash>> PROVE HeadHeaviest'
  <2> DEFINE b == Head(batch)
             head == m_lastBlockHash
  <2>1. chain' = chain \cup {b} /\ HeadAfter(b)
    BY <1>2 DEF SyncImport
  <2>2. b \in Blocks
    BY <1>2, HeadTailRange DEF SyncImport, IInv, ClientInv, ClientTypeOK
  <2> HIDE DEF b
  <2>3. \A h \in Blocks \cup {Genesis} : TotalOf(h) \in Nat
    BY TotalAssumption DEF TotalOf
  <2>4. head \in Blocks \cup {Genesis} /\ head' \in Blocks \cup {Genesis} /\ chain \subseteq Blocks
    BY <2>1, <2>2 DEF IInv, QueueInv, QueueTypeOK, HeadAfter
  <2>5. \A h \in Blocks \cup {Genesis} : TotalOf(h)' = TotalOf(h)
    BY DEF TotalOf
  <2>6. TotalOf(head) <= TotalOf(head') /\ TotalOf(b) <= TotalOf(head')
        /\ head' \in chain' \cup {Genesis}
    BY <2>1, <2>2, <2>3, <2>4 DEF HeadAfter, HeadHeaviest
  <2>7. ASSUME NEW h \in chain' PROVE TotalOf(h) <= TotalOf(head')
    <3>1. CASE h = b
      BY <2>6, <3>1
    <3>2. CASE h \in chain
      BY <2>3, <2>4, <2>6, <3>2 DEF HeadHeaviest
    <3> QED BY <2>1, <2>7, <3>1, <3>2
  <2> QED BY <2>6, <2>7 DEF HeadHeaviest, TotalOf
<1> QED BY <1>1, <1>2, SteadyStepKinds

LEMMA StepKeepsNotStored ==
    ASSUME LongerIsHeavier
    PROVE  IInv /\ SteadyInv /\ HeadHeaviest /\ NotStored /\ [SteadyNext]_vars => NotStored'
<1> SUFFICES ASSUME IInv, SteadyInv, HeadHeaviest, NotStored, [SteadyNext]_vars PROVE NotStored'
  OBVIOUS
<1>1. ASSUME SyncImport, m_unknown' = m_unknown PROVE NotStored'
  <2>1. batch \in Seq(Blocks) /\ batch # <<>> /\ chain' \subseteq chain \cup {Head(batch)}
    BY <1>1 DEF SyncImport, IInv, ClientInv, ClientTypeOK
  <2>2. Head(batch) \in m_drainingSet
    BY <2>1, HeadTailRange DEF SteadyInv, BatchDraining
  <2> QED BY <1>1, <2>1, <2>2 DEF NotStored, SteadyInv, Unknowns, Waiting
<1>2. ASSUME NEW b \in Blocks, ~KnownBlock(Parent[b]), m_unknown' = m_unknown \cup {b},
             UNCHANGED <<chain, m_lastBlockHash>>
      PROVE  NotStored'
  <2> DEFINE p == Parent[b]
             head == m_lastBlockHash
  <2>1. p # Genesis /\ (p \in chain => ~(Number[p] <= NumberOf(head)))
    BY <1>2 DEF KnownBlock
  <2>2. p \notin chain
    <3> SUFFICES ASSUME p \in chain PROVE FALSE
      OBVIOUS
    <3>1. p \in Blocks /\ head \in Blocks \cup {Genesis}
      BY DEF IInv, QueueInv, QueueTypeOK
    <3>2. NumberOf(p) = Number[p] /\ Number[p] \in Nat /\ NumberOf(head) \in Nat
      BY <2>1, <3>1, HeaderAssumption DEF NumberOf
    <3>3. TotalOf(p) > TotalOf(head)
      BY <2>1, <3>1, <3>2 DEF LongerIsHeavier
    <3>4. TotalOf(p) \in Nat /\ TotalOf(head) \in Nat
      BY <3>1, TotalAssumption DEF TotalOf
    <3> QED BY <3>3, <3>4 DEF HeadHeaviest
  <2> QED BY <1>2, <2>2 DEF NotStored
<1>3. ASSUME m_unknown' \subseteq m_unknown, UNCHANGED <<chain, m_lastBlockHash>> PROVE NotStored'
  BY <1>3 DEF NotStored
<1> QED BY <1>1, <1>2, <1>3, SteadyStepKinds

-----------------------------------------------------------------------------
\* A block waits in m_unknown for no parent that is ready, being drained or
\* known to be bad, for any tree and any difficulties, whatever is verified,
\* drained, rejected and purged meanwhile.
THEOREM UnknownNotBehind ==
    SteadySpec => [](LockFree =>
        \A u \in m_unknown : Parent[u] \notin m_readySet \cup m_drainingSet \cup m_knownBad)
<1>1. IInv /\ SteadyInv =>
        (LockFree =>
            \A u \in m_unknown : Parent[u] \notin m_readySet \cup m_drainingSet \cup m_knownBad)
  BY WaitingWhenFree DEF IInv, SteadyInv
<1> QED BY <1>1, InitInv, InitSteady, SteadyIsNext, NextKeepsInv, StepKeepsSteady, PTL DEF SteadySpec

\* Where a longer branch is a heavier one, it waits for no parent the chain
\* has stored either: a block waits only for a parent whose import() will
\* release it.
THEOREM UnknownAlwaysWaits ==
    ASSUME LongerIsHeavier
    PROVE  SteadySpec => []UnknownWaits
<1>1. IInv /\ SteadyInv /\ NotStored => UnknownWaits
  BY WaitingWhenFree DEF IInv, SteadyInv, NotStored, UnknownWaits
<1>2. Init => HeadHeaviest /\ NotStored
  BY DEF Init, QueueInit, HeadHeaviest, NotStored
<1>3. IInv /\ SteadyInv /\ HeadHeaviest /\ NotStored /\ [SteadyNext]_vars => NotStored'
  BY StepKeepsNotStored
<1> QED BY <1>1, <1>2, <1>3, InitInv, InitSteady, SteadyIsNext, NextKeepsInv, StepKeepsSteady,
        StepKeepsHeaviest, PTL DEF SteadySpec

\* The assertion of BlockQueue::invariants() holds until the first block goes
\* bad, with restarts and forced retries at any time, for any blocks and any
\* number of verifiers: a verifier whose job was cleared from the queue, or
\* queued again for another one, miscounts nothing.
THEOREM InvariantsUntilBad == Spec => [](m_knownBad = {} => QueueInvariants)
<1>1. IInv /\ ReadyIsQueued => (m_knownBad = {} => QueueInvariants)
  BY QueuedCardinality DEF IInv, ReadyIsQueued, QueueInvariants
<1> QED BY <1>1, InitInv, InitSteady, NextKeepsInv, NextKeepsReady, PTL DEF Spec

\* drain() gives the blocks in the order of the chain until the first block
\* is rejected, for any tree, any number of verifiers and any order in which
\* they finish, if no block is passed over.
THEOREM OrderUntilRejected ==
    ASSUME Dependable
    PROVE  SteadySpec => [](NothingRejected => InOrder)
<1>1. IInv /\ LineInv => (NothingRejected => InOrder)
  BY LineGivesOrder DEF LineInv
<1> QED BY <1>1, InitInv, InitSteady, SteadyIsNext, NextKeepsInv, NextKeepsReady, StepKeepsSteady,
        StepKeepsLine, PTL DEF SteadySpec

\* Blocks that are valid are never taken for bad: with valid blocks only,
\* whatever their tree and however they arrive, m_knownBad stays empty and
\* the queue keeps its count and its order for ever.
THEOREM ValidNeverBad ==
    ASSUME AllValid
    PROVE  SteadySpec => [](NothingRejected /\ QueueInvariants /\ InOrder)
<1>1. Dependable
  BY DEF AllValid
<1>2. IInv /\ ReadyIsQueued /\ LineInv /\ NothingRejected
      => NothingRejected /\ QueueInvariants /\ InOrder
  BY LineGivesOrder, QueuedCardinality
     DEF IInv, ReadyIsQueued, LineInv, NothingRejected, QueueInvariants
<1>3. IInv /\ IInv' /\ SteadyInv /\ ReadyIsQueued /\ LineInv /\ [SteadyNext]_vars => LineInv'
  BY <1>1, StepKeepsLine
<1> QED BY <1>2, <1>3, InitInv, InitSteady, SteadyIsNext, NextKeepsInv, NextKeepsReady,
        StepKeepsSteady, StepRejectsNothing, PTL DEF SteadySpec
==============================================================================
