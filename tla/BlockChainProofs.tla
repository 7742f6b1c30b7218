--------------------------- MODULE BlockChainProofs ---------------------------
(***************************************************************************)
(* Theorems about the block chain database, for any finite or infinite     *)
(* tree of blocks, any weights, any number of readers, stops and rewinds.  *)
(***************************************************************************)
EXTENDS BlockChain, QueueOpsProofs

-----------------------------------------------------------------------------
(***************************************************************************)
(* Lines.  A line has exactly one block of each number up to its head's.   *)
(***************************************************************************)
OneOfEach(h) ==
    /\ h \in Line[h]
    /\ \A g \in Line[h] : g \in Hash /\ Number[g] <= Number[h]
    /\ \A f, g \in Line[h] : Number[f] = Number[g] => f = g
    /\ \A n \in 0..Number[h] : \E g \in Line[h] : Number[g] = n

LEMMA LineOfChild ==
    ASSUME NEW b \in Blocks, OneOfEach(Parent[b])
    PROVE  OneOfEach(b)
<1> USE TreeAssumption DEF Hash
<1>1. /\ Parent[b] \in Hash /\ Number[b] = Number[Parent[b]] + 1 /\ Number[b] \in Nat
      /\ Number[Parent[b]] \in Nat /\ Line[b] = Line[Parent[b]] \cup {b}
  OBVIOUS
<1>2. \A g \in Line[b] : /\ g \in Hash /\ Number[g] \in Nat
                         /\ g = b \/ (g \in Line[Parent[b]] /\ Number[g] < Number[b])
  BY <1>1 DEF OneOfEach
<1>3. \A f, g \in Line[b] : Number[f] = Number[g] => f = g
  <2> SUFFICES ASSUME NEW f \in Line[b], NEW g \in Line[b], Number[f] = Number[g]
               PROVE  f = g
    OBVIOUS
  <2>1. CASE f = b \/ g = b
    BY <1>1, <1>2, <2>1
  <2>2. CASE f # b /\ g # b
    BY <1>1, <2>2 DEF OneOfEach
  <2> QED BY <2>1, <2>2
<1>4. \A n \in 0..Number[b] : \E g \in Line[b] : Number[g] = n
  <2> SUFFICES ASSUME NEW n \in 0..Number[b] PROVE \E g \in Line[b] : Number[g] = n
    OBVIOUS
  <2>1. CASE n = Number[b]
    BY <1>1, <2>1
  <2>2. CASE n # Number[b]
    <3>1. n \in 0..Number[Parent[b]]
      BY <1>1, <2>2
    <3> QED BY <1>1, <3>1 DEF OneOfEach
  <2> QED BY <2>1, <2>2
<1>5. \A g \in Line[b] : g \in Hash /\ Number[g] <= Number[b]
  BY <1>1, <1>2
<1> QED BY <1>1, <1>3, <1>4, <1>5 DEF OneOfEach

LEMMA LineShape == \A h \in Hash : OneOfEach(h)
<1> DEFINE T == {Number[h] : h \in {g \in Hash : ~OneOfEach(g)}}
<1> SUFFICES ASSUME NEW h0 \in Hash, ~OneOfEach(h0) PROVE FALSE
  OBVIOUS
<1>1. T \in SUBSET Nat /\ T # {}
  BY TreeAssumption
<1>2. PICK x \in T : \A y \in T : x <= y
  <2> HIDE DEF T
  <2> QED BY <1>1, LeastNatural
<1>3. PICK h \in Hash : ~OneOfEach(h) /\ Number[h] = x
  BY <1>2
<1>4. CASE h = Genesis
  BY <1>3, <1>4, TreeAssumption DEF OneOfEach, Hash
<1>5. CASE h \in Blocks
  <2>1. /\ Parent[h] \in Hash /\ Number[h] = Number[Parent[h]] + 1
        /\ Number[Parent[h]] \in Nat
    BY <1>5, TreeAssumption DEF Hash
  <2>2. Number[Parent[h]] \notin T
    <3> HIDE DEF T
    <3> QED BY <1>1, <1>2, <1>3, <2>1
  <2>3. OneOfEach(Parent[h])
    BY <2>1, <2>2
  <2> QED BY <1>3, <1>5, <2>3, LineOfChild
<1> QED BY <1>3, <1>4, <1>5 DEF Hash

-----------------------------------------------------------------------------
(***************************************************************************)
(* The inductive invariant.                                                *)
(***************************************************************************)
\* What has details has a body and an ancestry that has details.
Closed ==
    /\ Genesis \in detailsDB
    /\ \A b \in detailsDB : Line[b] \subseteq detailsDB
    /\ \A b \in detailsDB \ {Genesis} : b \in blocksDB /\ Parent[b] \in detailsDB

\* How far the block being inserted is.
Inserting ==
    /\ step # "idle" => inserting \in Blocks /\ Parent[inserting] \in detailsDB
    /\ step \in {"extras", "best"} => inserting \in blocksDB
    /\ step = "best" => inserting \in detailsDB

\* A hash filed under a number is that of a stored block of this number, in the
\* database, in the cache and in the hands of a reader.
FiledUnder(n, h) == h = NoHash \/ (h \in detailsDB /\ Number[h] = n)
Filed ==
    /\ \A n \in Numbers : FiledUnder(n, hashDB[n]) /\ FiledUnder(n, m_blockHashes[n])
    /\ \A r \in Readers : /\ reading[r] # NotReading => reading[r].number \in Numbers
                          /\ FiledUnder(reading[r].number, reading[r].hash)

\* The head in memory is the one a restart would find, and it is stored.
HeadOnDisk ==
    /\ m_lastBlockHash = IF bestDB = NoHash THEN Genesis ELSE bestDB
    /\ m_lastBlockHash \in detailsDB

\* The head the insertion under way leads to, once its extras are committed.
NextHead == IF step = "best" /\ Better(inserting) THEN inserting ELSE m_lastBlockHash

Covered ==
    \A n \in Numbers : n <= m_lastBlockNumber \/ n <= Number[NextHead] => hashDB[n] # NoHash

Heaviest ==
    crashes = 0 /\ rewinds = 0 =>
        \A b \in detailsDB : TotalDifficulty[b] <= TotalDifficulty[NextHead]

Indexed ==
    crashes = 0 /\ rewinds = 0 =>
        \A n \in Numbers : n <= Number[NextHead] => hashDB[n] \in Line[NextHead]

DiskInv == Closed /\ Inserting /\ Filed /\ HeadOnDisk /\ ChildrenListed
HeadInv == Covered /\ Heaviest /\ Indexed
IInv == TypeOK /\ DiskInv /\ HeadInv

LEMMA NumbersPositive == \A n \in Numbers : n \in Nat /\ n > 0
<1> SUFFICES ASSUME NEW b \in Blocks PROVE Number[b] \in Nat /\ Number[b] > 0
  BY DEF Numbers
<1>1. Parent[b] \in Hash /\ Number[b] = Number[Parent[b]] + 1
  BY TreeAssumption
<1>2. Number[Parent[b]] \in Nat
  BY <1>1, TreeAssumption
<1> QED BY <1>1, <1>2

LEMMA InitInv == Init => IInv
<1> SUFFICES ASSUME Init PROVE IInv
  OBVIOUS
<1> USE TreeAssumption, WeightAssumption DEF Init, Hash, Nothing
<1>1. \A n \in Numbers : n \in Nat /\ n > 0
  BY NumbersPositive
<1>2. TypeOK
  <2>1. childrenDB \in [Hash -> Seq(Blocks)]
    OBVIOUS
  <2>2. reading \in [Readers -> [number : Numbers \cup {0}, hash : Hash \cup {NoHash}]]
    BY DEF NotReading
  <2> QED BY <2>1, <2>2 DEF TypeOK
<1>3. Closed /\ Inserting /\ HeadOnDisk /\ ChildrenListed
  BY DEF Closed, Inserting, HeadOnDisk, ChildrenListed
<1>4. Filed
  BY DEF Filed, FiledUnder, NotReading
<1>5. NextHead = Genesis
  BY DEF NextHead
<1>6. Covered /\ Heaviest /\ Indexed
  BY <1>1, <1>5 DEF Covered, Heaviest, Indexed, m_lastBlockNumber
<1> QED BY <1>2, <1>3, <1>4, <1>6 DEF IInv, DiskInv, HeadInv

\* An action that leaves the disk, the head and the progress of the insertion alone.
LEMMA HeadUnmoved ==
    ASSUME IInv, UNCHANGED <<detailsDB, hashDB, m_lastBlockHash, counterVars>>,
           step # "best", step' # "best"
    PROVE  HeadInv'
<1>1. NextHead = m_lastBlockHash /\ NextHead' = m_lastBlockHash
  BY DEF NextHead
<1>2. m_lastBlockNumber' = m_lastBlockNumber
  BY DEF m_lastBlockNumber
<1> QED BY <1>1, <1>2 DEF IInv, HeadInv, Covered, Heaviest, Indexed, counterVars

LEMMA StartInsertInv ==
    ASSUME IInv, NEW b \in Blocks, StartInsert(b)
    PROVE  IInv'
<1> USE DEF StartInsert, diskVars, counterVars
<1>1. Parent[b] \in detailsDB
  BY TreeAssumption DEF IInv, DiskInv, Closed, IsKnown
<1>2. m_blockHashes' \in [Numbers -> Hash \cup {NoHash}]
      /\ \A n \in Numbers : m_blockHashes'[n] \in {m_blockHashes[n], NoHash}
  BY DEF IInv, TypeOK, Cleared
<1>3. TypeOK'
  BY <1>2 DEF IInv, TypeOK
<1>4. Filed'
  BY <1>2 DEF IInv, DiskInv, Filed, FiledUnder
<1>5. DiskInv'
  BY <1>1, <1>4 DEF IInv, DiskInv, Closed, Inserting, HeadOnDisk, ChildrenListed
<1>6. HeadInv'
  BY HeadUnmoved
<1> QED BY <1>3, <1>5, <1>6 DEF IInv

LEMMA CommitBlocksInv ==
    ASSUME IInv, CommitBlocks
    PROVE  IInv'
<1> USE DEF CommitBlocks, counterVars
<1>1. inserting \in Blocks
  BY DEF IInv, DiskInv, Inserting
<1>2. TypeOK'
  BY <1>1 DEF IInv, TypeOK
<1>3. Closed' /\ Inserting' /\ HeadOnDisk' /\ ChildrenListed'
  BY DEF IInv, DiskInv, Closed, Inserting, HeadOnDisk, ChildrenListed
<1>4. Filed'
  BY DEF IInv, DiskInv, Filed, FiledUnder
<1>5. HeadInv'
  BY HeadUnmoved
<1> QED BY <1>2, <1>3, <1>4, <1>5 DEF IInv, DiskInv

LEMMA SetBestInv ==
    ASSUME IInv, SetBest
    PROVE  IInv'
<1> USE DEF SetBest, counterVars
<1>1. inserting \in Blocks /\ inserting \in detailsDB
  BY DEF IInv, DiskInv, Inserting
<1>2. NextHead' = m_lastBlockHash' /\ m_lastBlockHash' = NextHead
  BY DEF NextHead
<1>3. m_lastBlockHash' \in detailsDB
  BY <1>1 DEF IInv, DiskInv, HeadOnDisk
<1>4. TypeOK'
  <2>1. m_lastBlockHash' \in Hash /\ bestDB' \in Hash \cup {NoHash}
    BY <1>1 DEF IInv, TypeOK, Hash
  <2> QED BY <2>1 DEF IInv, TypeOK
<1>5. HeadOnDisk'
  <2>1. inserting # NoHash
    BY <1>1, TreeAssumption DEF Hash
  <2> QED BY <1>3, <2>1 DEF IInv, DiskInv, HeadOnDisk
<1>6. Closed' /\ Inserting' /\ ChildrenListed'
  BY DEF IInv, DiskInv, Closed, Inserting, ChildrenListed
<1>7. Filed'
  BY DEF IInv, DiskInv, Filed, FiledUnder
<1>8. HeadInv'
  BY <1>2 DEF IInv, HeadInv, Covered, Heaviest, Indexed, m_lastBlockNumber
<1> QED BY <1>4, <1>5, <1>6, <1>7, <1>8 DEF IInv, DiskInv

LEMMA LookupHashInv ==
    ASSUME IInv, NEW r \in Readers, NEW n \in Numbers, LookupHash(r, n)
    PROVE  IInv'
<1> USE DEF LookupHash, diskVars, counterVars
<1>1. TypeOK'
  BY DEF IInv, TypeOK
<1>2. Closed' /\ Inserting' /\ HeadOnDisk' /\ ChildrenListed'
  BY DEF IInv, DiskInv, Closed, Inserting, HeadOnDisk, ChildrenListed
<1>3. Filed'
  BY DEF IInv, DiskInv, TypeOK, Filed, FiledUnder
<1>4. HeadInv'
  <2>1. NextHead' = NextHead /\ m_lastBlockNumber' = m_lastBlockNumber
    BY DEF NextHead, Better, m_lastBlockNumber
  <2> QED BY <2>1 DEF IInv, HeadInv, Covered, Heaviest, Indexed
<1> QED BY <1>1, <1>2, <1>3, <1>4 DEF IInv, DiskInv

LEMMA CacheHashInv ==
    ASSUME IInv, NEW r \in Readers, CacheHash(r)
    PROVE  IInv'
<1> USE DEF CacheHash, diskVars, counterVars
<1>1. reading[r].number \in Numbers
  BY DEF IInv, DiskInv, Filed
<1>2. TypeOK'
  <2>1. m_blockHashes' \in [Numbers -> Hash \cup {NoHash}]
    BY <1>1 DEF IInv, TypeOK
  <2>2. reading' \in [Readers -> [number : Numbers \cup {0}, hash : Hash \cup {NoHash}]]
    BY DEF IInv, TypeOK, NotReading
  <2> QED BY <2>1, <2>2 DEF IInv, TypeOK
<1>3. Closed' /\ Inserting' /\ HeadOnDisk' /\ ChildrenListed'
  BY DEF IInv, DiskInv, Closed, Inserting, HeadOnDisk, ChildrenListed
<1>4. Filed'
  BY <1>1 DEF IInv, DiskInv, TypeOK, Filed, FiledUnder, NotReading
<1>5. HeadInv'
  <2>1. NextHead' = NextHead /\ m_lastBlockNumber' = m_lastBlockNumber
    BY DEF NextHead, Better, m_lastBlockNumber
  <2> QED BY <2>1 DEF IInv, HeadInv, Covered, Heaviest, Indexed
<1> QED BY <1>2, <1>3, <1>4, <1>5 DEF IInv, DiskInv

LEMMA CrashInv ==
    ASSUME IInv, Crash
    PROVE  IInv'
<1> USE DEF Crash, diskVars
<1>1. m_lastBlockHash' = m_lastBlockHash
  BY DEF IInv, DiskInv, HeadOnDisk
<1>2. crashes' # 0 /\ crashes' \in 0..MaxCrashes
  BY WeightAssumption DEF IInv, TypeOK
<1>3. TypeOK'
  <2>1. reading' \in [Readers -> [number : Numbers \cup {0}, hash : Hash \cup {NoHash}]]
    BY DEF NotReading
  <2> QED BY <1>1, <1>2, <2>1 DEF IInv, TypeOK, Nothing
<1>4. Closed' /\ Inserting' /\ HeadOnDisk' /\ ChildrenListed'
  BY <1>1 DEF IInv, DiskInv, Closed, Inserting, HeadOnDisk, ChildrenListed
<1>5. Filed'
  BY DEF IInv, DiskInv, Filed, FiledUnder, Nothing, NotReading
<1>6. HeadInv'
  <2>1. NextHead' = m_lastBlockHash /\ m_lastBlockNumber' = m_lastBlockNumber
    BY <1>1 DEF NextHead, m_lastBlockNumber
  <2>2. Covered'
    BY <2>1 DEF IInv, HeadInv, Covered, m_lastBlockNumber
  <2> QED BY <1>2, <2>2 DEF HeadInv, Heaviest, Indexed
<1> QED BY <1>3, <1>4, <1>5, <1>6 DEF IInv, DiskInv

\* rewind finds a stored block of the number it is given, in the cache or on disk.
LEMMA RewindHead ==
    ASSUME IInv, NEW n \in Numbers \cup {0}, n < m_lastBlockNumber,
           NEW c \in [Numbers -> Hash \cup {NoHash}],
           \A m \in Numbers : c[m] \in {m_blockHashes[m], NoHash}
    PROVE  NumberHash(c, n) \in detailsDB /\ Number[NumberHash(c, n)] = n
<1>1. CASE n = 0
  BY <1>1, TreeAssumption DEF NumberHash, IInv, DiskInv, Closed
<1>2. CASE n # 0
  <2>1. n \in Numbers
    BY <1>2
  <2>2. hashDB[n] # NoHash
    BY <2>1, NumbersPositive, TreeAssumption DEF IInv, TypeOK, HeadInv, Covered, m_lastBlockNumber
  <2>3. FiledUnder(n, c[n]) /\ FiledUnder(n, hashDB[n])
    BY <2>1 DEF IInv, DiskInv, Filed, FiledUnder
  <2>4. NumberHash(c, n) = IF c[n] # NoHash THEN c[n] ELSE hashDB[n]
    BY <1>2 DEF NumberHash
  <2> QED BY <2>2, <2>3, <2>4 DEF FiledUnder
<1> QED BY <1>1, <1>2

LEMMA ClearedCache ==
    ASSUME TypeOK, NEW n \in Numbers \cup {0}
    PROVE  /\ Cleared(m_blockHashes, n + 1) \in [Numbers -> Hash \cup {NoHash}]
           /\ \A m \in Numbers : Cleared(m_blockHashes, n + 1)[m] \in {m_blockHashes[m], NoHash}
BY DEF TypeOK, Cleared

LEMMA RewindTo ==
    ASSUME IInv, NEW n \in Numbers \cup {0}, Rewind(n)
    PROVE  Number[m_lastBlockHash'] < m_lastBlockNumber
<1> DEFINE c == Cleared(m_blockHashes, n + 1)
<1>1. m_lastBlockHash' = NumberHash(c, n) /\ n < m_lastBlockNumber
  BY DEF Rewind
<1>2. c \in [Numbers -> Hash \cup {NoHash}] /\ \A m \in Numbers : c[m] \in {m_blockHashes[m], NoHash}
  BY ClearedCache DEF IInv
<1> HIDE DEF c
<1> QED BY <1>1, <1>2, RewindHead

LEMMA RewindInv ==
    ASSUME IInv, NEW n \in Numbers \cup {0}, Rewind(n)
    PROVE  IInv'
<1> DEFINE c == Cleared(m_blockHashes, n + 1)
           head == NumberHash(c, n)
<1>1. /\ m_lastBlockHash' = head /\ bestDB' = head
      /\ m_blockHashes' = IF n = 0 THEN c ELSE [c EXCEPT ![n] = head]
      /\ n < m_lastBlockNumber /\ rewinds' = rewinds + 1 /\ rewinds < MaxRewinds
      /\ step = "idle"
      /\ UNCHANGED <<blocksDB, detailsDB, childrenDB, hashDB, inserting, step, reading, crashes>>
  BY DEF Rewind
<1>2. c \in [Numbers -> Hash \cup {NoHash}] /\ \A m \in Numbers : c[m] \in {m_blockHashes[m], NoHash}
  BY ClearedCache DEF IInv
<1> HIDE DEF c
<1>3. head \in detailsDB /\ Number[head] = n
  BY <1>1, <1>2, RewindHead
<1> HIDE DEF head
<1>4. head \in Hash /\ head # NoHash
  BY <1>3, TreeAssumption DEF IInv, TypeOK
<1>5. rewinds' # 0 /\ rewinds' \in 0..MaxRewinds
  BY <1>1, WeightAssumption DEF IInv, TypeOK
<1>6. \A m \in Numbers : m_blockHashes'[m] = c[m] \/ (m = n /\ m_blockHashes'[m] = head)
  BY <1>1, <1>2
<1>7. TypeOK'
  <2>1. m_blockHashes' \in [Numbers -> Hash \cup {NoHash}]
    BY <1>1, <1>2, <1>4
  <2> QED BY <1>1, <1>4, <1>5, <2>1 DEF IInv, TypeOK
<1>8. Closed' /\ Inserting' /\ HeadOnDisk' /\ ChildrenListed'
  BY <1>1, <1>3, <1>4 DEF IInv, DiskInv, Closed, Inserting, HeadOnDisk, ChildrenListed
<1>9. Filed'
  BY <1>1, <1>2, <1>3, <1>6 DEF IInv, DiskInv, Filed, FiledUnder
<1>10. HeadInv'
  <2>1. NextHead' = head /\ m_lastBlockNumber' = n
    BY <1>1, <1>3 DEF NextHead, m_lastBlockNumber
  <2>2. m_lastBlockNumber \in Nat
    BY TreeAssumption DEF m_lastBlockNumber, IInv, TypeOK
  <2>3. Covered'
    BY <1>1, <1>3, <2>1, <2>2, NumbersPositive DEF IInv, HeadInv, Covered
  <2> QED BY <1>5, <2>3 DEF HeadInv, Heaviest, Indexed
<1> QED BY <1>7, <1>8, <1>9, <1>10 DEF IInv, DiskInv

-----------------------------------------------------------------------------
(***************************************************************************)
(* The commit of the extras, where the index meets the lines of two heads. *)
(***************************************************************************)
\* A number of the batch gets a fresh block of this number; the others keep theirs.
LEMMA HashBatchEntry ==
    ASSUME TypeOK, NEW b \in Blocks, NEW n \in Numbers
    PROVE  \/ /\ Better(b) /\ HashBatch(b)[n] \in Fresh(b)
              /\ Number[HashBatch(b)[n]] = n
           \/ /\ HashBatch(b)[n] = hashDB[n]
              /\ Better(b) => \A h \in Fresh(b) : Number[h] # n
<1> DEFINE e == CHOOSE h \in Fresh(b) : Number[h] = n
<1>1. HashBatch(b)[n] = IF Better(b) /\ (\E h \in Fresh(b) : Number[h] = n) THEN e ELSE hashDB[n]
  BY DEF HashBatch
<1>2. (\E h \in Fresh(b) : Number[h] = n) => e \in Fresh(b) /\ Number[e] = n
  OBVIOUS
<1> HIDE DEF e
<1> QED BY <1>1, <1>2

\* Where the batch writes nothing, the two lines have the same block.
LEMMA NotFresh ==
    ASSUME TypeOK, NEW b \in Blocks, NEW n \in Numbers, n <= Number[b],
           \A h \in Fresh(b) : Number[h] # n
    PROVE  /\ n <= m_lastBlockNumber
           /\ \A h \in Line[m_lastBlockHash] : Number[h] = n => h \in Line[b]
<1>1. /\ OneOfEach(b) /\ OneOfEach(m_lastBlockHash)
      /\ Number[b] \in Nat /\ n \in 0..Number[b]
  BY LineShape, NumbersPositive, TreeAssumption DEF TypeOK, Hash
<1>2. PICK g \in Line[b] : Number[g] = n
  BY <1>1 DEF OneOfEach
<1>3. g \in Line[m_lastBlockHash]
  BY <1>2 DEF Fresh
<1>4. n <= m_lastBlockNumber
  BY <1>1, <1>2, <1>3 DEF OneOfEach, m_lastBlockNumber
<1>5. \A h \in Line[m_lastBlockHash] : Number[h] = n => h = g
  BY <1>1, <1>2, <1>3 DEF OneOfEach
<1> QED BY <1>2, <1>4, <1>5

LEMMA CommitExtrasInv ==
    ASSUME IInv, CommitExtras
    PROVE  IInv'
<1> DEFINE b == inserting
<1>1. /\ step = "extras" /\ step' = "best"
      /\ detailsDB' = detailsDB \cup {b} /\ childrenDB' = WithChild(b) /\ hashDB' = HashBatch(b)
      /\ UNCHANGED <<blocksDB, bestDB, m_lastBlockHash, m_blockHashes, inserting, reading,
                     crashes, rewinds>>
  BY DEF CommitExtras, counterVars
<1>2. /\ b \in Blocks /\ b \in Hash /\ b \in blocksDB /\ Parent[b] \in detailsDB
      /\ Parent[b] \in Hash /\ b # Genesis /\ b # NoHash
      /\ Line[b] = Line[Parent[b]] \cup {b} /\ Number[b] \in Nat
  BY <1>1, TreeAssumption DEF IInv, DiskInv, Inserting, Hash
<1>3. Line[b] \subseteq detailsDB' /\ Fresh(b) \subseteq Line[b] /\ Line[b] \subseteq Hash
  BY <1>1, <1>2, TreeAssumption DEF IInv, DiskInv, Closed, Fresh
<1> HIDE DEF b
<1>4. \A n \in Numbers : \/ /\ Better(b) /\ hashDB'[n] \in Fresh(b) /\ Number[hashDB'[n]] = n
                            \/ /\ hashDB'[n] = hashDB[n]
                               /\ Better(b) => \A h \in Fresh(b) : Number[h] # n
  BY <1>1, <1>2, HashBatchEntry DEF IInv
<1>5. TypeOK'
  <2>1. childrenDB' \in [Hash -> Seq(Blocks)]
    BY <1>1, <1>2 DEF IInv, TypeOK, WithChild
  <2>2. hashDB' \in [Numbers -> Hash \cup {NoHash}]
    <3>1. \A n \in Numbers : hashDB'[n] \in Hash \cup {NoHash}
      BY <1>3, <1>4 DEF IInv, TypeOK
    <3> QED BY <1>1, <3>1 DEF HashBatch
  <2> QED BY <1>1, <1>2, <2>1, <2>2 DEF IInv, TypeOK
<1>6. Closed'
  BY <1>1, <1>2, <1>3 DEF IInv, DiskInv, Closed
<1>7. Inserting'
  BY <1>1, <1>2 DEF Inserting, b
<1>8. Filed'
  <2>1. \A n \in Numbers : FiledUnder(n, hashDB[n])'
    BY <1>1, <1>3, <1>4 DEF IInv, DiskInv, Filed, FiledUnder
  <2> QED BY <1>1, <2>1 DEF IInv, DiskInv, Filed, FiledUnder
<1>9. HeadOnDisk'
  BY <1>1 DEF IInv, DiskInv, HeadOnDisk
<1>10. ChildrenListed'
  <2>1. \A h \in Hash : /\ childrenDB[h] \in Seq(Blocks)
                         /\ childrenDB'[h] = IF h = Parent[b] THEN Append(childrenDB[h], b) ELSE childrenDB[h]
    BY <1>1, <1>2 DEF IInv, TypeOK, WithChild
  <2>2. \A h \in Hash : \A i \in DOMAIN childrenDB[h] :
            i \in DOMAIN childrenDB'[h] /\ childrenDB'[h][i] = childrenDB[h][i]
    <3>1. \A q \in Seq(Blocks) : \A i \in DOMAIN q :
              i \in DOMAIN Append(q, b) /\ Append(q, b)[i] = q[i]
      BY <1>2
    <3> QED BY <2>1, <3>1
  <2>3. \E i \in DOMAIN childrenDB'[Parent[b]] : childrenDB'[Parent[b]][i] = b
    <3>1. childrenDB'[Parent[b]] = Append(childrenDB[Parent[b]], b) /\ childrenDB[Parent[b]] \in Seq(Blocks)
      BY <1>2, <2>1
    <3> DEFINE k == Len(childrenDB[Parent[b]]) + 1
    <3>2. k \in DOMAIN childrenDB'[Parent[b]] /\ childrenDB'[Parent[b]][k] = b
      BY <1>2, <3>1
    <3> QED BY <3>2
  <2>4. \A x \in detailsDB \ {Genesis} : Parent[x] \in Hash
    BY TreeAssumption DEF IInv, TypeOK, Hash
  <2>5. \A x \in detailsDB \ {Genesis} : \E i \in DOMAIN childrenDB'[Parent[x]] : childrenDB'[Parent[x]][i] = x
    BY <2>2, <2>4 DEF IInv, DiskInv, ChildrenListed
  <2> QED BY <1>1, <2>3, <2>5 DEF ChildrenListed
<1>11. /\ NextHead = m_lastBlockHash
       /\ NextHead' = IF Better(b) THEN b ELSE m_lastBlockHash
       /\ m_lastBlockNumber' = m_lastBlockNumber
  BY <1>1 DEF NextHead, Better, b, m_lastBlockNumber
<1>12. m_lastBlockHash \in Hash /\ m_lastBlockHash \in detailsDB
  BY DEF IInv, TypeOK, DiskInv, HeadOnDisk
<1>13. Covered'
  <2> SUFFICES ASSUME NEW n \in Numbers, n <= m_lastBlockNumber \/ n <= Number[NextHead'],
                      hashDB'[n] = NoHash
               PROVE  FALSE
    BY <1>11 DEF Covered
  <2>1. hashDB'[n] = hashDB[n] /\ (Better(b) => \A h \in Fresh(b) : Number[h] # n)
    BY <1>3, <1>4, TreeAssumption
  <2>2. n <= m_lastBlockNumber
    BY <1>2, <1>11, <2>1, NotFresh DEF IInv, m_lastBlockNumber
  <2> QED BY <2>1, <2>2 DEF IInv, HeadInv, Covered
<1>14. Heaviest'
  <2> SUFFICES ASSUME crashes = 0, rewinds = 0
               PROVE  \A x \in detailsDB' : TotalDifficulty[x] <= TotalDifficulty[NextHead']
    BY <1>1 DEF Heaviest
  <2>1. \A x \in detailsDB : TotalDifficulty[x] <= TotalDifficulty[m_lastBlockHash]
    BY <1>11 DEF IInv, HeadInv, Heaviest
  <2>2. \A x \in detailsDB \cup {b} : TotalDifficulty[x] \in Nat
    BY <1>2, WeightAssumption DEF IInv, TypeOK
  <2>3. TotalDifficulty[m_lastBlockHash] <= TotalDifficulty[NextHead']
    BY <1>2, <1>11, <1>12, <2>2 DEF Better
  <2>4. TotalDifficulty[b] <= TotalDifficulty[NextHead']
    BY <1>2, <1>11, <1>12, <2>2 DEF Better
  <2>5. TotalDifficulty[NextHead'] \in Nat
    BY <1>11, <1>12, <2>2
  <2> QED BY <1>1, <1>12, <2>1, <2>2, <2>3, <2>4, <2>5
<1>15. Indexed'
  <2> SUFFICES ASSUME crashes = 0, rewinds = 0, NEW n \in Numbers, n <= Number[NextHead']
               PROVE  hashDB'[n] \in Line[NextHead']
    BY <1>1 DEF Indexed
  <2>1. CASE ~Better(b)
    BY <1>4, <1>11, <2>1 DEF IInv, HeadInv, Indexed
  <2>2. CASE Better(b) /\ hashDB'[n] \in Fresh(b)
    BY <1>3, <1>11, <2>2
  <2>3. CASE Better(b) /\ hashDB'[n] \notin Fresh(b)
    <3>1. hashDB'[n] = hashDB[n] /\ \A h \in Fresh(b) : Number[h] # n
      BY <1>4, <2>3
    <3>2. n <= m_lastBlockNumber /\ \A h \in Line[m_lastBlockHash] : Number[h] = n => h \in Line[b]
      BY <1>2, <1>11, <2>3, <3>1, NotFresh DEF IInv
    <3>3. hashDB[n] \in Line[m_lastBlockHash] /\ hashDB[n] # NoHash
      BY <1>11, <3>2 DEF IInv, HeadInv, Indexed, Covered, m_lastBlockNumber
    <3>4. Number[hashDB[n]] = n
      BY <3>3 DEF IInv, DiskInv, Filed, FiledUnder
    <3> QED BY <1>11, <2>3, <3>1, <3>2, <3>3, <3>4
  <2> QED BY <2>1, <2>2, <2>3
<1> QED BY <1>5, <1>6, <1>7, <1>8, <1>9, <1>10, <1>13, <1>14, <1>15 DEF IInv, DiskInv, HeadInv

-----------------------------------------------------------------------------
LEMMA StutterInv ==
    ASSUME IInv, UNCHANGED vars
    PROVE  IInv'
<1> USE DEF vars, diskVars, counterVars
<1>1. TypeOK'
  BY DEF IInv, TypeOK
<1>2. Closed' /\ Inserting' /\ HeadOnDisk' /\ ChildrenListed'
  BY DEF IInv, DiskInv, Closed, Inserting, HeadOnDisk, ChildrenListed
<1>3. Filed'
  BY DEF IInv, DiskInv, Filed, FiledUnder
<1>4. NextHead' = NextHead /\ m_lastBlockNumber' = m_lastBlockNumber
  BY DEF NextHead, Better, m_lastBlockNumber
<1>5. HeadInv'
  BY <1>4 DEF IInv, HeadInv, Covered, Heaviest, Indexed
<1> QED BY <1>1, <1>2, <1>3, <1>5 DEF IInv, DiskInv

LEMMA NextInv == IInv /\ [Next]_vars => IInv'
<1> SUFFICES ASSUME IInv, [Next]_vars PROVE IInv'
  OBVIOUS
<1>1. ASSUME NEW b \in Blocks, StartInsert(b) PROVE IInv'
  BY <1>1, StartInsertInv
<1>2. CASE CommitBlocks
  BY <1>2, CommitBlocksInv
<1>3. CASE CommitExtras
  BY <1>3, CommitExtrasInv
<1>4. CASE SetBest
  BY <1>4, SetBestInv
<1>5. ASSUME NEW n \in Numbers \cup {0}, Rewind(n) PROVE IInv'
  BY <1>5, RewindInv
<1>6. ASSUME NEW r \in Readers, CacheHash(r) PROVE IInv'
  BY <1>6, CacheHashInv
<1>7. ASSUME NEW r \in Readers, NEW n \in Numbers, LookupHash(r, n) PROVE IInv'
  BY <1>7, LookupHashInv
<1>8. CASE Crash
  BY <1>8, CrashInv
<1>9. CASE UNCHANGED vars
  BY <1>9, StutterInv
<1> QED BY <1>1, <1>2, <1>3, <1>4, <1>5, <1>6, <1>7, <1>8, <1>9 DEF Next

THEOREM Invariance == Spec => []IInv
BY InitInv, NextInv, PTL DEF Spec

\* The state of the database and of the import keeps its type: a rewind never
\* makes the null hash the head, whatever stops and readers came before.
THEOREM TypeCorrect == Spec => []TypeOK
<1>1. IInv => TypeOK
  BY DEF IInv
<1> QED BY <1>1, Invariance, PTL

\* insertBlockAndExtras commits in an order that never leaves a dangling hash
\* on disk, wherever the process stops.
THEOREM AlwaysDurable == Spec => []Durable
<1>1. IInv => Durable
  <2> SUFFICES ASSUME IInv PROVE Durable
    OBVIOUS
  <2>1. detailsDB \subseteq Stored
    BY DEF IInv, DiskInv, Closed, Stored
  <2>2. bestDB = NoHash \/ bestDB \in detailsDB
    BY DEF IInv, DiskInv, HeadOnDisk
  <2> QED BY <2>1, <2>2 DEF IInv, DiskInv, Filed, FiledUnder, Closed, Durable
<1> QED BY <1>1, Invariance, PTL

\* A block with details is in the list of children of its parent.
THEOREM ChildrenAreListed == Spec => []ChildrenListed
<1>1. IInv => ChildrenListed
  BY DEF IInv, DiskInv
<1> QED BY <1>1, Invariance, PTL

\* numberHash finds every number up to the head's, after any stops and rewinds.
THEOREM EveryNumberCovered == Spec => []NumbersCovered
<1>1. IInv => NumbersCovered
  BY DEF IInv, HeadInv, Covered, NumbersCovered
<1> QED BY <1>1, Invariance, PTL

\* The best-block test picks a heaviest block for any weights, with or without
\* the gas tie-break, in any order of arrival.
THEOREM HeadIsHeaviest == Spec => []LastIsHeaviest
<1>1. IInv => LastIsHeaviest
  BY DEF IInv, HeadInv, Heaviest, LastIsHeaviest, NextHead
<1> QED BY <1>1, Invariance, PTL

\* After every import, reorganisations of any depth included, the number index
\* is the line of the head.
THEOREM IndexFollowsHead == Spec => []IndexFollows
<1>1. IInv => IndexFollows
  BY DEF IInv, HeadInv, Indexed, IndexFollows, IndexOnLine, NextHead, m_lastBlockNumber
<1> QED BY <1>1, Invariance, PTL

-----------------------------------------------------------------------------
(***************************************************************************)
(* The refinement of ChainPromise: the commit of the extras adopts, the    *)
(* write of the best hash advances, everything else but a rewind stutters. *)
(***************************************************************************)
LEMMA PromiseStep == IInv /\ [Next]_vars => [Promise!Next]_<<detailsDB, m_lastBlockHash>>
<1> SUFFICES ASSUME IInv, [Next]_vars,
                    ~UNCHANGED <<detailsDB, m_lastBlockHash>>
             PROVE  Promise!Next
  OBVIOUS
<1>1. ASSUME NEW b \in Blocks, StartInsert(b) PROVE FALSE
  BY <1>1 DEF StartInsert, diskVars
<1>2. CASE CommitBlocks
  BY <1>2 DEF CommitBlocks
<1>3. CASE CommitExtras
  <2>1. inserting \in Blocks /\ Parent[inserting] \in detailsDB
    BY <1>3 DEF CommitExtras, IInv, DiskInv, Inserting
  <2>2. Promise!Adopt(inserting)
    BY <1>3, <2>1 DEF CommitExtras, Promise!Adopt
  <2> QED BY <2>1, <2>2 DEF Promise!Next
<1>4. CASE SetBest
  <2>1. inserting \in Blocks /\ inserting \in detailsDB
    BY <1>4 DEF SetBest, IInv, DiskInv, Inserting
  <2>2. Better(inserting) /\ m_lastBlockHash' = inserting /\ detailsDB' = detailsDB
    BY <1>4 DEF SetBest
  <2>3. TotalDifficulty[inserting] >= TotalDifficulty[m_lastBlockHash]
    BY <2>1, <2>2, WeightAssumption DEF Better, IInv, TypeOK, Hash
  <2>4. Promise!Advance(inserting)
    BY <2>1, <2>2, <2>3 DEF Promise!Advance
  <2> QED BY <2>1, <2>4 DEF Promise!Next
<1>5. ASSUME NEW n \in Numbers \cup {0}, Rewind(n) PROVE Promise!Next
  <2>1. IInv'
    BY <1>5, RewindInv
  <2>2. m_lastBlockHash' \in detailsDB /\ m_lastBlockHash' \in Hash /\ detailsDB' = detailsDB
    BY <1>5, <2>1 DEF IInv, DiskInv, HeadOnDisk, TypeOK, Rewind
  <2>3. Number[m_lastBlockHash'] < Number[m_lastBlockHash]
    BY <1>5, RewindTo DEF m_lastBlockNumber
  <2>4. Promise!Rewind(m_lastBlockHash')
    BY <2>2, <2>3 DEF Promise!Rewind
  <2> QED BY <2>2, <2>4 DEF Promise!Next, Hash
<1>6. ASSUME NEW r \in Readers, CacheHash(r) PROVE FALSE
  BY <1>6 DEF CacheHash, diskVars
<1>7. ASSUME NEW r \in Readers, NEW n \in Numbers, LookupHash(r, n) PROVE FALSE
  BY <1>7 DEF LookupHash, diskVars
<1>8. CASE Crash
  BY <1>8 DEF Crash, diskVars, IInv, DiskInv, HeadOnDisk
<1>9. CASE UNCHANGED vars
  BY <1>9 DEF vars, diskVars
<1> QED BY <1>1, <1>2, <1>3, <1>4, <1>5, <1>6, <1>7, <1>8, <1>9 DEF Next

\* BlockChain implements ChainPromise: stops, reorganisations and readers are
\* invisible in the set of stored blocks and in the head.
THEOREM Refinement == Spec => KeepsPromise
<1>1. Init => Promise!Init
  BY DEF Init, Promise!Init
<1> QED BY <1>1, Invariance, PromiseStep, PTL DEF Spec, KeepsPromise, Promise!Spec
=============================================================================
