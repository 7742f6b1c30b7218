------------------------------- MODULE BlockChain -------------------------------
(***************************************************************************)
(* The block chain database of libwing (BlockChain.cpp, .h): block bodies  *)
(* in one database; details, children, the hash of each number and the     *)
(* best hash in another; and the cache of number hashes, which any thread  *)
(* reads.  The client thread imports and rewinds.  insertBlockAndExtras    *)
(* commits the bodies, then the extras, then the best hash: the process    *)
(* may stop between any two of them (a failed write exits), and open()     *)
(* starts from what is on disk.                                            *)
(*                                                                         *)
(* Blocks are valid and in time.  The other extras (receipts, blooms,      *)
(* transaction addresses) are written with the details and are left out;   *)
(* so are insert(), insertWithoutParent() and rebuild().                   *)
(***************************************************************************)
EXTENDS Integers, Sequences, FiniteSets

CONSTANTS
    Blocks,             \* the blocks that can arrive
    Genesis,            \* m_genesisHash
    NoHash,             \* the null hash
    Parent,             \* Parent[b]: the parent of b
    Number,             \* Number[b]: the number of b, 0 for Genesis
    Line,               \* Line[b]: b and its ancestors
    TotalDifficulty,    \* TotalDifficulty[b]: as kept in the details
    GasUsed,            \* GasUsed[b]
    TieBreakingGas,     \* ChainParams::tieBreakingGas
    Readers,            \* the threads that call numberHash
    MaxCrashes,         \* bound on the crashes of a behaviour
    MaxRewinds          \* bound on the rewinds of a behaviour

Hash == Blocks \cup {Genesis}

ASSUME TreeAssumption ==
    /\ Genesis \notin Blocks /\ NoHash \notin Hash
    /\ Parent \in [Blocks -> Hash]
    /\ Number \in [Hash -> Nat] /\ Number[Genesis] = 0
    /\ \A b \in Blocks : Number[b] = Number[Parent[b]] + 1
    /\ Line \in [Hash -> SUBSET Hash] /\ Line[Genesis] = {Genesis}
    /\ \A b \in Blocks : Line[b] = Line[Parent[b]] \cup {b}
ASSUME WeightAssumption ==
    /\ TotalDifficulty \in [Hash -> Nat] /\ GasUsed \in [Hash -> Nat]
    /\ \A b \in Blocks : TotalDifficulty[b] > TotalDifficulty[Parent[b]]
    /\ TieBreakingGas \in BOOLEAN /\ MaxCrashes \in Nat /\ MaxRewinds \in Nat

Numbers == {Number[b] : b \in Blocks}

VARIABLES
    blocksDB,       \* the blocks whose bodies are on disk
    detailsDB,      \* the blocks whose details are on disk
    childrenDB,     \* childrenDB[h]: the children in the details of h
    hashDB,         \* hashDB[n]: ExtraBlockHash of the number n
    bestDB,         \* "best", NoHash when it was never written
    m_lastBlockHash,
    m_blockHashes,  \* the cache of hashDB
    inserting,      \* the block insertBlockAndExtras is at, or NoHash
    step,           \* what it does next
    reading,        \* reading[r]: the number and hash reader r looked up, not cached yet
    crashes, rewinds

diskVars == <<blocksDB, detailsDB, childrenDB, hashDB, bestDB>>
counterVars == <<crashes, rewinds>>
vars == <<diskVars, m_lastBlockHash, m_blockHashes, inserting, step, reading, counterVars>>

Nothing == [n \in Numbers |-> NoHash]
NotReading == [number |-> 0, hash |-> NoHash]

Init ==
    /\ blocksDB = {} /\ detailsDB = {Genesis}
    /\ childrenDB = [h \in Hash |-> <<>>]
    /\ hashDB = Nothing /\ bestDB = NoHash
    /\ m_lastBlockHash = Genesis /\ m_blockHashes = Nothing
    /\ inserting = NoHash /\ step = "idle"
    /\ reading = [r \in Readers |-> NotReading]
    /\ crashes = 0 /\ rewinds = 0

m_lastBlockNumber == Number[m_lastBlockHash]

\* Mutant: the details are not asked for.
KnownByBody(h, isCurrent) ==
    h = Genesis \/ (h \in blocksDB /\ (isCurrent => Number[h] <= m_lastBlockNumber))
\* isKnown(h, isCurrent): rewound blocks are stored but not current.
IsKnown(h, isCurrent) ==
    \/ h = Genesis
    \/ /\ h \in blocksDB /\ h \in detailsDB
       /\ isCurrent => Number[h] <= m_lastBlockNumber

\* Mutant: a number that is not cached has no hash.
CachedHash(c, n) == IF n = 0 THEN Genesis ELSE c[n]
\* numberHash(n), when the cache is c.
NumberHash(c, n) ==
    IF n = 0 THEN Genesis ELSE IF c[n] # NoHash THEN c[n] ELSE hashDB[n]

-----------------------------------------------------------------------------
(***************************************************************************)
(* treeRoute from the last block to the parent of b: its common ancestor,  *)
(* and the blocks of the route after it with b tacked on.                  *)
(***************************************************************************)
Common(b) ==
    CHOOSE h \in Line[m_lastBlockHash] \cap Line[Parent[b]] :
        \A g \in Line[m_lastBlockHash] \cap Line[Parent[b]] : Number[g] <= Number[h]
\* Mutants: only the new block is indexed; the new block is not tacked on.
OnlyNewest(b) == {b}
RouteOnly(b) == Line[Parent[b]] \ Line[m_lastBlockHash]
Fresh(b) == Line[b] \ Line[m_lastBlockHash]

\* Mutant: the longest chain is the best one.
LongerIsBetter(b) == Number[b] > m_lastBlockNumber
\* The test for the new best block.
Better(b) ==
    \/ TotalDifficulty[b] > TotalDifficulty[m_lastBlockHash]
    \/ /\ TieBreakingGas
       /\ TotalDifficulty[b] = TotalDifficulty[m_lastBlockHash]
       /\ GasUsed[b] > GasUsed[m_lastBlockHash]

\* clearCachesDuringChainReversion
Cleared(c, firstInvalid) ==
    [n \in Numbers |-> IF n >= firstInvalid /\ n <= m_lastBlockNumber THEN NoHash ELSE c[n]]

\* import() to the point where both batches are made: a reorganisation has
\* cleared the cache by then.
StartInsert(b) ==
    /\ step = "idle"
    /\ ~IsKnown(b, TRUE) /\ IsKnown(Parent[b], FALSE)
    /\ m_blockHashes' = IF Better(b) /\ Common(b) # m_lastBlockHash
                        THEN Cleared(m_blockHashes, Number[Common(b)] + 1)
                        ELSE m_blockHashes
    /\ inserting' = b /\ step' = "blocks"
    /\ UNCHANGED <<diskVars, m_lastBlockHash, reading, counterVars>>

CommitBlocks ==
    /\ step = "blocks"
    /\ blocksDB' = blocksDB \cup {inserting}
    /\ step' = "extras"
    /\ UNCHANGED <<detailsDB, childrenDB, hashDB, bestDB, m_lastBlockHash, m_blockHashes,
                   inserting, reading, counterVars>>

\* The number hashes of the batch.
HashBatch(b) ==
    [n \in Numbers |->
        IF Better(b) /\ (\E h \in Fresh(b) : Number[h] = n)
        THEN CHOOSE h \in Fresh(b) : Number[h] = n
        ELSE hashDB[n]]

\* Mutant: the parent's details are not updated.
NoChild(b) == childrenDB
WithChild(b) == [childrenDB EXCEPT ![Parent[b]] = Append(@, b)]

CommitExtras ==
    /\ step = "extras"
    /\ detailsDB' = detailsDB \cup {inserting}
    /\ childrenDB' = WithChild(inserting)
    /\ hashDB' = HashBatch(inserting)
    /\ step' = "best"
    /\ UNCHANGED <<blocksDB, bestDB, m_lastBlockHash, m_blockHashes, inserting, reading,
                   counterVars>>

SetBest ==
    /\ step = "best"
    /\ IF Better(inserting) THEN m_lastBlockHash' = inserting /\ bestDB' = inserting
                            ELSE UNCHANGED <<m_lastBlockHash, bestDB>>
    /\ inserting' = NoHash /\ step' = "idle"
    /\ UNCHANGED <<blocksDB, detailsDB, childrenDB, hashDB, m_blockHashes, reading, counterVars>>

\* rewind(n), which looks its new head up through the cache.
Rewind(n) ==
    /\ step = "idle" /\ rewinds < MaxRewinds
    /\ n < m_lastBlockNumber
    /\ LET c == Cleared(m_blockHashes, n + 1)
           head == NumberHash(c, n)
       IN  /\ m_lastBlockHash' = head /\ bestDB' = head
           /\ m_blockHashes' = IF n = 0 THEN c ELSE [c EXCEPT ![n] = head]
    /\ rewinds' = rewinds + 1
    /\ UNCHANGED <<blocksDB, detailsDB, childrenDB, hashDB, inserting, step, reading, crashes>>

-----------------------------------------------------------------------------
\* queryExtras on another thread: on a miss the database is read without a lock ...
LookupHash(r, n) ==
    /\ reading[r] = NotReading
    /\ m_blockHashes[n] = NoHash /\ hashDB[n] # NoHash
    /\ reading' = [reading EXCEPT ![r] = [number |-> n, hash |-> hashDB[n]]]
    /\ UNCHANGED <<diskVars, m_lastBlockHash, m_blockHashes, inserting, step, counterVars>>

\* ... and what it gave is cached, unless the number is cached meanwhile.
CacheHash(r) ==
    /\ reading[r] # NotReading
    /\ LET n == reading[r].number
       IN  m_blockHashes' = [m_blockHashes EXCEPT ![n] = IF @ = NoHash THEN reading[r].hash ELSE @]
    /\ reading' = [reading EXCEPT ![r] = NotReading]
    /\ UNCHANGED <<diskVars, m_lastBlockHash, inserting, step, counterVars>>

\* The process stops, at any point, and open() runs.
Crash ==
    /\ crashes < MaxCrashes
    /\ m_lastBlockHash' = IF bestDB = NoHash THEN Genesis ELSE bestDB
    /\ m_blockHashes' = Nothing
    /\ inserting' = NoHash /\ step' = "idle"
    /\ reading' = [r \in Readers |-> NotReading]
    /\ crashes' = crashes + 1
    /\ UNCHANGED <<diskVars, rewinds>>

Next ==
    \/ \E b \in Blocks : StartInsert(b)
    \/ CommitBlocks \/ CommitExtras \/ SetBest
    \/ \E n \in Numbers \cup {0} : Rewind(n)
    \/ \E r \in Readers : CacheHash(r) \/ \E n \in Numbers : LookupHash(r, n)
    \/ Crash

Spec == Init /\ [][Next]_vars

-----------------------------------------------------------------------------
Stored == {Genesis} \cup (blocksDB \cap detailsDB)

\* The type of the state.
TypeOK ==
    /\ blocksDB \subseteq Blocks /\ detailsDB \subseteq Hash
    /\ childrenDB \in [Hash -> Seq(Blocks)]
    /\ hashDB \in [Numbers -> Hash \cup {NoHash}] /\ bestDB \in Hash \cup {NoHash}
    /\ m_lastBlockHash \in Hash /\ m_blockHashes \in [Numbers -> Hash \cup {NoHash}]
    /\ inserting \in Blocks \cup {NoHash} /\ step \in {"idle", "blocks", "extras", "best"}
    /\ reading \in [Readers -> [number : Numbers \cup {0}, hash : Hash \cup {NoHash}]]
    /\ crashes \in 0..MaxCrashes /\ rewinds \in 0..MaxRewinds

\* Whenever the process stops, what the disk refers to is on the disk: the best
\* hash, the hash of every number, and the parent and body of every block that
\* has details.  open() and details() rely on it after a restart.
Durable ==
    /\ bestDB \in Stored \cup {NoHash}
    /\ \A n \in Numbers : hashDB[n] \in Stored \cup {NoHash}
    /\ \A b \in detailsDB \ {Genesis} : b \in blocksDB /\ Parent[b] \in detailsDB

\* checkConsistency(): a block with details is a child in its parent's details.
ChildrenListed ==
    \A b \in detailsDB \ {Genesis} : \E i \in DOMAIN childrenDB[Parent[b]] : childrenDB[Parent[b]][i] = b

\* Every number up to the last block's has an entry, however often the process
\* stops and rewinds: numberHash never gives the null hash for a block that exists.
NumbersCovered ==
    \A n \in Numbers : n <= m_lastBlockNumber => hashDB[n] # NoHash

\* As long as the process has not stopped and nothing was rewound, the last
\* block is as heavy as any stored one, in any order of arrival.
LastIsHeaviest ==
    crashes = 0 /\ rewinds = 0 /\ step = "idle" =>
        \A b \in detailsDB : TotalDifficulty[b] <= TotalDifficulty[m_lastBlockHash]

\* The hash of every number up to the last block's is on the last block's line.
IndexOnLine ==
    \A n \in Numbers : n <= m_lastBlockNumber => hashDB[n] \in Line[m_lastBlockHash]

\* Without a stop or a rewind, the index follows every reorganisation.
IndexFollows == crashes = 0 /\ rewinds = 0 /\ step = "idle" => IndexOnLine

\* All data BlockChain gives is "disk-backed": between two imports the index on
\* disk is that of the chain, also after a restart.
IndexSurvives == step = "idle" => IndexOnLine

\* BlockChain is "threadsafe": what numberHash gives between two imports is
\* what is on disk.
CacheCoherent ==
    step = "idle" =>
        \A n \in Numbers : n <= m_lastBlockNumber => NumberHash(m_blockHashes, n) = hashDB[n]

\* The database keeps the promise of ChainPromise: imports are atomic to its
\* users, the head never moves to a lighter block or to one that is not stored
\* except by a rewind, and a restart shows the head of before the stop.
Promise == INSTANCE ChainPromise WITH stored <- detailsDB, head <- m_lastBlockHash
KeepsPromise == Promise!Spec
=============================================================================
