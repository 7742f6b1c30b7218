------------------------------ MODULE BlockQueue ------------------------------
(***************************************************************************)
(* The block queue of libwing (BlockQueue.cpp, BlockQueue.h): the buffer   *)
(* between the network and the chain.  A block that arrives is classified  *)
(* by import() as ready, of unknown parent, in the future or bad; ready    *)
(* blocks pass through three queues, m_unverified, m_verifying and         *)
(* m_verified, moved along by a pool of verifier threads; the client       *)
(* thread drains m_verified into the chain.                                *)
(*                                                                         *)
(* Two locks protect the state.  m_lock guards the sets; m_verification    *)
(* guards the three queues.  Every operation below holds m_lock from its   *)
(* first read to its last write, except a verifier taking a job, which     *)
(* holds m_verification only and reads and writes nothing but the two      *)
(* queues.  Each critical section is therefore one action.  The exception  *)
(* is updateBad_WITH_LOCK, a loop: m_updateBad holds the hashes it was     *)
(* called for, each pass of the loop is an action, and while it is not     *)
(* empty both locks are held and no other operation runs.                  *)
(*                                                                         *)
(* A block is identified with its header hash.  A block in the three       *)
(* queues is its hash, except in m_verifying, where a placeholder, whose   *)
(* sha3Uncles field carries the hash of the block being verified, differs  *)
(* from a finished block.  m_unknown maps a parent hash to the blocks that *)
(* wait for it; since Parent is a constant it is the set of those blocks,  *)
(* and it stands for m_unknownSet too, which is changed with it everywhere.*)
(***************************************************************************)
EXTENDS QueueOps

CONSTANTS
    Blocks,         \* the blocks that can arrive
    Genesis,        \* parent of the first blocks, always in the chain
    Parent,         \* Parent[b]: the parentHash field of b
    Number,         \* Number[b]: the number field of b
    Timestamp,      \* Timestamp[b]: the timestamp field of b
    Difficulty,     \* Difficulty[b]: the difficulty field of b
    SealValid,      \* the blocks that pass ImportRequirements::OutOfOrderChecks
    Verifiers,      \* the verifier threads
    NoBlock,        \* a verifier thread without a job
    EmptyListSHA3,  \* sha3Uncles of every finished block
    MaxFuture       \* bound: entries m_future may hold

ASSUME BlocksAssumption ==
    /\ IsFiniteSet(Blocks)
    /\ Genesis \notin Blocks /\ NoBlock \notin Blocks /\ EmptyListSHA3 \notin Blocks
    /\ EmptyListSHA3 # Genesis
ASSUME HeaderAssumption ==
    /\ Parent \in [Blocks -> Blocks \cup {Genesis}]
    /\ Number \in [Blocks -> Nat]
    /\ \A b \in Blocks :
          /\ Parent[b] \in Blocks => Number[b] = Number[Parent[b]] + 1
          /\ Parent[b] = Genesis => Number[b] = 1
    /\ Timestamp \in [Blocks -> Nat]
    /\ Difficulty \in [Blocks -> Nat]
    /\ SealValid \subseteq Blocks
ASSUME BoundAssumption == MaxFuture \in Nat

VARIABLES
    m_readySet, m_drainingSet, m_unknown, m_knownBad, m_future,
    m_verified, m_verifying, m_unverified,
    m_difficulty, m_drainingDifficulty,
    m_updateBad,    \* the calls of updateBad_WITH_LOCK in progress; <<>>: m_lock is free
    work,           \* work[v]: the block verifier v has taken, in verifierBody
    signalled,      \* verifiers that have finished their block and not yet called m_onReady
    chain,          \* the blocks stored in the chain's database, with their details
    m_lastBlockHash \* the head of the chain

setVars == <<m_readySet, m_drainingSet, m_unknown, m_knownBad, m_future>>
queueVars == <<m_verified, m_verifying, m_unverified>>
difficultyVars == <<m_difficulty, m_drainingDifficulty>>
threadVars == <<work, signalled>>
queueStateVars == <<setVars, queueVars, difficultyVars, m_updateBad, threadVars,
                    chain, m_lastBlockHash>>

Hash == Blocks \cup {EmptyListSHA3}

(***************************************************************************)
(* A member of m_verifying: a placeholder while blockData is empty.        *)
(***************************************************************************)
VerifyingEntry == [hash : Blocks, done : BOOLEAN]
Sha3Uncles(e) == IF e.done THEN EmptyListSHA3 ELSE e.hash

HashesOf(q) == [i \in DOMAIN q |-> q[i].hash]
VerifyingHashes == RangeOf(HashesOf(m_verifying))
Queued == RangeOf(m_verified) \cup VerifyingHashes \cup RangeOf(m_unverified)

LockFree == m_updateBad = <<>>

-----------------------------------------------------------------------------
(***************************************************************************)
(* SizedBlockQueue::removeIf.  std::remove_if moves the members to keep to *)
(* the front and leaves, past them, the tail of the old queue: members     *)
(* that were moved from keep their header and lose their blockData.        *)
(* removeIf returns that tail, not the members that satisfied the          *)
(* predicate.  I is the set of positions whose members satisfy it.         *)
(***************************************************************************)
RemoveIf(q, I) == KeptAt(q, DOMAIN q \ I)
ReturnedIndices(q, I) == (Cardinality(DOMAIN q \ I) + 1)..Len(q)

(***************************************************************************)
(* The blocks of m_unknown that descend from h through blocks of           *)
(* m_unknown: the least set closed under "waits for h or for a member".    *)
(***************************************************************************)
OnlyChildrenWait(unknown, h) == {u \in unknown : Parent[u] = h}
WaitsFor(unknown, h) ==
    LET Closed(S) == \A u \in unknown : Parent[u] \in S \cup {h} => u \in S
    IN  {u \in unknown : \A S \in SUBSET unknown : Closed(S) => u \in S}

\* The blocks that wait for some member of H: collectUnknownBad_WITH_BOTH_LOCKS
\* called for each of them.
WaitsForAny(unknown, H) == UNION {WaitsFor(unknown, h) : h \in H}

(***************************************************************************)
(* The orders in which noteReady_WITH_LOCK can append S to m_unverified:   *)
(* breadth first, so by number; the order of siblings is that of the       *)
(* multimap, left open.                                                    *)
(***************************************************************************)
AnyOrder(S) == Orderings(S)
BreadthFirst(S) ==
    {s \in Orderings(S) : \A i, j \in DOMAIN s : i < j => Number[s[i]] <= Number[s[j]]}

(***************************************************************************)
(* drainVerified_WITH_BOTH_LOCKS: finished blocks leave the front of       *)
(* m_verifying for m_verified, or for m_knownBad when their parent is bad  *)
(* by then.  FinishedPrefix is the number of blocks that leave; a block is *)
(* bad when some block before it in the prefix that starts from a member   *)
(* of bad leads to it.                                                     *)
(***************************************************************************)
WholeQueue(q) == Len(q)
FinishedPrefix(q) ==
    CHOOSE n \in 0..Len(q) : /\ \A i \in 1..n : q[i].done
                             /\ n < Len(q) => ~q[n + 1].done
DrainBad(q, n, bad) ==
    LET H == {q[i].hash : i \in 1..n}
        Before(i) == {q[j].hash : j \in 1..(i - 1)}
        Closed(S) == \A i \in 1..n :
            Parent[q[i].hash] \in bad \cup (S \cap Before(i)) => q[i].hash \in S
    IN  {h \in H : \A S \in SUBSET H : Closed(S) => h \in S}

(***************************************************************************)
(* The pipeline after drainVerified, from m_verifying = q and              *)
(* m_knownBad = bad and m_readySet = ready.                                *)
(***************************************************************************)
DrainVerified(q, bad, ready) ==
    LET n == FinishedPrefix(q)
        B == DrainBad(q, n, bad)
        good == RemoveIf(SubSeq(q, 1, n), {i \in 1..n : q[i].hash \in B})
    IN  /\ m_verifying' = SubSeq(q, n + 1, Len(q))
        /\ m_verified' = m_verified \o HashesOf(good)
        /\ m_knownBad' = bad \cup B
        /\ m_readySet' = ready \ B

-----------------------------------------------------------------------------
QueueInit ==
    /\ m_readySet = {} /\ m_drainingSet = {} /\ m_unknown = {} /\ m_knownBad = {}
    /\ m_future = <<>>
    /\ m_verified = <<>> /\ m_verifying = <<>> /\ m_unverified = <<>>
    /\ m_difficulty = 0 /\ m_drainingDifficulty = 0
    /\ m_updateBad = <<>>
    /\ work = [v \in Verifiers |-> NoBlock]
    /\ signalled = {}
    /\ chain = {} /\ m_lastBlockHash = Genesis

(***************************************************************************)
(* BlockChain::isKnown(h, false): h is stored; isKnown(h), with _isCurrent *)
(* true by default: it is stored and no higher than the head.  The two     *)
(* differ for a branch longer and lighter than the head's, and after a     *)
(* rewind.                                                                 *)
(***************************************************************************)
NumberOf(h) == IF h = Genesis THEN 0 ELSE Number[h]
Stored(h) == h = Genesis \/ h \in chain
KnownBlock(h) ==
    h = Genesis \/ (h \in chain /\ Number[h] <= NumberOf(m_lastBlockHash))
ParentUnknown(b) == /\ Parent[b] \notin m_readySet
                    /\ Parent[b] \notin m_drainingSet
                    /\ ~KnownBlock(Parent[b])

(***************************************************************************)
(* import(): the early returns AlreadyKnown, Malformed and AlreadyInChain  *)
(* change nothing and are steps of no action.                              *)
(***************************************************************************)
ImportUnlessHeld(b) ==
    LockFree /\ b \notin m_drainingSet \cup m_unknown \cup m_knownBad /\ ~KnownBlock(b)
ImportNew(b) ==
    /\ LockFree
    /\ b \notin m_readySet \cup m_drainingSet \cup m_unknown \cup m_knownBad
    /\ ~KnownBlock(b)

SetDifficulty(b) == m_difficulty' = Difficulty[b]
AddDifficulty(b) == m_difficulty' = m_difficulty + Difficulty[b]

\* m_future is a multimap: an equal timestamp goes after those already there.
InsertFuture(b) ==
    LET k == Cardinality({i \in DOMAIN m_future : Timestamp[m_future[i]] <= Timestamp[b]})
    IN  SubSeq(m_future, 1, k) \o <<b>> \o SubSeq(m_future, k + 1, Len(m_future))

ImportFuture(b, now) ==
    /\ ImportNew(b)
    /\ Timestamp[b] > now
    /\ Len(m_future) < MaxFuture
    /\ m_future' = InsertFuture(b)
    /\ AddDifficulty(b)
    /\ UNCHANGED <<m_readySet, m_drainingSet, m_unknown, m_knownBad, queueVars,
                   m_drainingDifficulty, m_updateBad, threadVars, chain, m_lastBlockHash>>

ImportBadChain(b) ==
    /\ ImportNew(b)
    /\ Parent[b] \in m_knownBad
    /\ m_knownBad' = m_knownBad \cup {b}
    /\ m_updateBad' = <<b>>
    /\ UNCHANGED <<m_readySet, m_drainingSet, m_unknown, m_future, queueVars,
                   difficultyVars, threadVars, chain, m_lastBlockHash>>

ImportUnknownParent(b) ==
    /\ ImportNew(b)
    /\ Parent[b] \notin m_knownBad
    /\ ParentUnknown(b)
    /\ m_unknown' = m_unknown \cup {b}
    /\ AddDifficulty(b)
    /\ UNCHANGED <<m_readySet, m_drainingSet, m_knownBad, m_future, queueVars,
                   m_drainingDifficulty, m_updateBad, threadVars, chain, m_lastBlockHash>>

OnlyBlockReady(b, released) == m_readySet \cup {b}
ReadyWith(b, released) == m_readySet \cup {b} \cup released

\* The block and, by noteReady_WITH_LOCK, the blocks that wait for it.
ImportReady(b) ==
    /\ ImportNew(b)
    /\ Parent[b] \notin m_knownBad
    /\ ~ParentUnknown(b)
    /\ LET released == WaitsFor(m_unknown, b)
       IN  /\ \E s \in BreadthFirst(released) :
                 m_unverified' = Append(m_unverified, b) \o s
           /\ m_readySet' = ReadyWith(b, released)
           /\ m_unknown' = m_unknown \ released
    /\ AddDifficulty(b)
    /\ UNCHANGED <<m_drainingSet, m_knownBad, m_future, m_verified, m_verifying,
                   m_drainingDifficulty, m_updateBad, threadVars, chain, m_lastBlockHash>>

\* A block that is ours skips the test of its timestamp.
Import(b, isOurs, now) ==
    \/ ~isOurs /\ ImportFuture(b, now)
    \/ /\ isOurs \/ Timestamp[b] <= now
       /\ ImportBadChain(b) \/ ImportUnknownParent(b) \/ ImportReady(b)

-----------------------------------------------------------------------------
(***************************************************************************)
(* verifierBody.  A verifier takes a job, verifies it without a lock and   *)
(* comes back for both locks.                                              *)
(***************************************************************************)
Take(v) ==
    /\ LockFree
    /\ work[v] = NoBlock /\ v \notin signalled
    /\ m_unverified # <<>>
    /\ work' = [work EXCEPT ![v] = Head(m_unverified)]
    /\ m_unverified' = Tail(m_unverified)
    /\ m_verifying' = Append(m_verifying, [hash |-> Head(m_unverified), done |-> FALSE])
    /\ UNCHANGED <<setVars, m_verified, difficultyVars, m_updateBad, signalled,
                   chain, m_lastBlockHash>>

PlaceholdersOf(h) == {i \in DOMAIN m_verifying : Sha3Uncles(m_verifying[i]) = h}

VerifyFailed(v) ==
    /\ LockFree
    /\ work[v] \in Blocks \ SealValid
    /\ DrainVerified(RemoveIf(m_verifying, PlaceholdersOf(work[v])),
                     m_knownBad \cup {work[v]}, m_readySet \ {work[v]})
    /\ work' = [work EXCEPT ![v] = NoBlock]
    /\ UNCHANGED <<m_drainingSet, m_unknown, m_future, m_unverified, difficultyVars,
                   m_updateBad, signalled, chain, m_lastBlockHash>>

\* We're next: the placeholder at the front is our job.
WeAreNext(v) == m_verifying # <<>> /\ Sha3Uncles(Head(m_verifying)) = work[v]

VerifiedInTurn(v) ==
    /\ LockFree
    /\ work[v] \in SealValid
    /\ WeAreNext(v)
    /\ DrainVerified([m_verifying EXCEPT ![1].done = TRUE], m_knownBad, m_readySet)
    /\ work' = [work EXCEPT ![v] = NoBlock]
    /\ signalled' = signalled \cup {v}
    /\ UNCHANGED <<m_drainingSet, m_unknown, m_future, m_unverified, difficultyVars,
                   m_updateBad, chain, m_lastBlockHash>>

\* SizedBlockQueue::replace in m_verifying.
NotReplaced(q, h) == q
Replaced(q, h) ==
    [i \in DOMAIN q |-> IF Sha3Uncles(q[i]) = h THEN [hash |-> h, done |-> TRUE] ELSE q[i]]

\* Out of turn: the result replaces our placeholder, if it is still there.
VerifiedOutOfTurn(v) ==
    /\ LockFree
    /\ work[v] \in SealValid
    /\ ~WeAreNext(v)
    /\ m_verifying' = Replaced(m_verifying, work[v])
    /\ work' = [work EXCEPT ![v] = NoBlock]
    /\ UNCHANGED <<setVars, m_verified, m_unverified, difficultyVars, m_updateBad,
                   signalled, chain, m_lastBlockHash>>

-----------------------------------------------------------------------------
(***************************************************************************)
(* One pass of the loop of updateBad_WITH_LOCK for the call at the front   *)
(* of m_updateBad.  The unknown blocks that wait for a bad one go bad with *)
(* it.  Each removeIf is followed by the marking of what it returned: a    *)
(* block moved from in m_verifying has no blockData left and is reported   *)
(* by its sha3Uncles.                                                      *)
(***************************************************************************)
UpdateBadPass ==
    /\ m_updateBad # <<>>
    /\ LET unknown0 == m_unknown \ WaitsFor(m_unknown, Head(m_updateBad))
           bad0 == m_knownBad \cup WaitsFor(m_unknown, Head(m_updateBad))

           Bad1 == {i \in DOMAIN m_verified :
                        Parent[m_verified[i]] \in bad0 \/ m_verified[i] \in bad0}
           gone1 == {m_verified[i] : i \in ReturnedIndices(m_verified, Bad1)}
           unknown1 == unknown0 \ WaitsForAny(unknown0, gone1)
           bad1 == bad0 \cup gone1 \cup WaitsForAny(unknown0, gone1)

           Bad2 == {i \in DOMAIN m_unverified :
                        Parent[m_unverified[i]] \in bad1 \/ m_unverified[i] \in bad1}
           gone2 == {m_unverified[i] : i \in ReturnedIndices(m_unverified, Bad2)}
           unknown2 == unknown1 \ WaitsForAny(unknown1, gone2)
           bad2 == bad1 \cup gone2 \cup WaitsForAny(unknown1, gone2)

           Bad3 == {i \in DOMAIN m_verifying :
                        Parent[m_verifying[i].hash] \in bad2 \/ Sha3Uncles(m_verifying[i]) \in bad2}
           Reported(i) == IF m_verifying[i].done /\ i \notin Bad3
                          THEN EmptyListSHA3 ELSE m_verifying[i].hash
           gone3 == {Reported(i) : i \in ReturnedIndices(m_verifying, Bad3)}
       IN  /\ m_verified' = RemoveIf(m_verified, Bad1)
           /\ m_unverified' = RemoveIf(m_unverified, Bad2)
           /\ m_verifying' = RemoveIf(m_verifying, Bad3)
           /\ m_unknown' = unknown2 \ WaitsForAny(unknown2, gone3)
           /\ m_knownBad' = bad2 \cup gone3 \cup WaitsForAny(unknown2, gone3)
           /\ m_readySet' = m_readySet \ (gone1 \cup gone2 \cup gone3)
           /\ m_updateBad' = IF gone1 \cup gone2 \cup gone3 = {}
                             THEN Tail(m_updateBad) ELSE m_updateBad
    /\ UNCHANGED <<m_drainingSet, m_future, difficultyVars, threadVars,
                   chain, m_lastBlockHash>>

-----------------------------------------------------------------------------
SumDifficulty(s) == SumOf(Difficulty, s)

\* drain() of n blocks, when no others are being imported.
Drain(n) ==
    /\ LockFree
    /\ m_drainingSet = {}
    /\ LET out == SubSeq(m_verified, 1, n)
       IN  /\ m_drainingSet' = RangeOf(out)
           /\ m_drainingDifficulty' = SumDifficulty(out)
           /\ m_readySet' = m_readySet \ RangeOf(out)
    /\ m_verified' = SubSeq(m_verified, n + 1, Len(m_verified))
    /\ UNCHANGED <<m_unknown, m_knownBad, m_future, m_verifying, m_unverified,
                   m_difficulty, m_updateBad, threadVars, chain, m_lastBlockHash>>

\* doneDrain() with the blocks the chain rejected.
DoneDrain(bad) ==
    /\ LockFree
    /\ m_drainingSet' = {}
    /\ m_difficulty' = m_difficulty - m_drainingDifficulty
    /\ m_drainingDifficulty' = 0
    /\ m_knownBad' = m_knownBad \cup RangeOf(bad)
    /\ m_updateBad' = bad
    /\ UNCHANGED <<m_readySet, m_unknown, m_future, queueVars, threadVars,
                   chain, m_lastBlockHash>>

Clear ==
    /\ LockFree
    /\ m_readySet' = {} /\ m_drainingSet' = {} /\ m_unknown' = {} /\ m_future' = <<>>
    /\ m_verified' = <<>> /\ m_verifying' = <<>> /\ m_unverified' = <<>>
    /\ m_difficulty' = 0 /\ m_drainingDifficulty' = 0
    /\ UNCHANGED <<m_knownBad, m_updateBad, threadVars, chain, m_lastBlockHash>>

(***************************************************************************)
(* retryAllUnknown: all of m_unknown is appended, in the order of the keys *)
(* of the multimap, the parent hashes: any order, siblings together.       *)
(***************************************************************************)
GroupedByParent(s) ==
    \A i, j, k \in DOMAIN s :
        i < j /\ j < k /\ Parent[s[i]] = Parent[s[k]] => Parent[s[j]] = Parent[s[i]]
RetryAllUnknown ==
    /\ LockFree
    /\ m_unknown # {}
    /\ \E s \in Orderings(m_unknown) :
          GroupedByParent(s) /\ m_unverified' = m_unverified \o s
    /\ m_readySet' = m_readySet \cup m_unknown
    /\ m_unknown' = {}
    /\ UNCHANGED <<m_drainingSet, m_knownBad, m_future, m_verified, m_verifying,
                   difficultyVars, m_updateBad, threadVars, chain, m_lastBlockHash>>

\* The part of tick() that holds m_lock: the blocks whose time has come.
BeforeNow(now) == Cardinality({i \in DOMAIN m_future : Timestamp[m_future[i]] < now})
PastFuture(now) == Cardinality({i \in DOMAIN m_future : Timestamp[m_future[i]] <= now})
TakePastFuture(now) ==
    /\ LockFree
    /\ PastFuture(now) > 0
    /\ m_future' = SubSeq(m_future, PastFuture(now) + 1, Len(m_future))
    /\ UNCHANGED <<m_readySet, m_drainingSet, m_unknown, m_knownBad, queueVars,
                   difficultyVars, m_updateBad, threadVars, chain, m_lastBlockHash>>
=============================================================================
