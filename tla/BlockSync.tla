------------------------------- MODULE BlockSync -------------------------------
(***************************************************************************)
(* The block queue at work: peers and the sealer import blocks, verifier   *)
(* threads verify them, and the client thread (Client::doWork) runs        *)
(* BlockChain::sync, which drains the queue, imports each block into the   *)
(* chain and reports the rejected ones with doneDrain.  The flag           *)
(* m_syncBlockQueue is what wakes the client thread: the queue's onReady   *)
(* signal sets it, and syncBlockQueue overwrites it with the result of     *)
(* doneDrain.                                                              *)
(***************************************************************************)
EXTENDS BlockQueue

CONSTANTS
    Enactable,      \* blocks that pass InOrderChecks and enactment
    TotalDifficulty,\* TotalDifficulty[b]: of b and all its ancestors
    Flaky,          \* blocks whose enactment can end in BadRoot, a TransientError
    Ours,           \* blocks this node seals itself
    MaxSync,        \* bound: m_syncAmount, the blocks drained at once
    MaxTime         \* bound: the clock

ASSUME SyncAssumption ==
    /\ Enactable \subseteq Blocks /\ Flaky \subseteq Blocks /\ Ours \subseteq Blocks
    /\ MaxSync \in Nat \ {0} /\ MaxTime \in Nat
ASSUME TotalAssumption ==
    /\ TotalDifficulty \in [Blocks -> Nat]
    /\ \A b \in Blocks :
          /\ Parent[b] \in Blocks =>
                TotalDifficulty[b] = TotalDifficulty[Parent[b]] + Difficulty[b]
          /\ Parent[b] = Genesis => TotalDifficulty[b] = Difficulty[b]

VARIABLES
    client,             \* where the client thread is
    m_syncBlockQueue,   \* the flag that has it call syncBlockQueue
    batch,              \* the drained blocks it has yet to import, in BlockChain::sync
    badBlocks,          \* the drained blocks the chain rejected
    moreReady,          \* the result of doneDrain, before it is stored in the flag
    todo,               \* past-future blocks tick() has yet to import
    now                 \* utcTime()

clientVars == <<client, m_syncBlockQueue, batch, badBlocks, moreReady, todo>>
vars == <<queueStateVars, clientVars, now>>

Init ==
    /\ QueueInit
    /\ client = "idle" /\ m_syncBlockQueue = FALSE
    /\ batch = <<>> /\ badBlocks = <<>> /\ moreReady = FALSE /\ todo = <<>>
    /\ now = 0

\* A block from a peer, or a sealed one of ours (Client::submitSealed).
Receive(b) ==
    /\ Import(b, b \in Ours, now)
    /\ UNCHANGED <<clientVars, now>>

Verifier(v) ==
    /\ Take(v) \/ VerifyFailed(v) \/ VerifiedInTurn(v) \/ VerifiedOutOfTurn(v)
    /\ UNCHANGED <<clientVars, now>>

\* m_onReady(), after the verifier has released its locks.
OnReady(v) ==
    /\ v \in signalled
    /\ signalled' = signalled \ {v}
    /\ m_syncBlockQueue' = TRUE
    /\ UNCHANGED <<setVars, queueVars, difficultyVars, m_updateBad, work, chain,
                   m_lastBlockHash, client, batch, badBlocks, moreReady, todo, now>>

UpdateBad == UpdateBadPass /\ UNCHANGED <<clientVars, now>>

\* doWork: compare_exchange of the flag, then BlockChain::sync.
StartSync ==
    /\ client = "idle" /\ m_syncBlockQueue /\ todo = <<>>
    /\ m_syncBlockQueue' = FALSE
    /\ client' = "drain"
    /\ UNCHANGED <<queueStateVars, batch, badBlocks, moreReady, todo, now>>

SyncDrain ==
    /\ client = "drain"
    /\ \E max \in 1..MaxSync :
          LET n == IF max < Len(m_verified) THEN max ELSE Len(m_verified)
          IN  Drain(n) /\ batch' = SubSeq(m_verified, 1, n)
    /\ client' = "import"
    /\ UNCHANGED <<m_syncBlockQueue, badBlocks, moreReady, todo, now>>

(***************************************************************************)
(* The head after the chain has stored b: b when it is heavier.  On a tie  *)
(* the gas used may decide for b, if the chain parameters say so; gas is   *)
(* abstracted, so either may be the head.                                  *)
(***************************************************************************)
TotalOf(h) == IF h = Genesis THEN 0 ELSE TotalDifficulty[h]
HeadAfter(b) ==
    \/ TotalOf(b) >= TotalOf(m_lastBlockHash) /\ m_lastBlockHash' = b
    \/ TotalOf(b) <= TotalOf(m_lastBlockHash) /\ UNCHANGED m_lastBlockHash

(***************************************************************************)
(* BlockChain::import of the next drained block, and the handlers of sync. *)
(* AlreadyHaveBlock, FutureTime and TransientError "continue" a            *)
(* do ... while (false): the block is passed over.  The parent need not be *)
(* current, only stored.                                                   *)
(***************************************************************************)
PassedOver(b) == KnownBlock(b) \/ (Stored(Parent[b]) /\ Timestamp[b] > now)
Rejected(b) == ~KnownBlock(b) /\ (~Stored(Parent[b]) \/ b \notin Enactable)
SyncImport ==
    /\ client = "import" /\ batch # <<>>
    /\ LET b == Head(batch)
       IN  \/ /\ PassedOver(b) \/ (b \in Flaky /\ ~Rejected(b))
              /\ UNCHANGED <<chain, m_lastBlockHash, badBlocks>>
           \/ /\ Rejected(b) /\ ~PassedOver(b)
              /\ badBlocks' = Append(badBlocks, b)
              /\ UNCHANGED <<chain, m_lastBlockHash>>
           \/ /\ ~Rejected(b) /\ ~PassedOver(b)
              /\ chain' = chain \cup {b}
              /\ HeadAfter(b)
              /\ UNCHANGED badBlocks
    /\ batch' = Tail(batch)
    /\ UNCHANGED <<setVars, queueVars, difficultyVars, m_updateBad, threadVars,
                   client, m_syncBlockQueue, moreReady, todo, now>>

SyncDone ==
    /\ client = "import" /\ batch = <<>>
    /\ DoneDrain(badBlocks)
    /\ client' = "doneDrain"
    /\ badBlocks' = <<>>
    /\ UNCHANGED <<m_syncBlockQueue, batch, moreReady, todo, now>>

\* doneDrain returns, once updateBad_WITH_LOCK is over: !m_readySet.empty().
DoneDrainReturn ==
    /\ client = "doneDrain" /\ LockFree
    /\ moreReady' = (m_readySet # {})
    /\ client' = "assign"
    /\ UNCHANGED <<queueStateVars, m_syncBlockQueue, batch, badBlocks, todo, now>>

\* tie(ir, m_syncBlockQueue, count) = ...
SyncAssign ==
    /\ client = "assign"
    /\ m_syncBlockQueue' = moreReady
    /\ moreReady' = FALSE
    /\ client' = "idle"
    /\ UNCHANGED <<queueStateVars, batch, badBlocks, todo, now>>

\* Client::tick: the blocks whose time has come are imported one by one.
Tick ==
    /\ client = "idle" /\ todo = <<>>
    /\ TakePastFuture(now)
    /\ todo' = SubSeq(m_future, 1, PastFuture(now))
    /\ UNCHANGED <<client, m_syncBlockQueue, batch, badBlocks, moreReady, now>>

TickImport ==
    /\ todo # <<>>
    /\ \/ Import(Head(todo), FALSE, now)
       \/ ~ImportNew(Head(todo)) /\ LockFree /\ UNCHANGED queueStateVars
    /\ todo' = Tail(todo)
    /\ UNCHANGED <<client, m_syncBlockQueue, batch, badBlocks, moreReady, now>>

Clock ==
    /\ now < MaxTime
    /\ now' = now + 1
    /\ UNCHANGED <<queueStateVars, clientVars>>

\* The blocks below h on its branch, Genesis included.
AncestorsOf(h) ==
    LET Below(S) == \A b \in Blocks : b \in S \cup {h} => Parent[b] \in S
    IN  {a \in Blocks \cup {Genesis} :
            \A S \in SUBSET (Blocks \cup {Genesis}) : Below(S) => a \in S}

\* BlockChain::rewind, which Client::rewind has the client thread run; the
\* blocks above the new head stay stored.  The index of numbers it reads is
\* taken to be the head's; BlockChain models where it is not.
Rewind ==
    /\ client = "idle" /\ todo = <<>>
    /\ m_lastBlockHash' \in AncestorsOf(m_lastBlockHash)
    /\ UNCHANGED <<setVars, queueVars, difficultyVars, m_updateBad, threadVars, chain,
                   clientVars, now>>

\* BlockChainSync::restartSync and the end of Client::rewind, from other threads.
SyncRestart == Clear /\ UNCHANGED <<clientVars, now>>
\* Client::retryUnknown.
RetryUnknown == RetryAllUnknown /\ UNCHANGED <<clientVars, now>>

ClientThread ==
    \/ StartSync \/ SyncDrain \/ SyncImport \/ SyncDone \/ DoneDrainReturn \/ SyncAssign
    \/ Tick \/ TickImport

\* Without rewinds, restarts and forced retries.
SteadyNext ==
    \/ \E b \in Blocks : Receive(b)
    \/ \E v \in Verifiers : Verifier(v) \/ OnReady(v)
    \/ UpdateBad
    \/ ClientThread
    \/ Clock

Next == SteadyNext \/ Rewind \/ SyncRestart \/ RetryUnknown

Fairness ==
    /\ \A v \in Verifiers : WF_vars(Verifier(v)) /\ WF_vars(OnReady(v))
    /\ WF_vars(UpdateBad)
    /\ WF_vars(ClientThread)
    /\ WF_vars(Clock)

Spec == Init /\ [][Next]_vars
SteadySpec == Init /\ [][SteadyNext]_vars
FairSteadySpec == SteadySpec /\ Fairness

-----------------------------------------------------------------------------
QueueTypeOK ==
    /\ m_readySet \subseteq Blocks /\ m_drainingSet \subseteq Blocks
    /\ m_unknown \subseteq Blocks /\ m_knownBad \subseteq Hash
    /\ m_future \in Seq(Blocks)
    /\ m_verified \in Seq(Blocks) /\ m_verifying \in Seq(VerifyingEntry)
    /\ m_unverified \in Seq(Blocks)
    /\ m_difficulty \in Int /\ m_drainingDifficulty \in Nat
    /\ m_updateBad \in Seq(Blocks)
    /\ work \in [Verifiers -> Blocks \cup {NoBlock}]
    /\ signalled \subseteq Verifiers
    /\ chain \subseteq Blocks /\ m_lastBlockHash \in Blocks \cup {Genesis}

ClientTypeOK ==
    /\ client \in {"idle", "drain", "import", "doneDrain", "assign"}
    /\ m_syncBlockQueue \in BOOLEAN /\ moreReady \in BOOLEAN
    /\ batch \in Seq(Blocks) /\ badBlocks \in Seq(Blocks) /\ todo \in Seq(Blocks)
    /\ now \in Nat

\* The type of the state: every container of the queue holds blocks, the
\* known-bad set hashes, a verifier thread a block or nothing.
TypeOK == QueueTypeOK /\ ClientTypeOK

(***************************************************************************)
(* What always holds, restarts and retries included.                       *)
(***************************************************************************)
\* A block is in at most one place of the verification pipeline, so no block
\* is verified twice for one import (the AlreadyKnown test of import()).
QueuedOnce ==
    /\ Distinct(m_verified) /\ Distinct(HashesOf(m_verifying)) /\ Distinct(m_unverified)
    /\ RangeOf(m_verified) \cap VerifyingHashes = {}
    /\ RangeOf(m_verified) \cap RangeOf(m_unverified) = {}
    /\ VerifyingHashes \cap RangeOf(m_unverified) = {}

\* A block in the pipeline is known to import(): it is in m_readySet, or in
\* m_knownBad where a verifier or updateBad_WITH_LOCK has put it meanwhile.
QueuedKnown == Queued \subseteq m_readySet \cup m_knownBad

\* A block that waits for its parent is not in the pipeline as well.
UnknownNotQueued == m_unknown \cap Queued = {}

\* An unfinished placeholder of m_verifying belongs to a verifier that is
\* still at work on it: verifierBody always answers for the job it took.
JobsOwned ==
    \A e \in RangeOf(m_verifying) : ~e.done => \E v \in Verifiers : work[v] = e.hash

\* Only a block whose out-of-order checks passed is handed to the chain,
\* whoever finished the job and whatever was cleared in between.
OnlyVerified ==
    /\ RangeOf(m_verified) \subseteq SealValid
    /\ RangeOf(batch) \subseteq SealValid
    /\ chain \subseteq SealValid
    /\ \A e \in RangeOf(m_verifying) : e.done => e.hash \in SealValid

SumOver(S) ==
    LET s == CHOOSE f \in Orderings(S) : TRUE IN SumDifficulty(s)
HeldDifficulty ==
    SumOver(Queued) + SumOver(m_drainingSet) + SumOver(m_unknown) + SumDifficulty(m_future)

\* m_difficulty, which BlockChainSync adds to the chain's own difficulty to
\* decide whether a peer is worth syncing with, covers every block held, and
\* what doneDrain subtracts from this u256, so that it never wraps.
DifficultyCovers ==
    m_difficulty >= HeldDifficulty /\ m_difficulty >= m_drainingDifficulty

(***************************************************************************)
(* What holds as long as nothing is rejected, cleared or retried by force. *)
(***************************************************************************)
\* BlockQueue::invariants(): the ready set counts the three queues.
QueueInvariants ==
    LockFree =>
        Cardinality(m_readySet) = Len(m_verified) + Len(m_verifying) + Len(m_unverified)

\* The pipeline from its end to its start: what will be drained next comes first.
Pipeline ==
    m_verified \o HashesOf(m_verifying) \o m_unverified

\* drain() gives blocks "in the correct order for insertion into the chain":
\* a block's parent is in the chain, being imported, or ahead of it.
InOrder ==
    \A i \in DOMAIN Pipeline :
        LET p == Parent[Pipeline[i]]
        IN  \/ Stored(p) \/ p \in m_knownBad
            \/ p \in RangeOf(batch)
            \/ \E j \in 1..(i - 1) : Pipeline[j] = p

\* A longer branch is a heavier one, as it is while the difficulty stays the
\* same: the head is then the highest block stored.
LongerIsHeavier ==
    \A a, b \in Blocks \cup {Genesis} : NumberOf(a) > NumberOf(b) => TotalOf(a) > TotalOf(b)

\* m_unknown holds the blocks "whose parents are not ready/in-chain": a block
\* waits there only for a parent whose import() will release it.
UnknownWaits ==
    LockFree =>
        \A u \in m_unknown :
            Parent[u] \notin m_readySet \cup m_drainingSet \cup chain \cup m_knownBad

\* The blocks that can never be in the chain: rejected, or below one that is.
NeverValid ==
    {b \in Blocks :
        \A S \in SUBSET Blocks :
            (\A c \in Blocks : (c \notin SealValid \cap Enactable \/ Parent[c] \in S) => c \in S)
            => b \in S}

\* m_knownBad is the "set of blocks that we know will never be valid".
KnownBadSound == m_knownBad \subseteq NeverValid

\* The pipeline never stalls: a block that waits for a verifier is verified,
\* and comes out in its turn, whatever the order in which verifiers finish.
PipelineFlows ==
    \A b \in Blocks :
        b \in RangeOf(m_unverified)
            ~> b \in RangeOf(m_verified) \cup RangeOf(batch) \cup chain \cup m_knownBad

\* A verified block is taken by the client: no wake-up is lost.
VerifiedDrained == (m_verified # <<>>) ~> (m_verified = <<>>)

\* A block of the future is imported when its time has come.
FutureImported == \A b \in Blocks : b \in RangeOf(m_future) ~> b \notin RangeOf(m_future)
=============================================================================
