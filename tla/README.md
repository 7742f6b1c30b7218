# kmdx: a verification project

kmdx is a C++ blockchain node: the `aleth` code base (here `libwing`,
`libdevcore`, `libp2p`, `libevm`, ...) with a Tendermint consensus being ported
beside it (`libtm`). This directory holds TLA+ modules translated from its
source, TLC configurations that check them on small instances, and theorems
about them with proofs checked by TLAPS. All paths below are relative to `src/`.

## 1. Inventory

| Component | State it keeps | Operations | Talks to | What makes it correct |
|---|---|---|---|---|
| `libwing/BlockQueue` | ready, draining, unknown, known-bad sets; three queues (unverified, verifying, verified); future blocks; difficulty counters | `import`, `verifierBody` (a pool of threads), `updateBad`, `drain`, `doneDrain`, `clear`, `retryAllUnknown`, `tick` | network threads call `import`; the client thread drains; `m_onReady` signals `Client`; asks `BlockChain::isKnown` | a block is queued once, comes out verified and after its parent, is bad only if it can never be valid, and eventually comes out |
| `libwing/Client` | `m_syncBlockQueue`, `m_syncTransactionQueue`, `m_syncAmount`, the `preSeal`/`working`/`postSeal` blocks, sealing flags, filters and watches | `doWork` (one thread), `syncBlockQueue`, `syncTransactionQueue`, `onChainChanged`, `rejigSealing`, `tick`, `rewind`, `reopenChain` | drains both queues, imports into `BlockChain`, informs `EthereumHost` | no wake-up is lost; a reorganisation returns dead transactions to the queue |
| `libwing/BlockChain` | blocks and extras databases, in-memory caches, `m_lastBlockHash` and number | `sync`, `import`, `insertBlockAndExtras`, `verifyBlock`, `treeRoute`, `rewind`, `garbageCollect` | LevelDB | the canonical chain is the heaviest valid one, its extras agree with it, also after a crash |
| `libwing/TransactionQueue` | `m_known`, `m_current` (by priority), `m_currentByAddressAndNonce`, `m_future`, `m_unverified`, `m_dropped` | `import`, `enqueue`, `verifierBody`, `setFuture`, `drop`, `dropGood`, `clear` | network threads, `Client::syncTransactionQueue` | one transaction per account and nonce, the views agree, the limits hold, a dropped or evicted transaction can come back |
| `libwing/BlockChainSync`, `EthereumHost`, `EthereumPeer` | sync state, header and body downloads, peers' asked state | packet handlers, `continueSync`, `restartSync`, timeouts | `BlockQueue::import`, `libp2p` sessions | each range is asked of one peer at a time, downloads are reassembled in order, the sync ends |
| `libwing/Block`, `State`, `Executive`, `ExtVM` | account cache, change log, executing transaction | `enact`, `sync`, `commitToSeal`, `sealBlock`, `execute`, `rollback` | `libevm`, `libdevcore` tries | all-or-nothing transactions, a change log that undoes what it recorded |
| `libwing` warp and snapshots | snapshot manifest, chunks downloaded and imported | `WarpHostCapability`, `SnapshotImporter` | peers, state importer | every chunk of the manifest is imported once |
| `libwing/ClientBase`, `LogFilter`, gas pricers | filters, watches, blooms | `installWatch`, `checkWatch`, `pollWatches` | `Client` | a watch is told every change once |
| `libtm/consensus` | height, round, step, locked and valid block, votes | `enterNewRound` ... `finalizeCommit`, `addVote`, `setProposal` | validators' votes, timeouts, WAL | at most one block commits per height; a locked validator prevotes its lock |
| `libtm/types`, `state`, `helpers` | votes, commits, validators | value types, serialisation | consensus | values survive conversion |
| `libwingcore` | block headers, transactions, keys, seal engines | `BlockHeader::verify`, `KeyManager`, `BasicAuthority` | everything | headers populate and verify as the rules say |
| `libwingvm` | native contracts and their storage | `Native`, `NativeStorage` | `Executive` | typed storage round-trips |
| `libp2p` | peers, sessions, node table, handshakes, frames | `Host`, `Session`, `NodeTable`, `RLPXHandshake`, `RLPXFrameCoder` | sockets | at most one session per node, slots limited, evictions resolved |
| `libwing/GenericFarm`, `GenericMiner`, `libethashseal` | the header to seal, the work of the farm, one thread per miner | `generateSeal`, `setWork`, `start`, `stop`, `submitProof` | `Client`, `Block` | a seal belongs to its block, no thread outlives its miner, nobody waits for ever |
| `libdevcore` | overlay and memory databases, tries, workers, RLP | `OverlayDB::commit`, `TrieDB`, `Worker` | LevelDB | reference counts; a worker starts and stops once |
| `libevm`, `libdevcrypto` | interpreter state, cryptography | execution, hashing | - | conformance to external specifications |
| `aya`, `test`, `utils`, `cmake` | - | the executable, tests, vendored JSON, build | - | - |

What is hard here: the block queue is shared by network threads, a pool of
verifier threads and the client thread under two locks, with a flag as the only
wake-up of the client; failure paths (`updateBad`, the catch clauses of
`BlockChain::sync`) take the queues apart while other threads hold jobs of
them; `clear()` runs at any time from another thread; the chain makes three
writes one after the other; the download is a state machine driven by the
answers of peers that come late, in part or never; the world state is undone by
a log while its cache is purged at random; sealing and the network start and
stop threads under locks that are held across joins and waits.

The hazards of this code, each at its line and with the properties that would
catch it, are listed in `PROJECT.json`.

## 2. Modules

| Module | Models | Used by |
|---|---|---|
| `QueueOps` | sequences with members removed, sums, orderings | the queue modules, `Download`, `StateLog` |
| `BlockQueue` | the state of `BlockQueue` and its operations under its locks | `BlockSync` |
| `BlockSync` | composes the queue with its verifier threads, the network threads, the client thread and the clock | `MCBlockSync`, `BlockSyncProofs` |
| `TransactionQueue` | `TransactionQueue` and its verifier threads | `TransactionSync`, `MCTransactionQueue` |
| `TransactionSync` | composes it with the client thread, the working block and the chain's nonces | `MCTransactionSync`, `TransactionQueueProofs` |
| `BlockChain` | the block database, its number index and cache, rewinds, stops | `MCBlockChain`, `BlockChainProofs` |
| `ChainPromise` | abstract: what the database promises | instantiated by `BlockChain` |
| `StateLog` | `State`: the account cache, its change log, commit | `Execution` |
| `Execution` | `Executive`, `ExtVM`, `State::execute`: nested frames of a transaction | `MCExecution`, `ExecutionProofs` |
| `StatePromise` | abstract: a world that is copied at each savepoint | instantiated by `Execution` |
| `Download` | `BlockChainSync` with `EthereumPeer`, peers, the block queue's limits and the client's imports | `MCDownload`, `DownloadProofs` |
| `Sealing` | the client thread's sealing, `Ethash`, `GenericFarm`, `GenericMiner`, the miner threads | `MCSealing`, `SealingProofs` |
| `Worker` | `libdevcore/Worker`: a thread that is started, stopped and terminated | instantiated twice by `Host` |
| `Host` | `libp2p/Host`: start, stop, destructor, the network thread, and a capability that is a worker too | `MCHost`, `HostProofs` |
| `QueueOpsProofs` | lemmas about sequences, sums, folds and finite sets | the other proof modules |
| `BlockSyncProofs`, `TransactionQueueProofs`, `BlockChainProofs`, `ExecutionProofs`, `DownloadProofs`, `SealingProofs`, `HostProofs` | theorems | - |

Variables keep the names of the members they model (`m_readySet`, `m_verifying`,
`m_current`, `m_lastBlockHash`, ...). A definition's lines are in the map of
`PROJECT.json`. Operators written directly before a definition with the same
parameters and a deviating body (`NotReplaced` before `Replaced`, `KeepFuture`
before `PriorFuture`) are its mutants: putting one in the place of its
definition makes TLC violate the property it is paired with.

**Blocks.** `Import` is `BlockQueue::import` after decoding, with one disjunct
per outcome (`ImportFuture`, `ImportBadChain`, `ImportUnknownParent`,
`ImportReady`). A verifier has two steps, because `verifierBody` releases the
lock while it checks a block: `Take`, and one of `VerifyFailed`,
`VerifiedInTurn`, `VerifiedOutOfTurn`; `OnReady` is its signal, sent after the
locks are released. `drainVerified` is part of the step that calls it.
`updateBad` is one pass per step, holding the locks (`LockFree` blocks the
others). The client thread goes through `StartSync`, `SyncDrain`, one
`SyncImport` per block, `SyncDone`, `DoneDrainReturn` and `SyncAssign`, the store
to `m_syncBlockQueue` that the flag race is about. A block is a model value;
parent, number, timestamp, difficulty, and whether it passes the checks of the
verifier (`SealValid`) and of the chain (`Enactable`), always or in the end
(`Flaky`), are constants. `removeIf` is modelled with what it returns: the
positions behind the survivors. The chain is the set of stored blocks and its head;
the head moves to a heavier block (`HeadAfter`) and back to an ancestor (`Rewind`).
`Stored` and `KnownBlock` are the two uses of `BlockChain::isKnown`: `import` of the
queue asks for a current block, no higher than the head (`BlockChain.cpp:1396`),
`import` of the chain asks for a stored parent only.

**Transactions.** `m_current` is a sequence; its order comes from a comparator
that reads a changing index, so a transaction is inserted at any place the
multiset's search could reach (`InsertPlaces`). `Import` is
`manageImport_WITH_LOCK` with replacement, release, eviction and trimming in one
step. `TransactionSync` splits `Block::sync` at the points where the queue is
unlocked: `TopTransactions`, then one `ExecuteNext` per transaction and
`GiveBack` when it is dropped or put off, `EndPass`, `AssignTxFlag`. The node is
neither sealing nor in a major sync; a block of the chain carries one
transaction.

**Chain.** `StartInsert` is `import` up to the batches, the clearing of the
cache included; then `CommitBlocks`, `CommitExtras` and `SetBest` are the three
writes. `Crash` may come anywhere and is followed by `open()`. `LookupHash` and
`CacheHash` are the two halves of `queryExtras` on another thread. The tree is a
constant; `Line[b]` is `b` with its ancestors, so that `treeRoute` from the head
to a new block's parent is a difference of two lines.

**World state.** `StateLog` is the algebra of one `State`: a record of the trie,
the cache, the change log, the set of addresses known not to exist and the
unchanged entries, with one operator per member function. `UndoRounds` is the loop
of `rollback` as a function of its rounds; the loop of `finalize` over the suicides
is one `Kill` of a set, since the accounts it kills do not touch each other. Each operator records what the
code records and no more (a touch, a storage value, a balance by its
difference), and any call may purge unchanged entries first, as
`clearCacheIfTooLarge` does with a random choice. `Execution` stacks frames on it:
`BeginTx` is `initialize` and `execute`, `Call`, `Create`, `Store`, `Load`, `Suicide`
are what the innermost code may do through `ExtVM`, `Return`, `Revert` end it,
`Commit` and `Drop` are `finalize` with the two kinds of permanence, and `SetRoot`
the switch to another trie. What code does and how much gas it has are choices.

**Download.** The whole of `BlockChainSync` is the record `s`; a handler is an
operator on it and one packet is one step, since every handler holds `x_sync`. A
chunk of headers is a run of consecutive numbers, so that `m_headers` and `m_bodies`
are functions of numbers; `requestBlocks` cuts gaps into windows where the code
does. A loop of a handler is a function that gives the members after n of its rounds
(`SyncRounds`, `CollectRounds`, `HeaderRounds`, `BodyRounds`). A peer answers what it was asked from the chain it is on now, in part, late
(after `Tick` has disabled it, nothing is read any more) or never; it announces
blocks, and leaves. The block queue appears by the sets and limits the handlers
see, and the client thread by `Drain`, `ClientImport` and `RoomAvailable`, the
callback made after the locks are released.

**Sealing.** A header is a number and a solution is known by the header it was
searched for. `m_submitLock` and `x_minerWork` are variables because they are held
while threads are joined; the loops of `setWork` and `clear` over the miners are one
step per miner, and a join is a step that waits for the thread to end.

**Network.** `Worker` has one action for each part of `startWorking`, `stopWorking`,
`terminate` and the thread between two points where `x_work` is released, with
condition variables as the set of who waits (`notify_all` empties it, and it may
wake anybody for nothing). `Host` composes two of them: the host's thread
starts and stops the capability's. What may fail is a constant, `MayFail`, a set of
places: `tcp4Listen` gives no port (`ListenFails`); `startedWorking` throws in
`determinePublic`, for the node table, in `restoreNetwork` or in its `run`
(`StartThrows`, which ends the thread without `doneWorking` and leaves what was set
up); a handler of the io service throws, which `doWork` catches (`HandlerThrows`).
`doneWorking` throws when the acceptor it cancels is not open (`CancelThrows`). `host` lets
all of them fail. `Spec` lets any user call at any time; in
`SerialSpec` the users take turns, as the last deviation of section 3 makes necessary.

## 3. Runs

| Run | Checks | Shows |
|---|---|---|
| `queue_always` | `QueuedOnce`, `QueuedKnown`, `JobsOwned`, `OnlyVerified`, `DifficultyCovers` | with rejected, invalid, flaky, own and future blocks, restarts, rewinds and retries |
| `queue_steady` | `QueueInvariants`, `InOrder`, `UnknownWaits`, `PipelineFlows`, `FutureImported` | with two branches, an invalid block and a future one, nothing rejected by the chain, cleared, rewound or retried |
| `txqueue_always` | `TxTypeOK`, `OnePerNonce`, `FutureCounted`, `HeldKnown`, `HeldBounded`, `ReleasedTogether`, `NeverUnderbid` | any calls in any order, with limits that are hit |
| `txsync_fair` | `WorkingConsecutive`, `ReplacedIsReset` | the working block under replacement, mining and dropping |
| `chain_store` | `TypeOK`, `Durable`, `ChildrenListed`, `NumbersCovered`, `LastIsHeaviest`, `IndexFollows`, `KeepsPromise` | two branches, a tie, a reader, a rewind and a stop |
| `exec_frames` | `CleanIsCommitted`, `NoEtherCreated`, `NonceSpent`, `RestoresWorld` | transactions of two signers, of nested calls, creations and suicides that fail anywhere, over a cache that forgets; `RestoresWorld` is the refinement of `StatePromise` |
| `download_faults` | `DownloadsOwned`, `ChallengeInFlight` | two peers that answer in part, announce, time out and leave, a challenge, a rejected and an early block, an own block, a reopened chain |
| `download_live` | `WaitingForRoom`, `Synced` | a node on a fork catches up with two peers, one fault included |
| `sealing` | `SealsFit`, `QuietAfterStop`, `JoinedOnce` | two miners, three headers, sealing switched on and off |
| `host` | `DoneWorkingAlone`, `NetworkDown`, `StartComesBack` | two users that take turns: start, stop and destruction in any order, every failure of `Failures`, a capability that throws |
| `sealing_deadlock` | `SealRequestReturns` violated | client, miner and miner wait for each other |
| `host_stop` | `StopComesBack` violated | a stop right after a start waits for ever |

The last two show disagreements of the code with its own comments; the line each
contradicts is quoted under `findings`.

**Deviations seen with the model, not kept as runs.** These properties are stated
in the modules and do not hold of the code. The table says which instance shows
it.

| Property | Instance | What TLC finds |
|---|---|---|
| `QueueInvariants` | `MCBlockSync`, `SteadySpec`, `Enactable` = {b2, b3} of {b1, b2, b3} | `removeIf` (`BlockQueue.h:115`) returns the wrong elements to `updateBad`; the sets and queues diverge |
| `UnknownWaits` | `MCBlockSync`, `Spec`, {b1, b2} | `clear()` during a drain: a child waits for a parent that is being imported |
| `UnknownWaits` | `MCBlockSync`, `SteadyNext` with `Rewind`, {b1, b2} | after a rewind b1 is stored and above the head: its child b2 waits for a block that is imported again only when it arrives again |
| `UnknownWaits` | `MCBlockSync`, `SteadySpec`, {b1, b2, b3, b4}, total difficulty 5 for b4 and the number for the others | the head is b4, so b2 is stored but above it: b3 waits for b2 (`BlockChain.cpp:1396`) |
| `KnownBadSound` | `MCBlockSync`, `SteadySpec`, `Enactable` = {b2, b4} of {b1, b2, b4} | the chain rejects b1 while its child b2 and its valid sibling b4 wait: `removeIf` removes b2 and returns b4, which becomes known bad, though `m_knownBad` is the "set of blocks that we know will never be valid" (`BlockQueue.h:305`) |
| `KnownBadSound` | `MCBlockSync`, `SteadySpec`, {b1, b2}, all valid, `Flaky` = {b1} | b1 fails transiently, the rest of the batch is imported, and b2 is bad for its missing parent (`BlockChain.cpp:467`) |
| `VerifiedDrained` | `MCBlockSync`, `FairSteadySpec`, {b1, b2} | `syncBlockQueue` overwrites a ready signal (`Client.cpp:393`) |
| `KnownHeld` | `MCTransactionQueue`, as `txqueue_always` | a replaced or evicted future transaction stays in `m_known` |
| `CurrentConsidered` | `MCTransactionSync`, `FairSpec`, {a0, b0}, nothing invalid | `syncTransactionQueue` overwrites a signal (`Client.cpp:428`) |
| `IndexSurvives` | `MCBlockChain`, {x1, x2, y1, y2}, one stop, no reader, no rewind | a stop between extras and best hash leaves the other branch's index |
| `CacheCoherent` | `MCBlockChain`, one reader, no stop | a reader caches an abandoned hash for good (`BlockChain.h:344`) |
| `RestoresWorld`, `NoEtherCreated` | `MCExecution`, `SpecEIP210` | `ExtVM::blockHash` executes a transaction of its own with `Permanence::Reverted` on the same `State`, which clears `m_cache` of the enclosing one (`ExtVM.cpp:200`) |
| `AssertionsHold` | `MCDownload`, chain b1 to b4, `FirstHead <- SlowSecond`, no challenge, no faults | `mergeInto` is given a body that is there already (`BlockChainSync.cpp:125`) |
| `WaitingForRoom` | `MCDownload`, `Rejected` not empty | a verifier's rejection makes room and nobody calls `m_onRoomAvailable` |
| `Synced` | `MCDownload`: peers on different forks; a challenge and a peer that leaves; own sealing; the own fork at block 1 | the node stalls until the next announcement; answers ignored after a reset leave it behind, and the search for a common header ends above block 1 (`BlockChainSync.cpp:344`) |
| `StopComesBack` | `MCHost`, `MayFail` = {"determinePublic"} | after a failed start `m_run` and `m_timer` stay set |
| `NetworkInteractive` | `MCHost`, `SerialSpec`, one user, `MayFail` = {"restoreNetwork"} or {"run"} | `startedWorking` throws after the node table is set: `haveNetwork()` is true of a host whose thread has stopped, though it "returns if network is started and interactive" (`Host.h:222`) |
| `NetworkDown` without `Harmed` | `MCHost`, `SerialSpec`, one user, `MayFail` = {"restoreNetwork"} or {"run"} | `start` has returned when it saw the node table; nobody runs `doneWorking`, and the node table and a working capability are left |
| `NetworkDown` without `Harmed` | `MCHost`, `SerialSpec`, one user, `MayFail` = {"listen"} | the acceptor is closed, `cancel()` throws in `doneWorking` (`Host.cpp:171`) and the capability is not stopped |
| `StopComesBack`, `NetworkDown` | `MCHost`, `FairSpec`, two users | `start` and `stop` are marked thread-safe (`Host.h:209`, `212`), but two threads may both run `doneWorking`, one may overwrite the other's `Killing`, and `stopWorking` may wait for a `Stopped` that has passed |

**Bounds.** Three or four blocks give a chain long enough for a grandchild to
wait and a fork; two verifiers are needed, and enough, for an out-of-turn
result. `MaxSync` 2 lets a drain be partial, `MaxFuture` 1 and `MaxTime` 1 give a
block that is early once. Three nonces of one account with a rival, a second
account, `Limit` 2 and `FutureLimit` 1 make replacement, release, trimming and
eviction happen. One stop and one rewind suffice for every pair of windows; the
theorems lift the bounds. Transactions have frames three deep and five
operations, so that a frame can fail around one that succeeded and the other way
round; the addresses are two signers, a contract, one with storage but neither code
nor nonce, a precompiled one with an empty account, and one without an account.
The download has two peers (marks and answers of one while the other leaves),
chains of four blocks with windows of one or two (a gap takes several requests),
queue limits of one (they are hit), and one fault: a short answer, a session that
ends, a timeout or a refusal. Two miners are what it takes for one to pause
another; three headers let a solution be one and two headers late. Two users start and
stop the network, one after the other: see the last deviation. The runs of the queues, the chain,
execution and the download do not check for deadlock: when all input has
arrived, or the bound on the work is reached, the model is in a final state.
`sealing` and `host` do check.

**What the steady run leaves out, and why.** After a rejection `updateBad` marks
the wrong blocks, after `clear()` a child may wait for good, a transient failure makes the child of a block that may
still be valid known bad (`BlockChain.cpp:467`: `continue` leaves a
`do ... while (false)`), `retryAllUnknown` releases in hash order, so a child
may come before its parent, and after a rewind a child waits for a stored parent. The
properties of the steady run do not hold then; they are stated without those steps, and
the causes are hazards or deviations.

**Fairness.** The verifier threads loop while there is work and the client
thread's `doWork` loops while its flags are set, so each of their steps is weakly
fair; the clock advances. In `TransactionSync` a pass of `Block::sync` ends at its
deadline at the latest, and `resetState` is reached whenever `doWork` comes
round, which calls for strong fairness of these two. Nothing is assumed of
users or of readers. In `Download` a peer connects, and one that is asked answers
or is dropped by `EthereumPeer::tick`, which the host calls again and again; the
client thread drains and imports, time passes. The fairness of answers is written
out over a state predicate (`MayAnswer`), which is what weak fairness means and is
cheap to evaluate. In `Sealing` and `Host` the threads run and the timer expires;
nothing makes a miner find a solution, and nobody has to call `start` or `stop`.

## 4. Proofs

Every theorem is about the specification the runs check, for every value of the
constants that satisfies the named `ASSUME`s of the modules: the constants are a
tree with increasing numbers, difficulties and total difficulties, the bounds are
naturals, and what may fail is a subset of `Failures`. Where
a theorem assumes more, it says so in its `ASSUME` and it is named below.

**Block queue** (`BlockSyncProofs`). For any tree of blocks, any verifiers and any
bounds, `TypeOK`, `QueuedOnce`, `QueuedKnown`, `JobsOwned`, `OnlyVerified` and
`DifficultyCovers` are invariants of `Spec`. None is inductive alone: that a block is
queued once needs that what is queued is known (so `import` refuses it), that
unknown blocks are not queued (so releasing them queues them once), and that a
verifier's job is either the unfinished placeholder of its block or gone; that in
turn needs the types. The inductive invariant is their conjunction with the same
facts about the client's batch. The difficulty needs one more fact: what `doneDrain`
will subtract is the sum over `m_drainingSet` (`DrainingCounted`).

**Block queue, steady** (`BlockSyncProofs`). The properties of the steady run,
as far as they hold:

- `UnknownNotBehind`: for any difficulties, in `SteadySpec`, rejections included, no
  unknown block waits for a parent that is ready, being imported or known bad. While a
  call of `updateBad` is on its way, a block may wait for a parent that is already
  bad; the invariant (`Waiting`) says that such a parent is still on the list of that call.
- `UnknownAlwaysWaits`: `UnknownWaits`, which adds that the parent is not stored in the
  chain. It assumes `LongerIsHeavier`, that a higher block is a heavier one: otherwise a
  stored parent may be above the head, where `isKnown` does not see it, and the claim
  fails (section 3). The invariants are that the head is a heaviest stored block
  (`HeadHeaviest`), hence a highest one, and that no unknown block has a stored parent
  (`NotStored`).
- `InvariantsUntilBad`: `QueueInvariants` of `Spec`, until `m_knownBad` has a member.
- `OrderUntilRejected`: `InOrder` of `SteadySpec` until the first rejection, assuming
  `Dependable` (no transient failure, and own blocks are not ahead of the clock). The
  invariant reads the client's batch and the three queues as one line in which every
  block stands behind its parent.
- `ValidNeverBad`: with valid blocks only (`AllValid`), `m_knownBad` stays empty, and
  count and order hold for ever.

The conditions are those of section 3: after a rejection `removeIf` reports the wrong
elements, after a transient failure a child is imported without its parent, and there
the properties fail.

**Transactions** (`TransactionQueueProofs`). All properties of `txqueue_always`, for
any transactions, prices, limits and verifiers, the two action properties
(`ReleasedTogether`, `NeverUnderbid`) among them, and `WorkingConsecutive` with the
client thread. `FutureCounted` needs that the nonces of `m_future` are apart from each
other and from those of `m_current` (`OnePerNonce`); the bounds need that a release
empties the slots it takes from. `QueueStaysSound` repeats the queue's invariants for
`TransactionSync`, where the client gives transactions back to a queue that was
unlocked since it read them.

**Chain** (`BlockChainProofs`). All properties of `chain_store` for any tree, any
weights, any number of readers, stops and rewinds, and that `BlockChain`
implements `ChainPromise`. The invariant `IInv` says: what has details has a
body and an ancestry with details (`Closed`); how far the insertion is
(`Inserting`); a hash filed under a number, on disk, in the cache or held by a
reader, is a stored block of this number (`Filed`), so that a rewind finds a
head; the head in memory is the one `open()` would find (`HeadOnDisk`), so that a
stop is a stuttering step of the abstract chain. The index part speaks of the
head the insertion leads to (`NextHead`), because between the commit of the
extras and the best hash the index is already the next head's. It rests on
`LineShape`: a line has exactly one block of each number.

**World state** (`ExecutionProofs`). `CleanIsCommitted` and `NoEtherCreated` are
invariants of `Execution`'s `Spec`, and `Execution` implements `StatePromise`
(`RestoresWorld`), for any accounts, keys, values, amounts, gas and depth of calls,
and with any purge of the cache at any operation. The inductive invariant, `FrameInv`,
speaks of the *levels* of a state: `Level(s, k)` is what `s` becomes when all but the
first `k` entries of its log are undone.

- `Sound`: every account in the cache has its shape, one marked unchanged is the one
  in the trie, and an address remembered as absent is.
- `Kept(s, base)`: the log from `base` on can be undone. Its entries are about changed
  accounts of the cache (so no purge can take one away under the log), a creation or a
  touch is the first entry of its account, and a touched account was as the trie has it.
- `FramesOK`: the savepoints of the frames are ordered levels of the log; the level of
  each is the world and the effects the frame saved, and holds, with the price of the
  gas, no more ether than there was (`Funded`); the account of each frame is in the
  cache and changed, at the frame's own level and at those of the frames above it
  (`Safe`): `setStorage` and `setCode` take the account from the cache without asking
  whether it is there, and `setCode` does not mark it changed.
- The trie holds no more than the first one (`TrieHeld`), for the transactions that
  are dropped.

Undoing does not give back the same cache: an account read meanwhile stays, a purged
one is gone, one changed and undone is not marked unchanged. `Covers(s, t)` says that
the accounts of two states are seen to hold the same and what `s` holds for changed
`t` does. The central lemma (`Simulation`) is that undoing preserves `Covers`, and the
proof of an operation shows that it `Extends` the state: the levels below it are
covered by what they were, and the new one by the state before it. Operations compose
by transitivity, so that a transfer or a creation is proved from its parts. The
proof depends on two facts of the code worth knowing: an account whose storage
`clearStorage` clears has no storage written in this transaction (`Unwritten`; the
root is restored by the log, the overlay is not), and an account is removed as empty
only when it is changed.

`NonceAlwaysSpent` is the action property `NonceSpent`: a transaction that is kept
raises the nonce of its sender by exactly one and lowers that of no other signer,
whatever its frames did to them. It assumes `Keyed`, which is what a signature and a
hash give: a signer has no code at the genesis, and the address of a creation is no
signer's. The invariant (`SpentInv`) is that a signer's account, in the world now and in
the world each frame would return to, has no code and the nonce of the trie, the
sender's one more; that no frame runs at a signer, since frames run where there is code
or a creation; and hence that no signer is among the accounts to be destroyed. An
operation can then at most create a signer's account (`Respects`).

**Download** (`DownloadProofs`). `DownloadsOwned` and `ChallengeInFlight` are
invariants of `Spec` for any tree, peers, limits and answers, with restarts,
rejections, reopened chains and peers that leave. A handler is a composition of
parts that ask nobody and only free marks (`Lessens`), and of `SyncPeer` and
`ClearDownloads`; each is shown to keep `Good`, whose part `Challenged` adds that a
challenged peer has no list of headers, because the answer to a challenge frees
none. The loops are handled by induction on their rounds. `RoomIsReported` is
`WaitingForRoom`, assuming that no block is rejected (`Rejected = {}`): a verifier's
rejection makes room without a signal, which the table of deviations shows.

**Sealing** (`SealingProofs`). `SealsFit`, `QuietAfterStop` and `JoinedOnce` for any
number of miners. The invariant says who holds the farm's lock (`LockHeld`), that only
the holder joins, and whom (`Joining`), and that a miner about to submit has copied
the header it searched for (`Generated`).

**Network** (`HostProofs`). `DoneWorkingIsAlone`: whatever fails, a user runs
`doneWorking` only when the network thread has left its work; it touches the io
service and the acceptor without a lock. `NetworkComesDown`: `SerialSpec` implies
`NetworkDown`, that the network is down whenever the host does not work, or a failure
did harm (`Harmed`): the acceptor could not be opened, or the start threw after the node
table was set. After these the claim fails (section 3). Both are for any set of users
and any failures. As the users take turns, there is one place a call can be at
(`Active`). `WorkerInv` relates that place to the thread and the state of the host's
worker, and every step keeps it. The rest, `Unharmed`, is kept by every step after which
`Harmed` is false. `ThreadInv` says, for each place of the network thread, where the call
may be and what state the worker is in; `TimerInv` that a stop waits for the timer after it
has cleared `m_run` and goes on to `stopWorking` without one; `NetworkInv` from which step
to which the acceptor is open, and until which there may be a node table and sessions;
`CapabilityInv` that a capability at work has been started by a network thread that is
still to stop it, or has ended by an exception, in which case the user inside `start` is
still to do so. The last part is why a harmless failure of the start leaves nothing
behind: the thread skips `doneWorking` then, and `start`, which has not seen a node table,
calls it.

Induction over the naturals is used in a first-order form (`LeastNatural`,
`SetInduction` in `QueueOpsProofs`), on the set of numbers with the property: sums,
their independence of the order, and the loops of `Download` rest on it.

Only model-checked:

- liveness (`PipelineFlows`, `FutureImported`, `ReplacedIsReset`, `Synced`,
  `StartComesBack`): fairness and `ENABLED` are beyond the prover;
- `QueueInvariants` with invalid blocks on a tree in which nothing goes wrong after
  `updateBad`: that is a fact about the instance, not about the code;
- that `UnknownWaits`, `KnownBadSound`, `NetworkDown` and the other properties of section 3
  do not hold outside the conditions of the theorems.

## 5. Plan

Done: block queue and client thread; transaction queue and working block; chain
database; world state and execution; block download; sealing; worker and network;
the abstract specifications of the chain and of the world state; theorems about all
of them. Next:

1. `Watches` (`ClientBase`): filters, watches and the receipts announced by
   `syncTransactionQueue` (`Client.cpp:444`).
2. Byte sizes of the block queue's containers (`BlockQueue.h:178`).
3. The peer slots and sessions of `Host`, and the node table's evictions.

## 6. Not modelled

Most of the repository's lines are data: the genesis state of the main network is
27 000 generated lines, and the interpreters (`VM.cpp`, `LegacyVM.cpp`), the tries
and RLP, the cryptography, the difficulty rules and the option parsing are
sequential code whose specification is a table or lies elsewhere. A model of
these would be a transliteration, and TLC would check it on inputs that a unit
test reaches as well. They appear here by what the modelled code sees of them:
header checks as verdicts on blocks, tries as functions, contract code as any
sequence of the operations `ExtVM` offers, gas as the outcomes it has.

`libtm` is a state machine that would be worth a model, but the parts its safety
rests on (vote sets, the signer, the executor, the log) are declared and not
written. The warp download is written with fibers and its correctness is in the
conversion of chunks. Watches, peer slots, sessions and the node table are left
for later. Of the chain's extras only details, children and the number index are
kept; `insert`, `insertWithoutParent`, `rebuild` and the collector of the caches are
left out (number hashes are never collected). In `TransactionQueue` every transaction
has a sender: the catch clauses of `manageImport_WITH_LOCK` (`TransactionQueue.cpp:170-179`)
are left out. They are reached by a transaction of a peer whose signature gives no sender, which
`PriorityCompare` finds out after `m_currentByAddressAndNonce` has got its entry
(line 212); the entry then stays, and the theorems do not speak of that state. In
`Execution` static calls, precompiled contracts' results, native contracts
(`Executive.cpp:329-338`) and `Permanence::Uncommitted` (`State.cpp:630`, for tests) are
left out; in `Download` ratings, byte sizes and the gossip of transactions. In
`Sealing` remote mining is left out: `EthashClient::getEthashWork` and `submitEthashWork`
(`EthashClient.cpp:105`, `111`), which nothing else in the repository calls, use
`manuallySetWork` and `manuallySubmitWork`, and the first writes `m_sealing` without
`m_submitLock` (`Ethash.h:80`), so `SealsFit` is about a node that does not serve remote
miners. So is `m_miners.clear()` in `GenericFarm::start` (line 91): it acts only when a
second kind of sealer is asked for, and `cpu` is the only one registered. In `Host`
addresses, the peers `restoreNetwork` restores and the reconnection of peers are left out.
