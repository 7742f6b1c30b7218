-------------------------------- MODULE Download --------------------------------
(***************************************************************************)
(* The download of blocks (BlockChainSync) from the peers of the block     *)
(* protocol (EthereumPeer, EthereumHost), into the block queue.            *)
(*                                                                         *)
(* Every handler runs under x_sync, so it is one action; what it does is   *)
(* written as operators on the record s with the members it may change:    *)
(* those of BlockChainSync, the peers, and the sets of the block queue.    *)
(*                                                                         *)
(* m_headers and m_bodies are maps from a number to a chunk of consecutive *)
(* items in the code; mergeInto joins adjacent chunks, so a chunk is a     *)
(* maximal run and the map is a function from numbers to items.            *)
(***************************************************************************)
EXTENDS QueueOps, FiniteSetsExt

CONSTANTS
    Blocks, Genesis, NoBlock,
    Parent,                 \* the parent of a block
    Body,                   \* its transactions and uncles, or EmptyBody
    EmptyBody,
    Rejected,               \* blocks the verifiers refuse
    Early,                  \* blocks whose timestamp is in the future at first
    Local,                  \* the head of the own chain at first
    Sealed,                 \* blocks this node may seal
    Peers, FirstHead,       \* the peers, and the head of each at first
    ChainStart,             \* m_chainStartBlock
    DaoFork, DaoBlocks,     \* daoHardforkBlock, and the blocks with its extra data
    MaxRequestHeaders, MaxRequestBodies,
    MaxUnknownNew,          \* c_maxPeerUknownNewBlocks
    MaxKnown, MaxUnknown,   \* the limits of the queue (knownFull, unknownFull)
    Short, Reopens,         \* whether answers may be short, and the client reopen the chain
    MaxFaults               \* bound: the faults and short answers of a behaviour

ASSUME DownloadAssumption ==
    /\ Genesis \in Blocks /\ NoBlock \notin Blocks
    /\ Parent \in [Blocks \ {Genesis} -> Blocks]
    /\ DOMAIN Body = Blocks
    /\ Rejected \cup Early \cup Sealed \cup DaoBlocks \cup {Local} \subseteq Blocks
    /\ FirstHead \in [Peers -> Blocks]
    /\ {ChainStart, DaoFork, MaxUnknownNew, MaxKnown, MaxUnknown, MaxFaults} \subseteq Nat
    /\ Short \in BOOLEAN /\ Reopens \in BOOLEAN
    /\ MaxRequestHeaders \in Nat \ {0} /\ MaxRequestBodies \in Nat \ {0}

VARIABLES
    s,          \* the members of BlockChainSync, its peers, and the queue
    chain,      \* the blocks in the database, and best, the current one
    best,
    head,       \* the head of each peer
    early,      \* blocks whose time has not come
    importing,  \* the blocks the client thread drained and is importing
    room,       \* m_onRoomAvailable was signalled and waits for x_sync
    faults

vars == <<s, chain, best, head, early, importing, room, faults>>

-----------------------------------------------------------------------------
(***************************************************************************)
(* Lines of blocks.  Every block has difficulty one.                       *)
(***************************************************************************)
Line[b \in Blocks] == IF b = Genesis THEN <<b>> ELSE Append(Line[Parent[b]], b)
Number(b) == Len(Line[b]) - 1
TotalDifficulty(b) == Len(Line[b])
NumberHash(b, n) == IF n <= Number(b) THEN Line[b][n + 1] ELSE NoBlock

(***************************************************************************)
(* Helpers of BlockChainSync.cpp on m_headers and m_bodies.                *)
(***************************************************************************)
HaveItem(f, n) == n \in DOMAIN f
Only(f, S) == [n \in DOMAIN f \cap S |-> f[n]]
RunOf(f, n) == {m \in DOMAIN f : m >= n /\ n..m \subseteq DOMAIN f}
RemoveItem(f, n) == Only(f, DOMAIN f \ RunOf(f, n))
RemoveAllStartingWith(f, n) == Only(f, {m \in DOMAIN f : m < n})
MergeInto(f, n, item) == [m \in DOMAIN f \cup {n} |-> IF m = n THEN item ELSE f[m]]
First(f) == Min(DOMAIN f)

(***************************************************************************)
(* The block queue, as the handlers use it (external to this module; the   *)
(* module BlockQueue is about it): its sets, its limits, and import.       *)
(***************************************************************************)
Queued(q) == q.ready \cup q.draining
KnownFull(q) == Cardinality(q.ready) > MaxKnown
UnknownFull(q) == Cardinality(q.unknown \cup q.future) > MaxUnknown
Released(q, b) ==
    {u \in q.unknown : b \in RangeOf(Line[u])
        /\ \A i \in Number(b) + 2..Len(Line[u]) : Line[u][i] \in q.unknown}
WithoutBad(q, b) ==
    LET worse == {b} \cup {d \in q.ready \cup q.unknown : b \in RangeOf(Line[d])}
    IN  [q EXCEPT !.ready = @ \ worse, !.unknown = @ \ worse, !.bad = @ \cup worse]

Enqueue(q, b) ==
    LET held == Parent[b] \in Queued(q) \cup chain IN
    IF Parent[b] \in q.bad
    THEN [result |-> "BadChain", queue |-> WithoutBad(q, b)]
    ELSE IF ~ held
    THEN [result |-> "UnknownParent", queue |-> [q EXCEPT !.unknown = @ \cup {b}]]
    ELSE [result |-> "Success",
          queue |-> [q EXCEPT !.ready = @ \cup {b} \cup Released(q, b),
                              !.unknown = @ \ Released(q, b)]]
Import(q, b, body) ==
    IF b \in Queued(q) \cup q.unknown \cup q.bad THEN [result |-> "AlreadyKnown", queue |-> q]
    ELSE IF body # Body[b] THEN [result |-> "Malformed", queue |-> q]
    ELSE IF b \in chain THEN [result |-> "AlreadyInChain", queue |-> q]
    ELSE IF b \in early
    THEN [result |-> IF Parent[b] \in Queued(q) \cup chain THEN "FutureTimeKnown"
                     ELSE "FutureTimeUnknown",
          queue |-> [q EXCEPT !.future = @ \cup {b}]]
    ELSE Enqueue(q, b)

NoQueue == [ready |-> {}, draining |-> {}, unknown |-> {}, bad |-> {}, future |-> {}]

-----------------------------------------------------------------------------
(***************************************************************************)
(* A peer of the protocol.  asked is what the request in flight asks for.  *)
(***************************************************************************)
Nothing == [kind |-> "Nothing"]
NewPeer(b) == [asked |-> [kind |-> "State"], m_latestHash |-> b,
               m_totalDifficulty |-> TotalDifficulty(b), m_unknownNewBlocks |-> 0, enabled |-> TRUE]

Connected(r) == DOMAIN r.peers
Idle(r, p) == r.peers[p].asked = Nothing
Ask(r, p, request) == [r EXCEPT !.peers[p].asked = request]
Headers(start, count) == [kind |-> "BlockHeaders", start |-> start, count |-> count]
HeaderOf(b) == [kind |-> "BlockHeaders", block |-> b]
Bodies(blocks) == [kind |-> "BlockBodies", blocks |-> blocks]
Disable(r, p) == [r EXCEPT !.peers[p].enabled = FALSE]

-----------------------------------------------------------------------------
(***************************************************************************)
(* BlockChainSync.                                                         *)
(***************************************************************************)
NoDownloads == [p \in {} |-> {}]
ResetSync(r) ==
    [r EXCEPT !.m_downloadingHeaders = {}, !.m_downloadingBodies = {},
              !.m_headers = <<>>, !.m_bodies = <<>>,
              !.m_headerSyncPeers = NoDownloads, !.m_bodySyncPeers = NoDownloads,
              !.m_headerIdToNumber = <<>>, !.m_syncingTotalDifficulty = 0,
              !.m_state = "NotSynced"]
RestartSync(r) ==
    [ResetSync(r) EXCEPT !.m_haveCommonHeader = FALSE,
                         !.queue = [NoQueue EXCEPT !.bad = r.queue.bad],
                         !.m_lastImportedBlock = Number(best), !.m_lastImportedBlockHash = best]
CompleteSync(r) == [ResetSync(r) EXCEPT !.m_state = "Idle"]
PauseSync(r) == [r EXCEPT !.m_state = "Waiting"]

(***************************************************************************)
(* clearPeerDownload, of one peer; of the ones that are gone it is the     *)
(* same without the challenge.                                             *)
(***************************************************************************)
ClearDownloadsKept(r, gone) ==
    [r EXCEPT !.m_headerSyncPeers = Only(@, DOMAIN @ \ gone),
              !.m_bodySyncPeers = Only(@, DOMAIN @ \ gone),
              !.m_daoChallengedPeers = @ \ gone]
ClearDownloads(r, gone) ==
    LET listed(f) == UNION {f[p] : p \in DOMAIN f \cap gone} IN
    [r EXCEPT !.m_downloadingHeaders = @ \ listed(r.m_headerSyncPeers),
              !.m_downloadingBodies = @ \ listed(r.m_bodySyncPeers),
              !.m_headerSyncPeers = Only(@, DOMAIN @ \ gone),
              !.m_bodySyncPeers = Only(@, DOMAIN @ \ gone),
              !.m_daoChallengedPeers = @ \ gone]
ClearPeerDownload(r, p) == ClearDownloads(r, {p})

(***************************************************************************)
(* requestBlocks: the bodies of the first run of headers that nobody is    *)
(* downloading, at most MaxRequestBodies of them.                          *)
(***************************************************************************)
FirstFew(S, k) == {n \in S : Cardinality({m \in S : m < n}) < k}
NeededBodies(r) ==
    IF r.m_haveCommonHeader /\ r.m_headers # <<>> /\ First(r.m_headers) = r.m_lastImportedBlock + 1
    THEN FirstFew({n \in RunOf(r.m_headers, First(r.m_headers)) :
                      n \notin r.m_downloadingBodies /\ ~ HaveItem(r.m_bodies, n)}, MaxRequestBodies)
    ELSE {}

RequestBodies(r, p) ==
    LET needed == NeededBodies(r)
        hashes == [i \in 1..Cardinality(needed) |-> r.m_headers[NthOf(needed, i)]]
    IN  Ask([r EXCEPT !.m_downloadingBodies = @ \cup needed,
                      !.m_bodySyncPeers = MergeInto(@, p, needed)], p, Bodies(hashes))

(***************************************************************************)
(* The headers missing below the last one.  The gap in front of a chunk is *)
(* cut into windows of MaxRequestHeaders; the first window with a header   *)
(* that nobody is downloading is asked for from that header on.            *)
(***************************************************************************)
Missing(r) ==
    LET front == First(r.m_headers)
        start == IF r.m_lastImportedBlock + 1 >= front THEN front ELSE r.m_lastImportedBlock + 1
    IN  {n \in start..Max(DOMAIN r.m_headers) :
            ~ HaveItem(r.m_headers, n) /\ n \notin r.m_downloadingHeaders}
GapStart(r, n) ==
    LET below == {h \in DOMAIN r.m_headers : h < n}
    IN  1 + IF below = {} THEN r.m_lastImportedBlock ELSE Max(below)
Window(r, n) ==
    LET from == GapStart(r, n) + ((n - GapStart(r, n)) \div MaxRequestHeaders) * MaxRequestHeaders
        below == Min({h \in DOMAIN r.m_headers : h > n})
    IN  n..Min({from + MaxRequestHeaders, below}) - 1

RequestHeaders(r, p) ==
    IF r.m_headers = <<>> \/ Missing(r) = {} THEN r
    ELSE LET n == Min(Missing(r))
             wanted == Window(r, n) \ r.m_downloadingHeaders
         IN  Ask([r EXCEPT !.m_downloadingHeaders = @ \cup wanted,
                           !.m_headerSyncPeers = MergeInto(@, p, wanted)],
                 p, Headers(n, Cardinality(wanted)))

(***************************************************************************)
(* Without a common header, the header below the lowest one we have.       *)
(***************************************************************************)
SearchCommonOnce(r, p) ==
    Ask([r EXCEPT !.m_lastImportedBlockHash = NumberHash(best, r.m_lastImportedBlock)],
        p, Headers(r.m_lastImportedBlock, 1))
SearchCommon(r, p) ==
    LET start == IF r.m_headers = <<>> THEN r.m_lastImportedBlock
                 ELSE Min({r.m_lastImportedBlock, First(r.m_headers) - 1})
        moved == [r EXCEPT !.m_lastImportedBlock = start,
                           !.m_lastImportedBlockHash = NumberHash(best, start),
                           !.m_haveCommonHeader = start <= ChainStart + 1]
    IN  IF moved.m_haveCommonHeader THEN RequestHeaders(moved, p)
        ELSE Ask(moved, p, Headers(start, 1))

RequestBlocks(r0, p) ==
    LET r == ClearPeerDownload(r0, p) IN
    IF KnownFull(r.queue) THEN PauseSync(r)
    ELSE IF NeededBodies(r) # {} THEN RequestBodies(r, p)
    ELSE IF r.m_haveCommonHeader THEN RequestHeaders(r, p)
    ELSE SearchCommon(r, p)

SyncPeerAsked(r, p, force) ==
    IF r.m_state = "Waiting" THEN r
    ELSE IF force
    THEN Ask([r EXCEPT !.m_syncingTotalDifficulty = r.peers[p].m_totalDifficulty,
                       !.m_state = IF @ \in {"Idle", "NotSynced"} THEN "Blocks" ELSE @],
             p, HeaderOf(r.peers[p].m_latestHash))
    ELSE IF r.m_state = "Blocks" THEN RequestBlocks(r, p)
    ELSE r
SyncPeer(r, p, force) ==
    LET ours == TotalDifficulty(best)
                + Cardinality(IF Queued(r.queue) = {} THEN {}
                              ELSE Queued(r.queue) \cup r.queue.unknown \cup r.queue.future)
        syncing == Max({r.m_syncingTotalDifficulty, ours})
    IN  IF ~ Idle(r, p) \/ r.m_state = "Waiting" THEN r
        ELSE IF force \/ r.peers[p].m_totalDifficulty > syncing
        THEN Ask([r EXCEPT !.m_syncingTotalDifficulty = r.peers[p].m_totalDifficulty,
                           !.m_state = IF @ \in {"Idle", "NotSynced"} THEN "Blocks" ELSE @],
                 p, HeaderOf(r.peers[p].m_latestHash))
        ELSE IF r.m_state = "Blocks" THEN RequestBlocks(r, p)
        ELSE r

(***************************************************************************)
(* foreachPeer takes the peers by rating, so in any order.  A loop of a    *)
(* handler is written as the function that gives the members after n of    *)
(* its rounds.                                                             *)
(***************************************************************************)
SyncRounds(r, order) ==
    LET after[n \in 0..Len(order)] ==
            IF n = 0 THEN r ELSE SyncPeer(after[n - 1], order[n], FALSE)
    IN  after
ContinueSync(r, order) == SyncRounds(r, order)[Len(order)]
Orders(r) == Orderings(Connected(r))

-----------------------------------------------------------------------------
(***************************************************************************)
(* collectBlocks: import the blocks whose header and body are there.       *)
(***************************************************************************)
CollectOne(acc, n) ==
    IF acc.over THEN acc
    ELSE LET r == acc.r
             b == r.m_headers[n]
             import == Import(r.queue, b, r.m_bodies[n])
             after == [r EXCEPT !.queue = import.queue]
         IN  CASE import.result = "Success" ->
                      [acc EXCEPT !.r = IF n > r.m_lastImportedBlock
                          THEN [after EXCEPT !.m_lastImportedBlock = n, !.m_lastImportedBlockHash = b]
                          ELSE after]
               [] import.result \in {"Malformed", "BadChain"} ->
                      [r |-> RestartSync(after), over |-> TRUE]
               [] import.result \in {"FutureTimeKnown", "AlreadyInChain"} -> [acc EXCEPT !.r = after]
               [] import.result \in {"AlreadyKnown", "FutureTimeUnknown", "UnknownParent"} ->
                      [r |-> IF n > r.m_lastImportedBlock
                             THEN [ResetSync(after) EXCEPT !.m_haveCommonHeader = FALSE]
                             ELSE after,
                       over |-> TRUE]

CollectRounds(r, S) ==
    LET after[n \in 0..Cardinality(S)] ==
            IF n = 0 THEN [r |-> r, over |-> FALSE] ELSE CollectOne(after[n - 1], NthOf(S, n))
    IN  after

CollectBlocks(r) ==
    LET front == First(r.m_headers)
        complete == RunOf(r.m_headers, front) \cap RunOf(r.m_bodies, front)
        acc == CollectRounds(r, complete)[Cardinality(complete)]
        rest == [acc.r EXCEPT !.m_headers = Only(@, DOMAIN @ \ complete),
                              !.m_bodies = Only(@, DOMAIN @ \ complete)]
    IN  IF ~ r.m_haveCommonHeader \/ r.m_headers = <<>> \/ r.m_bodies = <<>>
           \/ First(r.m_bodies) # front \/ front # r.m_lastImportedBlock + 1 THEN r
        ELSE IF acc.over THEN acc.r
        ELSE IF UnknownFull(acc.r.queue) THEN RestartSync(acc.r)
        ELSE IF rest.m_headers = <<>>
        THEN CompleteSync([rest EXCEPT !.asserted = @ /\ rest.m_bodies = <<>>])
        ELSE rest

(***************************************************************************)
(* onPeerBlockHeaders: one header of the answer.                           *)
(***************************************************************************)
KnownBlock(r, b) == b \in Queued(r.queue) \cup chain

Insert(r, n, b) ==
    LET empty == Body[b] = EmptyBody IN
    [r EXCEPT !.m_headers = MergeInto(@, n, b),
              !.m_bodies = IF empty THEN MergeInto(@, n, EmptyBody) ELSE @,
              !.m_headerIdToNumber = IF empty THEN @ ELSE MergeInto(@, Body[b], n),
              !.asserted = @ /\ ~ (empty /\ HaveItem(r.m_bodies, n))]

DropFollowing(r, n, b) ==
    LET run == RunOf(r.m_headers, n + 1) IN
    [r EXCEPT !.m_headerIdToNumber = Only(@, DOMAIN @ \ {Body[b]}),
              !.m_downloadingBodies = @ \ run, !.m_downloadingHeaders = @ \ run,
              !.m_headers = RemoveAllStartingWith(@, n + 1),
              !.m_bodies = RemoveAllStartingWith(@, n + 1)]

AcceptHeader(acc, b) ==
    LET r == acc.r
        n == Number(b)
        found == [r EXCEPT !.m_haveCommonHeader = TRUE, !.m_lastImportedBlock = n,
                           !.m_lastImportedBlockHash = b]
        parentMismatch == \/ HaveItem(r.m_headers, n - 1) /\ r.m_headers[n - 1] # Parent[b]
                          \/ n = r.m_lastImportedBlock + 1 /\ Parent[b] # r.m_lastImportedBlockHash
        childMismatch == HaveItem(r.m_headers, n + 1) /\ Parent[r.m_headers[n + 1]] # b
    IN  IF acc.over \/ n < ChainStart \/ HaveItem(r.m_headers, n)
           \/ (n <= r.m_lastImportedBlock /\ r.m_haveCommonHeader) THEN acc
        ELSE IF KnownBlock(r, b)
        THEN IF r.m_headers # <<>> /\ First(r.m_headers) = n + 1 /\ childMismatch
             THEN [r |-> RestartSync(found), over |-> TRUE]
             ELSE [acc EXCEPT !.r = found]
        ELSE IF ~ r.m_haveCommonHeader THEN [acc EXCEPT !.r = Insert(r, n, b)]
        ELSE IF parentMismatch THEN [r |-> RestartSync(r), over |-> TRUE]
        ELSE [acc EXCEPT !.r = Insert(IF childMismatch THEN DropFollowing(r, n, b) ELSE r, n, b)]

HeaderRounds(r, sent) ==
    LET after[n \in 0..Len(sent)] ==
            IF n = 0 THEN [r |-> r, over |-> FALSE] ELSE AcceptHeader(after[n - 1], sent[n])
    IN  after

(***************************************************************************)
(* onPeerBlockBodies: one body of the answer.                              *)
(***************************************************************************)
AcceptBody(r, body) ==
    IF body \notin DOMAIN r.m_headerIdToNumber THEN r
    ELSE LET n == r.m_headerIdToNumber[body] IN
         IF ~ HaveItem(r.m_headers, n) \/ HaveItem(r.m_bodies, n) THEN r
         ELSE [r EXCEPT !.m_bodies = MergeInto(@, n, body),
                        !.m_headerIdToNumber = Only(@, DOMAIN @ \ {body})]
BodyRounds(r, sent) ==
    LET after[n \in 0..Len(sent)] == IF n = 0 THEN r ELSE AcceptBody(after[n - 1], sent[n])
    IN  after

-----------------------------------------------------------------------------
Init ==
    /\ chain = RangeOf(Line[Local]) /\ best = Local
    /\ head = FirstHead /\ early = Early
    /\ importing = {} /\ room = FALSE /\ faults = 0
    /\ s = [m_state |-> "Idle", m_headers |-> <<>>, m_bodies |-> <<>>,
            m_downloadingHeaders |-> {}, m_downloadingBodies |-> {},
            m_headerSyncPeers |-> NoDownloads, m_bodySyncPeers |-> NoDownloads,
            m_headerIdToNumber |-> <<>>, m_daoChallengedPeers |-> {},
            m_haveCommonHeader |-> FALSE, m_lastImportedBlock |-> Number(Local),
            m_lastImportedBlockHash |-> Local, m_syncingTotalDifficulty |-> 0,
            peers |-> <<>>, queue |-> NoQueue, asserted |-> TRUE]

Alive == s.asserted         \* a failed assertion aborts the process
Outside == UNCHANGED <<chain, best, early, importing, room>>
Fault == faults < MaxFaults /\ faults' = faults + 1
Answering(p, kind) == Alive /\ p \in Connected(s) /\ s.peers[p].enabled /\ s.peers[p].asked.kind = kind

(***************************************************************************)
(* A session begins; EthereumPeer::init sends our status.                  *)
(***************************************************************************)
Connect(p) ==
    /\ Alive /\ p \notin Connected(s)
    /\ s' = [s EXCEPT !.peers = MergeInto(@, p, NewPeer(head[p]))]
    /\ UNCHANGED <<head, faults>> /\ Outside

(***************************************************************************)
(* onPeerStatus: a peer of another network or version is disabled.         *)
(***************************************************************************)
OnPeerStatus(p) ==
    /\ Answering(p, "State")
    /\ LET r == [Ask(s, p, Nothing) EXCEPT !.peers[p].m_latestHash = head[p],
                                           !.peers[p].m_totalDifficulty = TotalDifficulty(head[p])]
       IN  \/ Fault /\ s' = Disable(r, p)
           \/ /\ UNCHANGED faults
              /\ s' = IF DaoFork = 0 THEN SyncPeer(r, p, TRUE)
                      ELSE Ask([r EXCEPT !.m_daoChallengedPeers = @ \cup {p}], p, Headers(DaoFork, 1))
    /\ UNCHANGED head /\ Outside

(***************************************************************************)
(* What a peer answers (EthereumHostData): the headers of its own chain it *)
(* was asked for, the bodies of the blocks it knows; a part of them when   *)
(* the answer would be too large, or it has changed to another chain.      *)
(***************************************************************************)
HeadersSent(b, request) ==
    IF "block" \in DOMAIN request
    THEN IF request.block \in RangeOf(Line[b]) THEN <<request.block>> ELSE <<>>
    ELSE SubSeq(Line[b], request.start + 1, Min({request.start + request.count, Len(Line[b])}))
BodiesSent(b, request) ==
    LET known == SelectSeq(request.blocks, LAMBDA h : h \in RangeOf(Line[b]))
    IN  [i \in DOMAIN known |-> Body[known[i]]]
FirstOf(full, n) == [i \in 1..n |-> full[i]]
Answer(full, n) ==
    \/ n = Len(full) /\ UNCHANGED faults
    \/ Short /\ n < Len(full) /\ Fault

OnPeerBlockHeaders(p, sent, order) ==
    LET idle == Ask(s, p, Nothing)
        cleared == ClearPeerDownload(idle, p)
        acc == HeaderRounds(cleared, sent)[Len(sent)]
    IN  IF p \in s.m_daoChallengedPeers
        THEN IF Len(sent) = 1 /\ Number(sent[1]) = DaoFork /\ sent[1] \in DaoBlocks
             THEN [SyncPeer(idle, p, FALSE) EXCEPT !.m_daoChallengedPeers = @ \ {p}]
             ELSE Disable([idle EXCEPT !.m_daoChallengedPeers = @ \ {p}], p)
        ELSE IF s.m_state # "Blocks" THEN cleared
        ELSE IF acc.over THEN acc.r
        ELSE ContinueSync(CollectBlocks(acc.r), order)

HeadersArrive(p) ==
    /\ Answering(p, "BlockHeaders")
    /\ LET full == HeadersSent(head[p], s.peers[p].asked) IN
       \E i \in 0..Len(full), order \in Orders(s) :
          /\ Answer(full, i)
          /\ s' = OnPeerBlockHeaders(p, FirstOf(full, i), order)
    /\ UNCHANGED head /\ Outside

OnPeerBlockBodies(p, sent, order) ==
    LET cleared == ClearPeerDownload(Ask(s, p, Nothing), p)
    IN  IF s.m_state # "Blocks" THEN cleared
        ELSE ContinueSync(CollectBlocks(BodyRounds(cleared, sent)[Len(sent)]), order)

BodiesArrive(p) ==
    /\ Answering(p, "BlockBodies")
    /\ LET full == BodiesSent(head[p], s.peers[p].asked) IN
       \E i \in 0..Len(full), order \in Orders(s) :
          /\ Answer(full, i)
          /\ s' = OnPeerBlockBodies(p, FirstOf(full, i), order)
    /\ UNCHANGED head /\ Outside

(***************************************************************************)
(* The chain of a peer grows, and it sends the block (onPeerNewBlock).     *)
(***************************************************************************)
NewBlockImported(r, n, b) ==
    LET later == n > r.m_lastImportedBlock
        taken == [r EXCEPT !.m_lastImportedBlock = IF later THEN n ELSE @,
                           !.m_lastImportedBlockHash = IF later THEN b ELSE @,
                           !.m_downloadingBodies = @ \ {n}, !.m_downloadingHeaders = @ \ {n},
                           !.m_headers = RemoveItem(@, n), !.m_bodies = RemoveItem(@, n)]
    IN  IF taken.m_headers = <<>> THEN CompleteSync(taken) ELSE taken

NewBlockUnknown(r, p, b) ==
    LET counted == [r EXCEPT !.peers[p].m_unknownNewBlocks = @ + 1]
        restarted == IF counted.peers[p].m_unknownNewBlocks > MaxUnknownNew
                     THEN RestartSync(Disable(counted, p)) ELSE counted
    IN  IF TotalDifficulty(b) > r.peers[p].m_totalDifficulty THEN SyncPeer(restarted, p, TRUE)
        ELSE restarted

OnPeerNewBlock(p, b) ==
    LET n == Number(b)
        import == Import(s.queue, b, Body[b])
        r == [s EXCEPT !.queue = import.queue]
    IN  s' = IF n > s.m_lastImportedBlock + 1 THEN SyncPeer(s, p, TRUE)
             ELSE CASE import.result = "Success" -> NewBlockImported(r, n, b)
                    [] import.result \in {"Malformed", "BadChain"} -> Disable(r, p)
                    [] import.result \in {"FutureTimeUnknown", "UnknownParent"} -> NewBlockUnknown(r, p, b)
                    [] OTHER -> r

Grows(p, b) ==
    /\ Alive /\ p \in Connected(s) /\ s.peers[p].enabled /\ s.peers[p].asked.kind # "State"
    /\ b # Genesis /\ Parent[b] = head[p] /\ head' = [head EXCEPT ![p] = b]
    /\ UNCHANGED faults /\ Outside

NewBlock(p, b) == Grows(p, b) /\ OnPeerNewBlock(p, b)

(***************************************************************************)
(* Or only its hash (onPeerNewHashes).                                     *)
(***************************************************************************)
OnPeerNewHashes(p, b) ==
    s' = IF ~ Idle(s, p) \/ KnownBlock(s, b) \/ b \in s.queue.unknown \cup s.queue.bad THEN s
         ELSE SyncPeer([s EXCEPT !.peers[p].m_latestHash = b], p, TRUE)

NewHashes(p, b) == Grows(p, b) /\ OnPeerNewHashes(p, b)

(***************************************************************************)
(* A session ends: the peer leaves, or tick finds that it has not answered *)
(* for ten seconds.  The destructor of the peer calls onPeerAborting.      *)
(***************************************************************************)
OnPeerAborting(p) ==
    LET left == [s EXCEPT !.peers = Only(@, DOMAIN @ \ {p})] IN
    \E order \in Orders(left) : s' = ContinueSync(ClearDownloads(left, {p}), order)

Leave(p) ==
    /\ Alive /\ p \in Connected(s) /\ Fault
    /\ OnPeerAborting(p)
    /\ UNCHANGED head /\ Outside

(***************************************************************************)
(* EthereumPeer::tick, for a peer that will not answer: its packets are    *)
(* no longer interpreted.                                                  *)
(***************************************************************************)
Unanswered(p) == Alive /\ p \in Connected(s) /\ ~ s.peers[p].enabled /\ ~ Idle(s, p)
Tick(p) ==
    /\ Unanswered(p)
    /\ OnPeerAborting(p)
    /\ UNCHANGED <<head, faults>> /\ Outside

(***************************************************************************)
(* EthereumHost::reset, when the client reopens the chain: the queue is    *)
(* cleared and every peer's abortSync continues the sync just reset.       *)
(***************************************************************************)
AbortSync ==
    /\ Alive /\ Reopens
    /\ \E order \in Orders(s) :
          s' = ContinueSync(ResetSync([s EXCEPT !.queue = [NoQueue EXCEPT !.bad = s.queue.bad]]), order)
    /\ Fault /\ UNCHANGED head /\ Outside

-----------------------------------------------------------------------------
(***************************************************************************)
(* The other threads.  The client drains the queue, which may signal room  *)
(* for more, and imports what it drained; onBlockImported follows.         *)
(***************************************************************************)
Verified(q) == {b \in q.ready : RangeOf(Line[b]) \cap q.ready \cap Rejected = {}}
DrainSilently ==
    /\ Alive /\ importing = {} /\ s.queue.draining = {} /\ Verified(s.queue) # {}
    /\ s' = [s EXCEPT !.queue.draining = Verified(s.queue), !.queue.ready = @ \ Verified(s.queue)]
    /\ importing' = Verified(s.queue)
    /\ UNCHANGED <<chain, best, head, early, room, faults>>
Drain ==
    /\ Alive /\ importing = {} /\ s.queue.draining = {} /\ Verified(s.queue) # {}
    /\ s' = [s EXCEPT !.queue.draining = Verified(s.queue), !.queue.ready = @ \ Verified(s.queue)]
    /\ importing' = Verified(s.queue)
    /\ room' = (room \/ (KnownFull(s.queue) /\ ~ KnownFull(s'.queue)))
    /\ UNCHANGED <<chain, best, head, early, faults>>

OnBlockImported(r, b) ==
    IF Number(b) > r.m_lastImportedBlock
    THEN [r EXCEPT !.m_lastImportedBlock = Number(b), !.m_lastImportedBlockHash = b]
    ELSE r

ClientImport(b) ==
    /\ Alive /\ importing # {}
    /\ chain' = chain \cup {c \in importing : RangeOf(Line[c]) \subseteq chain \cup importing}
    /\ b \in chain' /\ \A c \in chain' : TotalDifficulty(c) <= TotalDifficulty(b)
    /\ TotalDifficulty(b) = TotalDifficulty(best) => b = best
    /\ best' = b /\ importing' = {}
    /\ LET done == [s EXCEPT !.queue.draining = {}]
       IN  s' = IF b = best THEN done ELSE OnBlockImported(done, b)
    /\ UNCHANGED <<head, early, room, faults>>

RoomAvailable ==
    /\ Alive /\ room /\ room' = FALSE
    /\ \E order \in Orders(s) : s' = ContinueSync([s EXCEPT !.m_state = "Blocks"], order)
    /\ UNCHANGED <<chain, best, head, early, importing, faults>>

VerifierRejects(b) ==
    /\ Alive /\ b \in s.queue.ready \cap Rejected
    /\ s' = [s EXCEPT !.queue = WithoutBad(@, b)]
    /\ UNCHANGED <<head, faults>> /\ Outside

(***************************************************************************)
(* The time of a block comes, and BlockQueue::tick imports it if it waits. *)
(***************************************************************************)
TimeComes(b) ==
    /\ Alive /\ b \in early /\ early' = early \ {b}
    /\ s' = IF b \in s.queue.future
            THEN [s EXCEPT !.queue = Enqueue([s.queue EXCEPT !.future = @ \ {b}], b).queue] ELSE s
    /\ UNCHANGED <<chain, best, head, importing, room, faults>>

(***************************************************************************)
(* The node seals a block of its own (Client::submitSealed).               *)
(***************************************************************************)
Seal(b) ==
    /\ Alive /\ b \in Sealed \ (chain \cup Queued(s.queue)) /\ Parent[b] = best
    /\ s' = [s EXCEPT !.queue = Enqueue(@, b).queue]
    /\ UNCHANGED <<head, faults>> /\ Outside

FromPeer(p) ==
    \/ Connect(p) \/ OnPeerStatus(p) \/ HeadersArrive(p) \/ BodiesArrive(p)
    \/ Leave(p) \/ Tick(p)
    \/ \E b \in Blocks : NewBlock(p, b) \/ NewHashes(p, b)

Next ==
    \/ \E p \in Peers : FromPeer(p)
    \/ AbortSync \/ Drain \/ RoomAvailable
    \/ \E b \in Blocks : ClientImport(b) \/ VerifierRejects(b) \/ TimeComes(b) \/ Seal(b)

Spec == Init /\ [][Next]_vars

(***************************************************************************)
(* Peers connect and answer, or are dropped when they do not               *)
(* (EthereumPeer::tick); the client thread and the verifiers run, and time *)
(* passes.  The fairness of a peer's answers is written out: MayAnswer is  *)
(* the state predicate that says that its answer would change something.   *)
(***************************************************************************)
MayAnswer(p) ==
    \/ Answering(p, "State")
    \/ /\ Answering(p, "BlockHeaders")
       /\ \E order \in Orders(s) :
             OnPeerBlockHeaders(p, HeadersSent(head[p], s.peers[p].asked), order) # s
    \/ /\ Answering(p, "BlockBodies")
       /\ \E order \in Orders(s) :
             OnPeerBlockBodies(p, BodiesSent(head[p], s.peers[p].asked), order) # s
Answers(p) == OnPeerStatus(p) \/ HeadersArrive(p) \/ BodiesArrive(p)

FairSpec ==
    /\ Spec
    /\ \A p \in Peers : []<> ~ MayAnswer(p) \/ []<><<Answers(p)>>_vars
    /\ \A p \in Peers : []<> ~ Unanswered(p) \/ []<><<Tick(p)>>_vars
    /\ \A p \in Peers : WF_vars(Connect(p))
    /\ WF_vars(Drain)
    /\ []<> ~ (Alive /\ room) \/ []<><<RoomAvailable>>_vars
    /\ WF_vars(\E b \in Blocks : ClientImport(b) \/ VerifierRejects(b) \/ TimeComes(b))

-----------------------------------------------------------------------------
(***************************************************************************)
(* Properties.                                                             *)
(***************************************************************************)
\* A header or body that is marked as being downloaded, so that requestBlocks
\* asks nobody else for it, is on the list of a peer that is asked for such
\* items now: clearPeerDownload frees it when the answer comes, late or
\* short, and onPeerAborting when the peer goes.  Otherwise nobody would ever
\* ask for it again.
DownloadsOwned ==
    /\ s.m_downloadingHeaders \subseteq UNION RangeOf(s.m_headerSyncPeers)
    /\ s.m_downloadingBodies \subseteq UNION RangeOf(s.m_bodySyncPeers)
    /\ \A p \in DOMAIN s.m_headerSyncPeers :
          p \in Connected(s) /\ s.peers[p].asked.kind = "BlockHeaders"
    /\ \A p \in DOMAIN s.m_bodySyncPeers :
          p \in Connected(s) /\ s.peers[p].asked.kind = "BlockBodies"

\* The next headers of a challenged peer are its answer to the challenge:
\* onPeerBlockHeaders takes them for it whatever they are, and disables the
\* peer when they are not the header of the fork block.  So nothing else may
\* be asked of a peer in m_daoChallengedPeers, by an announcement, another
\* peer's answer, or a reset of the download.
ChallengeInFlight ==
    \A p \in s.m_daoChallengedPeers :
        p \in Connected(s) /\ s.peers[p].asked = Headers(DaoFork, 1)

\* While nothing is rejected, a download that waits for the block
\* queue (pauseSync) will be woken: the queue is still full, so that drain
\* has yet to report room, or the report is on its way.
WaitingForRoom == s.m_state = "Waiting" => KnownFull(s.queue) \/ room

\* mergeInto asserts that the item to be merged is not there yet, of the
\* bodies that onPeerBlockHeaders adds for headers without transactions and
\* uncles.
AssertionsHold == s.asserted

\* Two peers of one chain, while this node is on a fork of it, a session may
\* end and a block may come before its time: the node ends up with the chain
\* of its peers, or one as heavy.
Synced == <>(\A p \in Peers : head[p] \in chain \/ TotalDifficulty(head[p]) <= TotalDifficulty(best))
=============================================================================
