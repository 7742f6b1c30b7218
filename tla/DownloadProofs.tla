----------------------------- MODULE DownloadProofs -----------------------------
(***************************************************************************)
(* The marks of the download, the challenges and the pauses, for any tree  *)
(* of blocks, any number of peers, any limits and any answers.             *)
(***************************************************************************)
EXTENDS Download, QueueOpsProofs

(***************************************************************************)
(* The members of the record s, and of a peer; what the loops run over is  *)
(* finite.                                                                 *)
(***************************************************************************)
Members ==
    {"m_state", "m_headers", "m_bodies", "m_downloadingHeaders", "m_downloadingBodies",
     "m_headerSyncPeers", "m_bodySyncPeers", "m_headerIdToNumber", "m_daoChallengedPeers",
     "m_haveCommonHeader", "m_lastImportedBlock", "m_lastImportedBlockHash",
     "m_syncingTotalDifficulty", "peers", "queue", "asserted"}
QueueMembers == {"ready", "draining", "unknown", "bad", "future"}
PeerMembers == {"asked", "m_latestHash", "m_totalDifficulty", "m_unknownNewBlocks", "enabled"}
QueueShaped(q) ==
    DOMAIN q = QueueMembers /\ IsFiniteSet(q.ready) /\ IsFiniteSet(q.unknown)
Shaped(r) ==
    /\ DOMAIN r = Members /\ QueueShaped(r.queue)
    /\ \A p \in DOMAIN r.peers : DOMAIN r.peers[p] = PeerMembers
    /\ IsFiniteSet(DOMAIN r.peers) /\ IsFiniteSet(DOMAIN r.m_headers)

(***************************************************************************)
(* What the properties say of one record.                                  *)
(***************************************************************************)
Owned(r) ==
    /\ r.m_downloadingHeaders \subseteq UNION RangeOf(r.m_headerSyncPeers)
    /\ r.m_downloadingBodies \subseteq UNION RangeOf(r.m_bodySyncPeers)
    /\ \A p \in DOMAIN r.m_headerSyncPeers :
          p \in Connected(r) /\ r.peers[p].asked.kind = "BlockHeaders"
    /\ \A p \in DOMAIN r.m_bodySyncPeers :
          p \in Connected(r) /\ r.peers[p].asked.kind = "BlockBodies"
\* A challenged peer has nothing on its list, since the answer to the
\* challenge does not clear it.
Challenged(r) ==
    \A p \in r.m_daoChallengedPeers :
        /\ p \in Connected(r) /\ r.peers[p].asked = Headers(DaoFork, 1)
        /\ p \notin DOMAIN r.m_headerSyncPeers
Waits(r) == r.m_state = "Waiting" => KnownFull(r.queue) \/ room

(***************************************************************************)
(* The part of a handler that asks nobody: it may free marks, or all, and  *)
(* neither pauses the download nor makes room without waking it.           *)
(***************************************************************************)
Fills(q, w) == q.bad = {} => w.bad = {} /\ q.ready \subseteq w.ready
Wakes(r, t) ==
    /\ r.queue.bad = {} => t.queue.bad = {}
    /\ t.m_state = "Waiting" => r.m_state = "Waiting" /\ Fills(r.queue, t.queue)
Lists(r) == <<r.m_headerSyncPeers, r.m_bodySyncPeers>>
Lessens(r, t) ==
    /\ Shaped(t) /\ Wakes(r, t)
    /\ t.peers = r.peers /\ t.m_daoChallengedPeers = r.m_daoChallengedPeers
    /\ \/ /\ Lists(t) = Lists(r)
          /\ t.m_downloadingHeaders \subseteq r.m_downloadingHeaders
          /\ t.m_downloadingBodies \subseteq r.m_downloadingBodies
       \/ /\ Lists(t) = <<NoDownloads, NoDownloads>>
          /\ t.m_downloadingHeaders = {} /\ t.m_downloadingBodies = {}

LEMMA LessensTransitive ==
    ASSUME NEW r, NEW t, NEW u, Lessens(r, t), Lessens(t, u)
    PROVE  Lessens(r, u)
<1>1. Wakes(r, u)
  BY DEF Lessens, Wakes, Fills
<1>2. CASE Lists(u) = <<NoDownloads, NoDownloads>>
           /\ u.m_downloadingHeaders = {} /\ u.m_downloadingBodies = {}
  BY <1>1, <1>2 DEF Lessens
<1>3. CASE /\ Lists(u) = Lists(t)
           /\ u.m_downloadingHeaders \subseteq t.m_downloadingHeaders
           /\ u.m_downloadingBodies \subseteq t.m_downloadingBodies
  BY <1>1, <1>3 DEF Lessens
<1> QED BY <1>2, <1>3 DEF Lessens

LEMMA FullStaysFull ==
    ASSUME NEW q, NEW w, QueueShaped(q), QueueShaped(w), q.ready \subseteq w.ready, KnownFull(q)
    PROVE  KnownFull(w)
<1>1. Cardinality(q.ready) <= Cardinality(w.ready) /\ Cardinality(q.ready) \in Nat
      /\ Cardinality(w.ready) \in Nat
  BY FS_Subset, FS_CardinalityType DEF QueueShaped
<1> QED BY <1>1, DownloadAssumption DEF KnownFull

LEMMA WakesKeeps ==
    ASSUME NEW r, NEW t, Shaped(r), Shaped(t), Wakes(r, t), r.queue.bad = {}, Waits(r)
    PROVE  t.queue.bad = {} /\ Waits(t)
  BY FullStaysFull DEF Wakes, Fills, Waits, Shaped

LEMMA LessensKeeps ==
    ASSUME NEW r, NEW t, Lessens(r, t)
    PROVE  (Owned(r) => Owned(t)) /\ (Challenged(r) => Challenged(t))
<1>1. CASE /\ Lists(t) = Lists(r)
           /\ t.m_downloadingHeaders \subseteq r.m_downloadingHeaders
           /\ t.m_downloadingBodies \subseteq r.m_downloadingBodies
  BY <1>1 DEF Lessens, Lists, Owned, Challenged, Connected
<1>2. CASE Lists(t) = <<NoDownloads, NoDownloads>>
           /\ t.m_downloadingHeaders = {} /\ t.m_downloadingBodies = {}
  BY <1>2 DEF Lessens, Lists, NoDownloads, Owned, Challenged, Connected
<1> QED BY <1>1, <1>2 DEF Lessens

LEMMA Resets ==
    ASSUME NEW r, Shaped(r)
    PROVE  /\ Lessens(r, ResetSync(r)) /\ ResetSync(r).queue = r.queue
           /\ ResetSync(r).m_state = "NotSynced"
           /\ Lessens(r, RestartSync(r)) /\ RestartSync(r).m_state = "NotSynced"
           /\ Lessens(r, CompleteSync(r)) /\ CompleteSync(r).m_state = "Idle"
<1>1. IsFiniteSet({}) /\ DOMAIN <<>> = {}
  BY FS_EmptySet
<1>2. /\ Lessens(r, ResetSync(r)) /\ ResetSync(r).queue = r.queue
      /\ ResetSync(r).m_state = "NotSynced"
  BY <1>1 DEF Lessens, Wakes, Fills, Lists, Shaped, Members, ResetSync, NoDownloads
<1>3. Lessens(r, RestartSync(r)) /\ RestartSync(r).m_state = "NotSynced"
  <2>1. Shaped(RestartSync(r)) /\ RestartSync(r).queue.bad = r.queue.bad
    BY <1>1, <1>2 DEF Lessens, Shaped, Members, RestartSync, NoQueue, QueueShaped, QueueMembers
  <2> QED BY <1>2, <2>1 DEF Lessens, Wakes, Lists, Shaped, Members, RestartSync
<1>4. Lessens(r, CompleteSync(r)) /\ CompleteSync(r).m_state = "Idle"
  BY <1>2 DEF Lessens, Wakes, Lists, Shaped, Members, CompleteSync
<1> QED BY <1>2, <1>3, <1>4

LEMMA MergeDomain ==
    ASSUME NEW f, NEW n, NEW e
    PROVE  /\ DOMAIN MergeInto(f, n, e) = {n} \cup DOMAIN f
           /\ MergeInto(f, n, e)[n] = e
           /\ \A x \in DOMAIN f : x # n => MergeInto(f, n, e)[x] = f[x]
  BY DEF MergeInto

LEMMA OrdersProperties ==
    ASSUME NEW r, Shaped(r), NEW o \in Orders(r)
    PROVE  o \in Seq(Connected(r))
  BY OrderingsProperties DEF Orders, Shaped, Connected

-----------------------------------------------------------------------------
(***************************************************************************)
(* import() of the block queue.                                            *)
(***************************************************************************)
LEMMA WithoutBadProperties ==
    ASSUME NEW q, QueueShaped(q), NEW b
    PROVE  QueueShaped(WithoutBad(q, b))
<1> DEFINE w == WithoutBad(q, b)
<1>1. DOMAIN w = QueueMembers /\ w.ready \subseteq q.ready /\ w.unknown \subseteq q.unknown
  BY DEF WithoutBad, QueueShaped, QueueMembers
<1> HIDE DEF w
<1>2. QueueShaped(w)
  BY <1>1, FS_Subset DEF QueueShaped
<1> QED BY <1>2 DEF w

Results == {"Success", "AlreadyKnown", "Malformed", "AlreadyInChain", "FutureTimeKnown",
            "FutureTimeUnknown", "UnknownParent", "BadChain"}
LEMMA EnqueueProperties ==
    ASSUME NEW q, QueueShaped(q), NEW b
    PROVE  /\ Enqueue(q, b).result \in Results
           /\ QueueShaped(Enqueue(q, b).queue) /\ Fills(q, Enqueue(q, b).queue)
<1>1. CASE Parent[b] \in q.bad
  <2>1. Enqueue(q, b) = [result |-> "BadChain", queue |-> WithoutBad(q, b)]
    BY <1>1 DEF Enqueue
  <2> QED BY <1>1, <2>1, WithoutBadProperties DEF Results, Fills
<1>2. CASE Parent[b] \notin q.bad /\ Parent[b] \notin Queued(q) \cup chain
  <2> DEFINE w == [q EXCEPT !.unknown = @ \cup {b}]
  <2>1. Enqueue(q, b) = [result |-> "UnknownParent", queue |-> w]
    BY <1>2 DEF Enqueue
  <2>2. DOMAIN w = QueueMembers /\ w.ready = q.ready /\ w.bad = q.bad /\ w.unknown = q.unknown \cup {b}
    BY DEF QueueShaped, QueueMembers
  <2>3. IsFiniteSet(q.unknown \cup {b})
    BY FS_AddElement DEF QueueShaped
  <2> HIDE DEF w
  <2>4. QueueShaped(w) /\ Fills(q, w)
    BY <2>2, <2>3 DEF QueueShaped, Fills
  <2> QED BY <2>1, <2>4 DEF Results
<1>3. CASE Parent[b] \notin q.bad /\ Parent[b] \in Queued(q) \cup chain
  <2> DEFINE R == Released(q, b)
             w == [q EXCEPT !.ready = @ \cup {b} \cup R, !.unknown = @ \ R]
  <2>1. Enqueue(q, b) = [result |-> "Success", queue |-> w]
    BY <1>3 DEF Enqueue
  <2>2. R \subseteq q.unknown
    BY DEF Released
  <2> HIDE DEF R
  <2>3. /\ DOMAIN w = QueueMembers /\ w.ready = q.ready \cup {b} \cup R /\ w.bad = q.bad
        /\ w.unknown = q.unknown \ R
    BY DEF QueueShaped, QueueMembers
  <2>4. IsFiniteSet(R) /\ IsFiniteSet(q.unknown \ R) /\ IsFiniteSet(q.ready \cup {b})
    BY <2>2, FS_Subset, FS_AddElement DEF QueueShaped
  <2>5. IsFiniteSet(q.ready \cup {b} \cup R)
    BY <2>4, FS_Union
  <2> HIDE DEF w
  <2>6. QueueShaped(w) /\ Fills(q, w)
    BY <2>3, <2>4, <2>5 DEF QueueShaped, Fills
  <2> QED BY <2>1, <2>6 DEF Results
<1> QED BY <1>1, <1>2, <1>3

LEMMA ImportProperties ==
    ASSUME NEW q, QueueShaped(q), NEW b, NEW body
    PROVE  /\ Import(q, b, body).result \in Results
           /\ QueueShaped(Import(q, b, body).queue) /\ Fills(q, Import(q, b, body).queue)
<1> DEFINE w == [q EXCEPT !.future = @ \cup {b}]
<1>1. QueueShaped(w) /\ w.ready = q.ready /\ w.bad = q.bad
  BY DEF QueueShaped, QueueMembers
<1> HIDE DEF w
<1>2. \/ Import(q, b, body).queue = q /\ Import(q, b, body).result \in Results
      \/ Import(q, b, body).queue = w /\ Import(q, b, body).result \in Results
      \/ Import(q, b, body) = Enqueue(q, b)
  BY DEF Import, Results, w
<1> QED BY <1>1, <1>2, EnqueueProperties DEF Fills

-----------------------------------------------------------------------------
(***************************************************************************)
(* The rounds of the loops, each of which asks nobody.                     *)
(***************************************************************************)
\* A step that leaves peers, lists, queue and state alone.
Rest(r) == <<r.peers, r.queue, r.m_state, r.m_daoChallengedPeers>>
LEMMA TouchedLessens ==
    ASSUME NEW r, Shaped(r), NEW t, DOMAIN t = Members, IsFiniteSet(DOMAIN t.m_headers),
           Rest(t) = Rest(r), Lists(t) = Lists(r),
           t.m_downloadingHeaders \subseteq r.m_downloadingHeaders,
           t.m_downloadingBodies \subseteq r.m_downloadingBodies
    PROVE  Lessens(r, t)
  BY DEF Rest, Lessens, Wakes, Fills, Shaped

LEMMA QueueLessens ==
    ASSUME NEW r, Shaped(r), NEW w, QueueShaped(w), Fills(r.queue, w)
    PROVE  /\ Lessens(r, [r EXCEPT !.queue = w]) /\ [r EXCEPT !.queue = w].queue = w
           /\ [r EXCEPT !.queue = w].m_state = r.m_state
<1> DEFINE t == [r EXCEPT !.queue = w]
<1>1. /\ DOMAIN t = Members /\ t.queue = w /\ t.peers = r.peers /\ t.m_state = r.m_state
      /\ t.m_daoChallengedPeers = r.m_daoChallengedPeers /\ Lists(t) = Lists(r)
      /\ t.m_downloadingHeaders = r.m_downloadingHeaders
      /\ t.m_downloadingBodies = r.m_downloadingBodies /\ t.m_headers = r.m_headers
  BY DEF Shaped, Members, Lists
<1> HIDE DEF t
<1>2. Lessens(r, t)
  BY <1>1 DEF Lessens, Wakes, Fills, Shaped
<1> QED BY <1>1, <1>2 DEF t

AccShaped(acc) == DOMAIN acc = {"r", "over"} /\ Shaped(acc.r)
LEMMA LessensReflexive ==
    ASSUME NEW r, Shaped(r)
    PROVE  Lessens(r, r)
  BY DEF Lessens, Wakes, Fills

LEMMA CollectOneLessens ==
    ASSUME NEW acc, AccShaped(acc), NEW n
    PROVE  AccShaped(CollectOne(acc, n)) /\ Lessens(acc.r, CollectOne(acc, n).r)
<1> DEFINE r == acc.r
           b == r.m_headers[n]
           import == Import(r.queue, b, r.m_bodies[n])
           after == [r EXCEPT !.queue = import.queue]
           last == [after EXCEPT !.m_lastImportedBlock = n, !.m_lastImportedBlockHash = b]
           lost == [ResetSync(after) EXCEPT !.m_haveCommonHeader = FALSE]
           c == CollectOne(acc, n)
<1>1. Shaped(r)
  BY DEF AccShaped
<1>2. import.result \in Results /\ QueueShaped(import.queue) /\ Fills(r.queue, import.queue)
  BY <1>1, ImportProperties DEF Shaped
<1>3. \/ c = acc
      \/ c = [acc EXCEPT !.r = last] \/ c = [acc EXCEPT !.r = after]
      \/ c = [r |-> RestartSync(after), over |-> TRUE]
      \/ c = [r |-> lost, over |-> TRUE] \/ c = [r |-> after, over |-> TRUE]
  <2> HIDE DEF last, lost
  <2>1. acc.over => c = acc
    BY DEF CollectOne
  <2>2. ~ acc.over /\ import.result = "Success" =>
           c = [acc EXCEPT !.r = last] \/ c = [acc EXCEPT !.r = after]
    BY DEF CollectOne, last
  <2>3. ~ acc.over /\ import.result \in {"Malformed", "BadChain"} =>
           c = [r |-> RestartSync(after), over |-> TRUE]
    BY DEF CollectOne
  <2>4. ~ acc.over /\ import.result \in {"FutureTimeKnown", "AlreadyInChain"} =>
           c = [acc EXCEPT !.r = after]
    BY DEF CollectOne
  <2>5. ~ acc.over /\ import.result \in {"AlreadyKnown", "FutureTimeUnknown", "UnknownParent"} =>
           c = [r |-> lost, over |-> TRUE] \/ c = [r |-> after, over |-> TRUE]
    BY DEF CollectOne, lost
  <2> HIDE DEF c
  <2> QED BY <1>2, <2>1, <2>2, <2>3, <2>4, <2>5 DEF Results
<1>4. Lessens(r, after) /\ Shaped(after)
  BY <1>1, <1>2, QueueLessens DEF Lessens
<1> HIDE DEF after
<1>5. Lessens(after, last)
  <2>1. /\ DOMAIN last = Members /\ Rest(last) = Rest(after) /\ Lists(last) = Lists(after)
        /\ last.m_downloadingHeaders = after.m_downloadingHeaders
        /\ last.m_downloadingBodies = after.m_downloadingBodies /\ last.m_headers = after.m_headers
    BY <1>4 DEF Shaped, Members, Rest, Lists
  <2> HIDE DEF last
  <2> QED BY <1>4, <2>1, TouchedLessens DEF Shaped
<1>6. Lessens(after, ResetSync(after)) /\ Lessens(after, RestartSync(after))
  BY <1>4, Resets
<1>7. Lessens(ResetSync(after), lost)
  <2> DEFINE t == ResetSync(after)
  <2>1. Shaped(t)
    BY <1>6 DEF Lessens
  <2> HIDE DEF t
  <2>2. /\ DOMAIN lost = Members /\ Rest(lost) = Rest(t) /\ Lists(lost) = Lists(t)
        /\ lost.m_downloadingHeaders = t.m_downloadingHeaders
        /\ lost.m_downloadingBodies = t.m_downloadingBodies /\ lost.m_headers = t.m_headers
    BY <2>1 DEF Shaped, Members, Rest, Lists, t
  <2> HIDE DEF lost
  <2>3. Lessens(t, lost)
    BY <2>1, <2>2, TouchedLessens DEF Shaped
  <2> QED BY <2>3 DEF t
<1> HIDE DEF last, lost
<1>8. Lessens(r, last) /\ Lessens(r, RestartSync(after)) /\ Lessens(r, lost)
  BY <1>4, <1>5, <1>6, <1>7, LessensTransitive
<1>9. Lessens(r, c.r) /\ DOMAIN c = {"r", "over"}
  <2> HIDE DEF c
  <2>1. Lessens(r, acc.r)
    BY <1>1, LessensReflexive
  <2> QED BY <1>3, <1>4, <1>8, <2>1 DEF AccShaped
<1> QED BY <1>9 DEF Lessens, AccShaped

LEMMA AcceptBodyLessens ==
    ASSUME NEW r, Shaped(r), NEW body
    PROVE  Lessens(r, AcceptBody(r, body))
<1> DEFINE n == r.m_headerIdToNumber[body]
           t == [r EXCEPT !.m_bodies = MergeInto(@, n, body),
                          !.m_headerIdToNumber = Only(@, DOMAIN @ \ {body})]
<1>1. AcceptBody(r, body) = r \/ AcceptBody(r, body) = t
  BY DEF AcceptBody
<1>2. /\ DOMAIN t = Members /\ Rest(t) = Rest(r) /\ Lists(t) = Lists(r)
      /\ t.m_downloadingHeaders = r.m_downloadingHeaders
      /\ t.m_downloadingBodies = r.m_downloadingBodies /\ t.m_headers = r.m_headers
  BY DEF Shaped, Members, Rest, Lists
<1> HIDE DEF t
<1>3. Lessens(r, t)
  BY <1>2, TouchedLessens DEF Shaped
<1> QED BY <1>1, <1>3, LessensReflexive

LEMMA InsertLessens ==
    ASSUME NEW r, Shaped(r), NEW n, NEW b
    PROVE  Lessens(r, Insert(r, n, b))
<1> DEFINE t == Insert(r, n, b)
<1>1. /\ DOMAIN t = Members /\ Rest(t) = Rest(r) /\ Lists(t) = Lists(r)
      /\ t.m_downloadingHeaders = r.m_downloadingHeaders
      /\ t.m_downloadingBodies = r.m_downloadingBodies
      /\ t.m_headers = MergeInto(r.m_headers, n, b)
  BY DEF Shaped, Members, Rest, Lists, Insert
<1> HIDE DEF t
<1>2. IsFiniteSet(DOMAIN t.m_headers)
  <2>1. DOMAIN t.m_headers = {n} \cup DOMAIN r.m_headers
    BY <1>1 DEF MergeInto
  <2> QED BY <2>1, FS_AddElement DEF Shaped
<1> QED BY <1>1, <1>2, TouchedLessens DEF t

LEMMA DropFollowingLessens ==
    ASSUME NEW r, Shaped(r), NEW n, NEW b
    PROVE  Lessens(r, DropFollowing(r, n, b))
<1> DEFINE t == DropFollowing(r, n, b)
<1>1. /\ DOMAIN t = Members /\ Rest(t) = Rest(r) /\ Lists(t) = Lists(r)
      /\ t.m_downloadingHeaders \subseteq r.m_downloadingHeaders
      /\ t.m_downloadingBodies \subseteq r.m_downloadingBodies
      /\ t.m_headers = RemoveAllStartingWith(r.m_headers, n + 1)
  BY DEF Shaped, Members, Rest, Lists, DropFollowing
<1> HIDE DEF t
<1>2. IsFiniteSet(DOMAIN t.m_headers)
  <2>1. DOMAIN t.m_headers \subseteq DOMAIN r.m_headers
    BY <1>1 DEF RemoveAllStartingWith, Only
  <2> QED BY <2>1, FS_Subset DEF Shaped
<1> QED BY <1>1, <1>2, TouchedLessens DEF t

LEMMA AcceptHeaderLessens ==
    ASSUME NEW acc, AccShaped(acc), NEW b
    PROVE  AccShaped(AcceptHeader(acc, b)) /\ Lessens(acc.r, AcceptHeader(acc, b).r)
<1> DEFINE r == acc.r
           n == Number(b)
           found == [r EXCEPT !.m_haveCommonHeader = TRUE, !.m_lastImportedBlock = n,
                              !.m_lastImportedBlockHash = b]
           c == AcceptHeader(acc, b)
<1>1. Shaped(r)
  BY DEF AccShaped
<1>2. \/ c = acc
      \/ c = [r |-> RestartSync(found), over |-> TRUE]
      \/ c = [acc EXCEPT !.r = found]
      \/ c = [acc EXCEPT !.r = Insert(r, n, b)]
      \/ c = [r |-> RestartSync(r), over |-> TRUE]
      \/ c = [acc EXCEPT !.r = Insert(DropFollowing(r, n, b), n, b)]
  BY DEF AcceptHeader
<1>3. Lessens(r, found) /\ Shaped(found)
  <2>1. /\ DOMAIN found = Members /\ Rest(found) = Rest(r) /\ Lists(found) = Lists(r)
        /\ found.m_downloadingHeaders = r.m_downloadingHeaders
        /\ found.m_downloadingBodies = r.m_downloadingBodies /\ found.m_headers = r.m_headers
    BY <1>1 DEF Shaped, Members, Rest, Lists
  <2> HIDE DEF found
  <2>2. Lessens(r, found)
    BY <1>1, <2>1, TouchedLessens DEF Shaped
  <2> QED BY <2>2 DEF Lessens
<1> HIDE DEF found
<1>4. /\ Lessens(r, r) /\ Lessens(r, RestartSync(r)) /\ Lessens(r, Insert(r, n, b))
      /\ Lessens(r, DropFollowing(r, n, b)) /\ Lessens(found, RestartSync(found))
  BY <1>1, <1>3, LessensReflexive, Resets, InsertLessens, DropFollowingLessens
<1>5. Lessens(DropFollowing(r, n, b), Insert(DropFollowing(r, n, b), n, b))
  BY <1>4, InsertLessens DEF Lessens
<1>6. Lessens(r, RestartSync(found)) /\ Lessens(r, Insert(DropFollowing(r, n, b), n, b))
  BY <1>3, <1>4, <1>5, LessensTransitive
<1>7. Lessens(r, c.r) /\ DOMAIN c = {"r", "over"}
  <2> HIDE DEF c
  <2> QED BY <1>2, <1>3, <1>4, <1>6 DEF AccShaped
<1> QED BY <1>7 DEF Lessens, AccShaped

-----------------------------------------------------------------------------
(***************************************************************************)
(* The loops.  The function that gives the members after n rounds exists,  *)
(* and what every round preserves is preserved by the loop.                *)
(***************************************************************************)
\* The bodies of an answer, one after the other.
LEMMA BodyRoundsDef ==
    ASSUME NEW r, NEW sent, Len(sent) \in Nat
    PROVE  /\ BodyRounds(r, sent)[0] = r
           /\ \A n \in Nat : n + 1 <= Len(sent) =>
                 BodyRounds(r, sent)[n + 1] = AcceptBody(BodyRounds(r, sent)[n], sent[n + 1])
<1> DEFINE f(g, n) == IF n = 0 THEN r ELSE AcceptBody(g[n - 1], sent[n])
           Upto(k, g) == g = [n \in 0..k |-> f(g, n)]
           I == {k \in Nat : \E g : Upto(k, g)}
<1>1. 0 \in I
  <2> DEFINE g == [n \in 0..0 |-> r]
  <2>1. Upto(0, g)
    OBVIOUS
  <2> QED BY <2>1
<1>2. ASSUME NEW k \in I PROVE k + 1 \in I
  <2>1. PICK g : Upto(k, g)
    OBVIOUS
  <2> DEFINE h == [n \in 0..(k + 1) |-> IF n <= k THEN g[n] ELSE f(g, k + 1)]
  <2>2. ASSUME NEW n \in 0..(k + 1) PROVE h[n] = f(h, n)
    <3>1. CASE n = k + 1
      <4>1. h[n] = f(g, k + 1) /\ h[n - 1] = g[n - 1] /\ n # 0
        BY <3>1
      <4> QED BY <3>1, <4>1
    <3>2. CASE n # k + 1
      <4>1. n \in 0..k /\ h[n] = g[n] /\ (n # 0 => h[n - 1] = g[n - 1])
        BY <3>2
      <4>2. g[n] = f(g, n)
        BY <2>1, <4>1
      <4> QED BY <4>1, <4>2
    <3> QED BY <3>1, <3>2
  <2>3. Upto(k + 1, h)
    BY <2>2
  <2> HIDE DEF h, Upto
  <2> QED BY <2>3
<1>3. I = Nat
  <2> HIDE DEF I
  <2>1. I \in SUBSET Nat
    BY DEF I
  <2> QED BY <1>1, <1>2, <2>1, SetInduction
<1>4. PICK g : Upto(Len(sent), g)
  <2> HIDE DEF Upto
  <2> QED BY <1>3
<1> DEFINE p == BodyRounds(r, sent)
<1>5. Upto(Len(sent), p)
  BY <1>4 DEF BodyRounds
<1> HIDE DEF p
<1>6. \A n \in 0..Len(sent) : p[n] = f(p, n)
  BY <1>5
<1>7. ASSUME NEW n \in Nat, n + 1 <= Len(sent)
      PROVE  p[n + 1] = AcceptBody(p[n], sent[n + 1])
  BY <1>6, <1>7
<1>8. p[0] = r
  BY <1>6
<1>9. \A n \in Nat : n + 1 <= Len(sent) => p[n + 1] = AcceptBody(p[n], sent[n + 1])
  BY <1>7
<1> QED BY <1>8, <1>9, Zenon DEF p

\* Accepting bodies asks nobody.
LEMMA BodyRoundsLessen ==
    ASSUME NEW r, Shaped(r), NEW sent, Len(sent) \in Nat
    PROVE  Lessens(r, BodyRounds(r, sent)[Len(sent)])
<1> DEFINE p == BodyRounds(r, sent)
           I == {k \in Nat : k <= Len(sent) => Lessens(r, p[k])}
<1>1. /\ p[0] = r
      /\ \A n \in Nat : n + 1 <= Len(sent) => p[n + 1] = AcceptBody(p[n], sent[n + 1])
  BY BodyRoundsDef
<1> HIDE DEF p
<1>2. 0 \in I
  BY <1>1, LessensReflexive
<1>3. ASSUME NEW k \in I PROVE k + 1 \in I
  <2>1. SUFFICES ASSUME k + 1 <= Len(sent) PROVE Lessens(r, p[k + 1])
    OBVIOUS
  <2>2. Lessens(r, p[k])
    BY <2>1
  <2>3. p[k + 1] = AcceptBody(p[k], sent[k + 1])
    BY <1>1, <2>1
  <2> QED BY <2>2, <2>3, AcceptBodyLessens, LessensTransitive DEF Lessens
<1>4. I = Nat
  <2> HIDE DEF I
  <2>1. I \in SUBSET Nat
    BY DEF I
  <2> QED BY <1>2, <1>3, <2>1, SetInduction
<1>5. Lessens(r, p[Len(sent)])
  BY <1>4
<1> QED BY <1>5 DEF p

\* The headers of an answer, one after the other.
LEMMA HeaderRoundsDef ==
    ASSUME NEW r, NEW sent, Len(sent) \in Nat
    PROVE  /\ HeaderRounds(r, sent)[0] = [r |-> r, over |-> FALSE]
           /\ \A n \in Nat : n + 1 <= Len(sent) =>
                 HeaderRounds(r, sent)[n + 1] = AcceptHeader(HeaderRounds(r, sent)[n], sent[n + 1])
<1> DEFINE Base == [r |-> r, over |-> FALSE]
           f(g, n) == IF n = 0 THEN Base ELSE AcceptHeader(g[n - 1], sent[n])
           Upto(k, g) == g = [n \in 0..k |-> f(g, n)]
           I == {k \in Nat : \E g : Upto(k, g)}
<1> HIDE DEF Base
<1>1. 0 \in I
  <2> DEFINE g == [n \in 0..0 |-> Base]
  <2>1. Upto(0, g)
    OBVIOUS
  <2> QED BY <2>1
<1>2. ASSUME NEW k \in I PROVE k + 1 \in I
  <2>1. PICK g : Upto(k, g)
    OBVIOUS
  <2> DEFINE h == [n \in 0..(k + 1) |-> IF n <= k THEN g[n] ELSE f(g, k + 1)]
  <2>2. ASSUME NEW n \in 0..(k + 1) PROVE h[n] = f(h, n)
    <3>1. CASE n = k + 1
      <4>1. h[n] = f(g, k + 1) /\ h[n - 1] = g[n - 1] /\ n # 0
        BY <3>1
      <4> QED BY <3>1, <4>1
    <3>2. CASE n # k + 1
      <4>1. n \in 0..k /\ h[n] = g[n] /\ (n # 0 => h[n - 1] = g[n - 1])
        BY <3>2
      <4>2. g[n] = f(g, n)
        BY <2>1, <4>1
      <4> QED BY <4>1, <4>2
    <3> QED BY <3>1, <3>2
  <2>3. Upto(k + 1, h)
    BY <2>2
  <2> HIDE DEF h, Upto
  <2> QED BY <2>3
<1>3. I = Nat
  <2> HIDE DEF I
  <2>1. I \in SUBSET Nat
    BY DEF I
  <2> QED BY <1>1, <1>2, <2>1, SetInduction
<1>4. PICK g : Upto(Len(sent), g)
  <2> HIDE DEF Upto
  <2> QED BY <1>3
<1> DEFINE p == HeaderRounds(r, sent)
<1>5. Upto(Len(sent), p)
  BY <1>4 DEF HeaderRounds, Base
<1> HIDE DEF p
<1>6. \A n \in 0..Len(sent) : p[n] = f(p, n)
  BY <1>5
<1>7. ASSUME NEW n \in Nat, n + 1 <= Len(sent)
      PROVE  p[n + 1] = AcceptHeader(p[n], sent[n + 1])
  BY <1>6, <1>7
<1>8. p[0] = Base
  BY <1>6
<1>9. \A n \in Nat : n + 1 <= Len(sent) => p[n + 1] = AcceptHeader(p[n], sent[n + 1])
  BY <1>7
<1> QED BY <1>8, <1>9, Zenon DEF p, Base

\* Accepting headers asks nobody.
LEMMA HeaderRoundsLessen ==
    ASSUME NEW r, Shaped(r), NEW sent, Len(sent) \in Nat
    PROVE  Lessens(r, HeaderRounds(r, sent)[Len(sent)].r)
<1> DEFINE p == HeaderRounds(r, sent)
           I == {k \in Nat : k <= Len(sent) => AccShaped(p[k]) /\ Lessens(r, p[k].r)}
<1>1. /\ p[0] = [r |-> r, over |-> FALSE]
      /\ \A n \in Nat : n + 1 <= Len(sent) => p[n + 1] = AcceptHeader(p[n], sent[n + 1])
  BY HeaderRoundsDef
<1> HIDE DEF p
<1>2. 0 \in I
  BY <1>1, LessensReflexive DEF AccShaped
<1>3. ASSUME NEW k \in I PROVE k + 1 \in I
  <2>1. SUFFICES ASSUME k + 1 <= Len(sent) PROVE AccShaped(p[k + 1]) /\ Lessens(r, p[k + 1].r)
    OBVIOUS
  <2>2. AccShaped(p[k]) /\ Lessens(r, p[k].r)
    BY <2>1
  <2>3. p[k + 1] = AcceptHeader(p[k], sent[k + 1])
    BY <1>1, <2>1
  <2> QED BY <2>2, <2>3, AcceptHeaderLessens, LessensTransitive
<1>4. I = Nat
  <2> HIDE DEF I
  <2>1. I \in SUBSET Nat
    BY DEF I
  <2> QED BY <1>2, <1>3, <2>1, SetInduction
<1>5. AccShaped(p[Len(sent)]) /\ Lessens(r, p[Len(sent)].r)
  BY <1>4
<1> QED BY <1>5 DEF p

\* The complete blocks of collectBlocks, one after the other.
LEMMA CollectRoundsDef ==
    ASSUME NEW r, NEW S, Cardinality(S) \in Nat
    PROVE  /\ CollectRounds(r, S)[0] = [r |-> r, over |-> FALSE]
           /\ \A n \in Nat : n + 1 <= Cardinality(S) =>
                 CollectRounds(r, S)[n + 1] = CollectOne(CollectRounds(r, S)[n], NthOf(S, n + 1))
<1> DEFINE Base == [r |-> r, over |-> FALSE]
           f(g, n) == IF n = 0 THEN Base ELSE CollectOne(g[n - 1], NthOf(S, n))
           Upto(k, g) == g = [n \in 0..k |-> f(g, n)]
           I == {k \in Nat : \E g : Upto(k, g)}
<1> HIDE DEF Base
<1>1. 0 \in I
  <2> DEFINE g == [n \in 0..0 |-> Base]
  <2>1. Upto(0, g)
    OBVIOUS
  <2> QED BY <2>1
<1>2. ASSUME NEW k \in I PROVE k + 1 \in I
  <2>1. PICK g : Upto(k, g)
    OBVIOUS
  <2> DEFINE h == [n \in 0..(k + 1) |-> IF n <= k THEN g[n] ELSE f(g, k + 1)]
  <2>2. ASSUME NEW n \in 0..(k + 1) PROVE h[n] = f(h, n)
    <3>1. CASE n = k + 1
      <4>1. h[n] = f(g, k + 1) /\ h[n - 1] = g[n - 1] /\ n # 0
        BY <3>1
      <4> QED BY <3>1, <4>1
    <3>2. CASE n # k + 1
      <4>1. n \in 0..k /\ h[n] = g[n] /\ (n # 0 => h[n - 1] = g[n - 1])
        BY <3>2
      <4>2. g[n] = f(g, n)
        BY <2>1, <4>1
      <4> QED BY <4>1, <4>2
    <3> QED BY <3>1, <3>2
  <2>3. Upto(k + 1, h)
    BY <2>2
  <2> HIDE DEF h, Upto
  <2> QED BY <2>3
<1>3. I = Nat
  <2> HIDE DEF I
  <2>1. I \in SUBSET Nat
    BY DEF I
  <2> QED BY <1>1, <1>2, <2>1, SetInduction
<1>4. PICK g : Upto(Cardinality(S), g)
  <2> HIDE DEF Upto
  <2> QED BY <1>3
<1> DEFINE p == CollectRounds(r, S)
<1>5. Upto(Cardinality(S), p)
  BY <1>4 DEF CollectRounds, Base
<1> HIDE DEF p
<1>6. \A n \in 0..Cardinality(S) : p[n] = f(p, n)
  BY <1>5
<1>7. ASSUME NEW n \in Nat, n + 1 <= Cardinality(S)
      PROVE  p[n + 1] = CollectOne(p[n], NthOf(S, n + 1))
  BY <1>6, <1>7
<1>8. p[0] = Base
  BY <1>6
<1>9. \A n \in Nat : n + 1 <= Cardinality(S) => p[n + 1] = CollectOne(p[n], NthOf(S, n + 1))
  BY <1>7
<1> QED BY <1>8, <1>9, Zenon DEF p, Base

\* Collecting blocks asks nobody.
LEMMA CollectRoundsLessen ==
    ASSUME NEW r, Shaped(r), NEW S, Cardinality(S) \in Nat
    PROVE  Lessens(r, CollectRounds(r, S)[Cardinality(S)].r)
<1> DEFINE p == CollectRounds(r, S)
           I == {k \in Nat : k <= Cardinality(S) => AccShaped(p[k]) /\ Lessens(r, p[k].r)}
<1>1. /\ p[0] = [r |-> r, over |-> FALSE]
      /\ \A n \in Nat : n + 1 <= Cardinality(S) => p[n + 1] = CollectOne(p[n], NthOf(S, n + 1))
  BY CollectRoundsDef
<1> HIDE DEF p
<1>2. 0 \in I
  BY <1>1, LessensReflexive DEF AccShaped
<1>3. ASSUME NEW k \in I PROVE k + 1 \in I
  <2>1. SUFFICES ASSUME k + 1 <= Cardinality(S) PROVE AccShaped(p[k + 1]) /\ Lessens(r, p[k + 1].r)
    OBVIOUS
  <2>2. AccShaped(p[k]) /\ Lessens(r, p[k].r)
    BY <2>1
  <2>3. p[k + 1] = CollectOne(p[k], NthOf(S, k + 1))
    BY <1>1, <2>1
  <2> QED BY <2>2, <2>3, CollectOneLessens, LessensTransitive
<1>4. I = Nat
  <2> HIDE DEF I
  <2>1. I \in SUBSET Nat
    BY DEF I
  <2> QED BY <1>2, <1>3, <2>1, SetInduction
<1>5. AccShaped(p[Cardinality(S)]) /\ Lessens(r, p[Cardinality(S)].r)
  BY <1>4
<1> QED BY <1>5 DEF p

\* The peers of continueSync, one after the other.
Continued(r, p) == SyncPeer(r, p, FALSE)
LEMMA SyncRoundsDef ==
    ASSUME NEW r, NEW order, Len(order) \in Nat
    PROVE  /\ SyncRounds(r, order)[0] = r
           /\ \A n \in Nat : n + 1 <= Len(order) =>
                 SyncRounds(r, order)[n + 1] = Continued(SyncRounds(r, order)[n], order[n + 1])
<1> DEFINE f(g, n) == IF n = 0 THEN r ELSE Continued(g[n - 1], order[n])
           Upto(k, g) == g = [n \in 0..k |-> f(g, n)]
           I == {k \in Nat : \E g : Upto(k, g)}
<1>1. 0 \in I
  <2> DEFINE g == [n \in 0..0 |-> r]
  <2>1. Upto(0, g)
    OBVIOUS
  <2> QED BY <2>1
<1>2. ASSUME NEW k \in I PROVE k + 1 \in I
  <2>1. PICK g : Upto(k, g)
    OBVIOUS
  <2> DEFINE h == [n \in 0..(k + 1) |-> IF n <= k THEN g[n] ELSE f(g, k + 1)]
  <2>2. ASSUME NEW n \in 0..(k + 1) PROVE h[n] = f(h, n)
    <3>1. CASE n = k + 1
      <4>1. h[n] = f(g, k + 1) /\ h[n - 1] = g[n - 1] /\ n # 0
        BY <3>1
      <4> QED BY <3>1, <4>1
    <3>2. CASE n # k + 1
      <4>1. n \in 0..k /\ h[n] = g[n] /\ (n # 0 => h[n - 1] = g[n - 1])
        BY <3>2
      <4>2. g[n] = f(g, n)
        BY <2>1, <4>1
      <4> QED BY <4>1, <4>2
    <3> QED BY <3>1, <3>2
  <2>3. Upto(k + 1, h)
    BY <2>2
  <2> HIDE DEF h, Upto
  <2> QED BY <2>3
<1>3. I = Nat
  <2> HIDE DEF I
  <2>1. I \in SUBSET Nat
    BY DEF I
  <2> QED BY <1>1, <1>2, <2>1, SetInduction
<1>4. PICK g : Upto(Len(order), g)
  <2> HIDE DEF Upto
  <2> QED BY <1>3
<1> DEFINE p == SyncRounds(r, order)
<1>5. Upto(Len(order), p)
  BY <1>4 DEF SyncRounds, Continued
<1> HIDE DEF p
<1>6. \A n \in 0..Len(order) : p[n] = f(p, n)
  BY <1>5
<1>7. ASSUME NEW n \in Nat, n + 1 <= Len(order)
      PROVE  p[n + 1] = Continued(p[n], order[n + 1])
  BY <1>6, <1>7
<1>8. p[0] = r
  BY <1>6
<1>9. \A n \in Nat : n + 1 <= Len(order) => p[n + 1] = Continued(p[n], order[n + 1])
  BY <1>7
<1> QED BY <1>8, <1>9 DEF p

-----------------------------------------------------------------------------
(***************************************************************************)
(* collectBlocks, and the marks that clearPeerDownload frees.              *)
(***************************************************************************)
LEMMA CollectBlocksLessens ==
    ASSUME NEW r, Shaped(r)
    PROVE  Lessens(r, CollectBlocks(r))
<1> DEFINE front == First(r.m_headers)
           complete == RunOf(r.m_headers, front) \cap RunOf(r.m_bodies, front)
           last == CollectRounds(r, complete)[Cardinality(complete)].r
           rest == [last EXCEPT !.m_headers = Only(@, DOMAIN @ \ complete),
                                !.m_bodies = Only(@, DOMAIN @ \ complete)]
           done == [rest EXCEPT !.asserted = @ /\ rest.m_bodies = <<>>]
<1>1. \/ CollectBlocks(r) = r \/ CollectBlocks(r) = last
      \/ CollectBlocks(r) = RestartSync(last) \/ CollectBlocks(r) = CompleteSync(done)
      \/ CollectBlocks(r) = rest
  BY DEF CollectBlocks
<1>2. complete \subseteq DOMAIN r.m_headers
  BY DEF RunOf
<1>3. Cardinality(complete) \in Nat
  BY <1>2, FS_Subset, FS_CardinalityType DEF Shaped
<1> HIDE DEF complete
<1>4. Lessens(r, last) /\ Shaped(last)
  <2>1. Lessens(r, last)
    BY <1>3, CollectRoundsLessen
  <2> QED BY <2>1 DEF Lessens
<1> HIDE DEF last
<1>5. Lessens(last, rest) /\ Shaped(rest)
  <2>1. /\ DOMAIN rest = Members /\ Rest(rest) = Rest(last) /\ Lists(rest) = Lists(last)
        /\ rest.m_downloadingHeaders = last.m_downloadingHeaders
        /\ rest.m_downloadingBodies = last.m_downloadingBodies
        /\ rest.m_headers = Only(last.m_headers, DOMAIN last.m_headers \ complete)
    BY <1>4 DEF Shaped, Members, Rest, Lists
  <2> HIDE DEF rest
  <2>2. IsFiniteSet(DOMAIN rest.m_headers)
    <3>1. DOMAIN rest.m_headers \subseteq DOMAIN last.m_headers
      BY <2>1 DEF Only
    <3> QED BY <1>4, <3>1, FS_Subset DEF Shaped
  <2>3. Lessens(last, rest)
    BY <1>4, <2>1, <2>2, TouchedLessens
  <2> QED BY <2>3 DEF Lessens
<1> HIDE DEF rest
<1>6. Lessens(rest, done) /\ Shaped(done)
  <2>1. /\ DOMAIN done = Members /\ Rest(done) = Rest(rest) /\ Lists(done) = Lists(rest)
        /\ done.m_downloadingHeaders = rest.m_downloadingHeaders
        /\ done.m_downloadingBodies = rest.m_downloadingBodies
        /\ done.m_headers = rest.m_headers
    BY <1>5 DEF Shaped, Members, Rest, Lists
  <2> HIDE DEF done
  <2>2. Lessens(rest, done)
    BY <1>5, <2>1, TouchedLessens DEF Shaped
  <2> QED BY <2>2 DEF Lessens
<1> HIDE DEF done
<1>7. Lessens(last, RestartSync(last)) /\ Lessens(done, CompleteSync(done))
  BY <1>4, <1>6, Resets
<1>8. Lessens(r, rest) /\ Lessens(r, RestartSync(last))
  BY <1>4, <1>5, <1>7, LessensTransitive
<1>9. Lessens(r, done)
  BY <1>6, <1>8, LessensTransitive
<1>10. Lessens(r, CompleteSync(done))
  BY <1>7, <1>9, LessensTransitive
<1> QED BY <1>1, <1>4, <1>8, <1>10, LessensReflexive

\* Everything but the lists of the peers in G, which may have left or been
\* asked for something else.
OwnedBut(r, G) ==
    /\ r.m_downloadingHeaders \subseteq UNION RangeOf(r.m_headerSyncPeers)
    /\ r.m_downloadingBodies \subseteq UNION RangeOf(r.m_bodySyncPeers)
    /\ \A p \in DOMAIN r.m_headerSyncPeers \ G :
          p \in Connected(r) /\ r.peers[p].asked.kind = "BlockHeaders"
    /\ \A p \in DOMAIN r.m_bodySyncPeers \ G :
          p \in Connected(r) /\ r.peers[p].asked.kind = "BlockBodies"

\* What is marked and not on the lists that go is on the lists that stay.
LEMMA StillListed ==
    ASSUME NEW f, NEW G, NEW D, D \subseteq UNION RangeOf(f)
    PROVE  D \ UNION {f[p] : p \in DOMAIN f \cap G} \subseteq UNION RangeOf(Only(f, DOMAIN f \ G))
<1> DEFINE h == Only(f, DOMAIN f \ G)
<1>1. DOMAIN h = DOMAIN f \ G /\ \A p \in DOMAIN h : h[p] = f[p]
  BY DEF Only
<1>2. SUFFICES ASSUME NEW d \in D \ UNION {f[p] : p \in DOMAIN f \cap G}
               PROVE  d \in UNION RangeOf(h)
  OBVIOUS
<1>3. PICK p \in DOMAIN f : d \in f[p]
  BY DEF RangeOf
<1>4. p \in DOMAIN h
  BY <1>1, <1>2, <1>3
<1> HIDE DEF h
<1> QED BY <1>1, <1>3, <1>4 DEF RangeOf

LEMMA ClearDownloadsProperties ==
    ASSUME NEW r, Shaped(r), NEW G, OwnedBut(r, G)
    PROVE  LET t == ClearDownloads(r, G) IN
           /\ Shaped(t) /\ Owned(t)
           /\ t.queue = r.queue /\ t.peers = r.peers /\ t.m_state = r.m_state
           /\ t.m_daoChallengedPeers = r.m_daoChallengedPeers \ G
           /\ DOMAIN t.m_headerSyncPeers = DOMAIN r.m_headerSyncPeers \ G
           /\ DOMAIN t.m_bodySyncPeers = DOMAIN r.m_bodySyncPeers \ G
<1> DEFINE t == ClearDownloads(r, G)
           hs == r.m_headerSyncPeers
           bs == r.m_bodySyncPeers
<1>1. /\ DOMAIN t = Members /\ t.queue = r.queue /\ t.peers = r.peers /\ t.m_state = r.m_state
      /\ t.m_headers = r.m_headers
      /\ t.m_daoChallengedPeers = r.m_daoChallengedPeers \ G
      /\ t.m_headerSyncPeers = Only(hs, DOMAIN hs \ G)
      /\ t.m_bodySyncPeers = Only(bs, DOMAIN bs \ G)
      /\ t.m_downloadingHeaders = r.m_downloadingHeaders \ UNION {hs[p] : p \in DOMAIN hs \cap G}
      /\ t.m_downloadingBodies = r.m_downloadingBodies \ UNION {bs[p] : p \in DOMAIN bs \cap G}
  BY DEF ClearDownloads, Shaped, Members
<1> HIDE DEF t
<1>2. /\ DOMAIN t.m_headerSyncPeers = DOMAIN hs \ G
      /\ DOMAIN t.m_bodySyncPeers = DOMAIN bs \ G
  BY <1>1 DEF Only
<1>3. /\ t.m_downloadingHeaders \subseteq UNION RangeOf(t.m_headerSyncPeers)
      /\ t.m_downloadingBodies \subseteq UNION RangeOf(t.m_bodySyncPeers)
  BY <1>1, StillListed DEF OwnedBut
<1>4. Shaped(t)
  BY <1>1 DEF Shaped
<1>5. Owned(t)
  BY <1>1, <1>2, <1>3 DEF Owned, OwnedBut, Connected
<1> QED BY <1>1, <1>2, <1>4, <1>5 DEF t

-----------------------------------------------------------------------------
(***************************************************************************)
(* Asking a peer.  Free(r, p): p is connected and owns no list.            *)
(***************************************************************************)
Free(r, p) ==
    /\ Shaped(r) /\ Owned(r) /\ p \in DOMAIN r.peers
    /\ p \notin DOMAIN r.m_headerSyncPeers /\ p \notin DOMAIN r.m_bodySyncPeers
\* From r to t at most p is asked, and the download pauses only when the
\* queue is full.
Asks(r, p, t) ==
    /\ Shaped(t) /\ Owned(t) /\ t.queue = r.queue
    /\ DOMAIN t.peers = DOMAIN r.peers
    /\ \A q \in DOMAIN r.peers : q # p => t.peers[q] = r.peers[q]
    /\ t.m_daoChallengedPeers \subseteq r.m_daoChallengedPeers
    /\ DOMAIN t.m_headerSyncPeers \subseteq DOMAIN r.m_headerSyncPeers \cup {p}
    /\ t.m_state = "Waiting" => r.m_state = "Waiting" \/ KnownFull(t.queue)

LEMMA AsksTransitive ==
    ASSUME NEW r, NEW t, NEW u, NEW p, Asks(r, p, t), Asks(t, p, u)
    PROVE  Asks(r, p, u)
  BY DEF Asks

LEMMA AskMembers ==
    ASSUME NEW r, Shaped(r), NEW p \in DOMAIN r.peers, NEW request
    PROVE  LET t == Ask(r, p, request) IN
           /\ Shaped(t) /\ DOMAIN t = Members
           /\ DOMAIN t.peers = DOMAIN r.peers /\ t.peers[p].asked = request
           /\ \A q \in DOMAIN r.peers : q # p => t.peers[q] = r.peers[q]
           /\ t.peers[p].m_totalDifficulty = r.peers[p].m_totalDifficulty
           /\ t.queue = r.queue /\ t.m_state = r.m_state /\ Lists(t) = Lists(r)
           /\ t.m_daoChallengedPeers = r.m_daoChallengedPeers
           /\ t.m_downloadingHeaders = r.m_downloadingHeaders
           /\ t.m_downloadingBodies = r.m_downloadingBodies
<1> DEFINE t == Ask(r, p, request)
           a == [r.peers[p] EXCEPT !.asked = request]
<1>1. /\ DOMAIN t = Members /\ t.queue = r.queue /\ t.m_state = r.m_state /\ Lists(t) = Lists(r)
      /\ t.m_daoChallengedPeers = r.m_daoChallengedPeers
      /\ t.m_downloadingHeaders = r.m_downloadingHeaders
      /\ t.m_downloadingBodies = r.m_downloadingBodies /\ t.m_headers = r.m_headers
      /\ t.peers = [r.peers EXCEPT ![p] = a]
  BY DEF Ask, Shaped, Members, Lists
<1>2. /\ DOMAIN a = PeerMembers /\ a.asked = request
      /\ a.m_totalDifficulty = r.peers[p].m_totalDifficulty
  BY DEF Shaped, PeerMembers
<1> HIDE DEF t, a
<1>3. /\ DOMAIN t.peers = DOMAIN r.peers /\ t.peers[p] = a
      /\ \A q \in DOMAIN r.peers : q # p => t.peers[q] = r.peers[q]
  BY <1>1
<1>4. Shaped(t)
  BY <1>1, <1>2, <1>3 DEF Shaped
<1> QED BY <1>1, <1>2, <1>3, <1>4 DEF t

LEMMA AskFree ==
    ASSUME NEW r, NEW p, Free(r, p), NEW request
    PROVE  Asks(r, p, Ask(r, p, request))
<1> DEFINE t == Ask(r, p, request)
<1>1. /\ Shaped(t) /\ DOMAIN t.peers = DOMAIN r.peers
      /\ \A q \in DOMAIN r.peers : q # p => t.peers[q] = r.peers[q]
      /\ t.queue = r.queue /\ t.m_state = r.m_state /\ Lists(t) = Lists(r)
      /\ t.m_daoChallengedPeers = r.m_daoChallengedPeers
      /\ t.m_downloadingHeaders = r.m_downloadingHeaders
      /\ t.m_downloadingBodies = r.m_downloadingBodies
  BY AskMembers DEF Free
<1> HIDE DEF t
<1>2. t.m_headerSyncPeers = r.m_headerSyncPeers /\ t.m_bodySyncPeers = r.m_bodySyncPeers
  BY <1>1 DEF Lists
<1>3. Owned(t)
  BY <1>1, <1>2 DEF Free, Owned, Connected
<1> QED BY <1>1, <1>2, <1>3 DEF Asks, t

\* A step that leaves everything alone that the properties speak of.
LEMMA TouchedAsks ==
    ASSUME NEW r, NEW p, Free(r, p), NEW t, DOMAIN t = Members,
           t.m_headers = r.m_headers, Lists(t) = Lists(r),
           t.peers = r.peers, t.queue = r.queue, t.m_daoChallengedPeers = r.m_daoChallengedPeers,
           t.m_downloadingHeaders = r.m_downloadingHeaders,
           t.m_downloadingBodies = r.m_downloadingBodies,
           t.m_state = "Waiting" => r.m_state = "Waiting" \/ KnownFull(t.queue)
    PROVE  Asks(r, p, t) /\ Free(t, p)
<1>1. t.m_headerSyncPeers = r.m_headerSyncPeers /\ t.m_bodySyncPeers = r.m_bodySyncPeers
  BY DEF Lists
<1>2. Shaped(t)
  BY DEF Free, Shaped
<1>3. Owned(t)
  BY <1>1 DEF Free, Owned, Connected
<1> QED BY <1>1, <1>2, <1>3 DEF Free, Asks

\* A list that is added covers its marks.
LEMMA ListAdded ==
    ASSUME NEW f, NEW p, p \notin DOMAIN f, NEW D, D \subseteq UNION RangeOf(f), NEW w
    PROVE  D \cup w \subseteq UNION RangeOf(MergeInto(f, p, w))
<1> DEFINE h == MergeInto(f, p, w)
<1>1. DOMAIN h = {p} \cup DOMAIN f /\ h[p] = w /\ \A q \in DOMAIN f : h[q] = f[q]
  BY DEF MergeInto
<1> HIDE DEF h
<1>2. ASSUME NEW d \in D PROVE d \in UNION RangeOf(h)
  <2>1. PICK q \in DOMAIN f : d \in f[q]
    BY DEF RangeOf
  <2> QED BY <1>1, <2>1 DEF RangeOf
<1>3. ASSUME NEW d \in w PROVE d \in UNION RangeOf(h)
  BY <1>1 DEF RangeOf
<1>4. D \cup w \subseteq UNION RangeOf(h)
  BY <1>2, <1>3
<1> QED BY <1>4 DEF h

LEMMA RequestBodiesAsks ==
    ASSUME NEW r, NEW p, Free(r, p)
    PROVE  Asks(r, p, RequestBodies(r, p))
<1> DEFINE needed == NeededBodies(r)
           hashes == [i \in 1..Cardinality(needed) |-> r.m_headers[NthOf(needed, i)]]
           m == [r EXCEPT !.m_downloadingBodies = @ \cup needed,
                          !.m_bodySyncPeers = MergeInto(@, p, needed)]
           t == Ask(m, p, Bodies(hashes))
<1>1. RequestBodies(r, p) = t
  BY DEF RequestBodies
<1> HIDE DEF needed, hashes
<1>2. /\ DOMAIN m = Members /\ m.queue = r.queue /\ m.m_state = r.m_state /\ m.peers = r.peers
      /\ m.m_headerSyncPeers = r.m_headerSyncPeers
      /\ m.m_bodySyncPeers = MergeInto(r.m_bodySyncPeers, p, needed)
      /\ m.m_daoChallengedPeers = r.m_daoChallengedPeers
      /\ m.m_downloadingHeaders = r.m_downloadingHeaders
      /\ m.m_downloadingBodies = r.m_downloadingBodies \cup needed /\ m.m_headers = r.m_headers
  BY DEF Free, Shaped, Members
<1> HIDE DEF m
<1>3. Shaped(m) /\ p \in DOMAIN m.peers
  BY <1>2 DEF Free, Shaped
<1>4. /\ Shaped(t) /\ DOMAIN t.peers = DOMAIN r.peers /\ t.peers[p].asked = Bodies(hashes)
      /\ \A q \in DOMAIN r.peers : q # p => t.peers[q] = r.peers[q]
      /\ t.queue = r.queue /\ t.m_state = r.m_state /\ Lists(t) = Lists(m)
      /\ t.m_daoChallengedPeers = r.m_daoChallengedPeers
      /\ t.m_downloadingHeaders = m.m_downloadingHeaders
      /\ t.m_downloadingBodies = m.m_downloadingBodies
  BY <1>2, <1>3, AskMembers
<1> HIDE DEF t
<1>5. /\ t.m_headerSyncPeers = r.m_headerSyncPeers
      /\ t.m_bodySyncPeers = MergeInto(r.m_bodySyncPeers, p, needed)
  BY <1>2, <1>4 DEF Lists
<1>6. t.m_downloadingBodies \subseteq UNION RangeOf(t.m_bodySyncPeers)
  <2>1. /\ r.m_downloadingBodies \subseteq UNION RangeOf(r.m_bodySyncPeers)
        /\ p \notin DOMAIN r.m_bodySyncPeers
    BY DEF Free, Owned
  <2>2. r.m_downloadingBodies \cup needed
           \subseteq UNION RangeOf(MergeInto(r.m_bodySyncPeers, p, needed))
    BY <2>1, ListAdded
  <2> QED BY <1>2, <1>4, <1>5, <2>2
<1>7. DOMAIN t.m_bodySyncPeers = {p} \cup DOMAIN r.m_bodySyncPeers
  BY <1>5 DEF MergeInto
<1>8. t.peers[p].asked.kind = "BlockBodies"
  BY <1>4 DEF Bodies
<1>9. Owned(t)
  BY <1>2, <1>4, <1>5, <1>6, <1>7, <1>8 DEF Free, Owned, Connected
<1> QED BY <1>1, <1>4, <1>5, <1>9 DEF Asks

LEMMA RequestHeadersAsks ==
    ASSUME NEW r, NEW p, Free(r, p)
    PROVE  Asks(r, p, RequestHeaders(r, p))
<1> DEFINE n == Min(Missing(r))
           wanted == Window(r, n) \ r.m_downloadingHeaders
           request == Headers(n, Cardinality(wanted))
           m == [r EXCEPT !.m_downloadingHeaders = @ \cup wanted,
                          !.m_headerSyncPeers = MergeInto(@, p, wanted)]
           t == Ask(m, p, request)
<1>1. RequestHeaders(r, p) = r \/ RequestHeaders(r, p) = t
  BY DEF RequestHeaders
<1>2. request.kind = "BlockHeaders"
  BY DEF Headers
<1> HIDE DEF wanted, request
<1>3. /\ DOMAIN m = Members /\ m.queue = r.queue /\ m.m_state = r.m_state /\ m.peers = r.peers
      /\ m.m_bodySyncPeers = r.m_bodySyncPeers
      /\ m.m_headerSyncPeers = MergeInto(r.m_headerSyncPeers, p, wanted)
      /\ m.m_daoChallengedPeers = r.m_daoChallengedPeers
      /\ m.m_downloadingBodies = r.m_downloadingBodies
      /\ m.m_downloadingHeaders = r.m_downloadingHeaders \cup wanted /\ m.m_headers = r.m_headers
  BY DEF Free, Shaped, Members
<1> HIDE DEF m
<1>4. Shaped(m) /\ p \in DOMAIN m.peers
  BY <1>3 DEF Free, Shaped
<1>5. /\ Shaped(t) /\ DOMAIN t.peers = DOMAIN r.peers /\ t.peers[p].asked = request
      /\ \A q \in DOMAIN r.peers : q # p => t.peers[q] = r.peers[q]
      /\ t.queue = r.queue /\ t.m_state = r.m_state /\ Lists(t) = Lists(m)
      /\ t.m_daoChallengedPeers = r.m_daoChallengedPeers
      /\ t.m_downloadingHeaders = m.m_downloadingHeaders
      /\ t.m_downloadingBodies = m.m_downloadingBodies
  BY <1>3, <1>4, AskMembers
<1> HIDE DEF t
<1>6. /\ t.m_bodySyncPeers = r.m_bodySyncPeers
      /\ t.m_headerSyncPeers = MergeInto(r.m_headerSyncPeers, p, wanted)
  BY <1>3, <1>5 DEF Lists
<1>7. t.m_downloadingHeaders \subseteq UNION RangeOf(t.m_headerSyncPeers)
  <2>1. /\ r.m_downloadingHeaders \subseteq UNION RangeOf(r.m_headerSyncPeers)
        /\ p \notin DOMAIN r.m_headerSyncPeers
    BY DEF Free, Owned
  <2>2. r.m_downloadingHeaders \cup wanted
           \subseteq UNION RangeOf(MergeInto(r.m_headerSyncPeers, p, wanted))
    BY <2>1, ListAdded
  <2> QED BY <1>3, <1>5, <1>6, <2>2
<1>8. DOMAIN t.m_headerSyncPeers = {p} \cup DOMAIN r.m_headerSyncPeers
  BY <1>6 DEF MergeInto
<1>9. Owned(t)
  BY <1>2, <1>3, <1>5, <1>6, <1>7, <1>8 DEF Free, Owned, Connected
<1>10. Asks(r, p, r)
  BY DEF Free, Asks
<1>11. Asks(r, p, t)
  BY <1>5, <1>8, <1>9 DEF Asks
<1> QED BY <1>1, <1>10, <1>11

LEMMA SearchCommonAsks ==
    ASSUME NEW r, NEW p, Free(r, p)
    PROVE  Asks(r, p, SearchCommon(r, p))
<1> DEFINE start == IF r.m_headers = <<>> THEN r.m_lastImportedBlock
                    ELSE Min({r.m_lastImportedBlock, First(r.m_headers) - 1})
           moved == [r EXCEPT !.m_lastImportedBlock = start,
                              !.m_lastImportedBlockHash = NumberHash(best, start),
                              !.m_haveCommonHeader = start <= ChainStart + 1]
<1>1. \/ SearchCommon(r, p) = RequestHeaders(moved, p)
      \/ SearchCommon(r, p) = Ask(moved, p, Headers(start, 1))
  BY DEF SearchCommon
<1> HIDE DEF start
<1>2. /\ DOMAIN moved = Members /\ moved.m_headers = r.m_headers /\ Lists(moved) = Lists(r)
      /\ moved.peers = r.peers /\ moved.queue = r.queue /\ moved.m_state = r.m_state
      /\ moved.m_daoChallengedPeers = r.m_daoChallengedPeers
      /\ moved.m_downloadingHeaders = r.m_downloadingHeaders
      /\ moved.m_downloadingBodies = r.m_downloadingBodies
  BY DEF Free, Shaped, Members, Lists
<1> HIDE DEF moved
<1>3. Asks(r, p, moved) /\ Free(moved, p)
  BY <1>2, TouchedAsks
<1>4. /\ Asks(moved, p, RequestHeaders(moved, p))
      /\ Asks(moved, p, Ask(moved, p, Headers(start, 1)))
  BY <1>3, RequestHeadersAsks, AskFree
<1> QED BY <1>1, <1>3, <1>4, AsksTransitive

LEMMA RequestBlocksAsks ==
    ASSUME NEW r, NEW p, Free(r, p)
    PROVE  Asks(r, p, RequestBlocks(r, p))
<1> DEFINE c == ClearPeerDownload(r, p)
<1>1. \/ RequestBlocks(r, p) = PauseSync(c) /\ KnownFull(c.queue)
      \/ RequestBlocks(r, p) = RequestBodies(c, p)
      \/ RequestBlocks(r, p) = RequestHeaders(c, p)
      \/ RequestBlocks(r, p) = SearchCommon(c, p)
  BY DEF RequestBlocks
<1>2. /\ Shaped(c) /\ Owned(c)
      /\ c.queue = r.queue /\ c.peers = r.peers /\ c.m_state = r.m_state
      /\ c.m_daoChallengedPeers = r.m_daoChallengedPeers \ {p}
      /\ DOMAIN c.m_headerSyncPeers = DOMAIN r.m_headerSyncPeers \ {p}
      /\ DOMAIN c.m_bodySyncPeers = DOMAIN r.m_bodySyncPeers \ {p}
  <2>1. OwnedBut(r, {p}) /\ Shaped(r)
    BY DEF OwnedBut, Owned, Free
  <2> QED BY <2>1, ClearDownloadsProperties DEF ClearPeerDownload
<1> HIDE DEF c
<1>3. Free(c, p) /\ Asks(r, p, c)
  BY <1>2 DEF Free, Asks
<1>4. KnownFull(c.queue) => Asks(c, p, PauseSync(c))
  <2> DEFINE t == PauseSync(c)
  <2>1. /\ DOMAIN t = Members /\ t.m_headers = c.m_headers /\ Lists(t) = Lists(c)
        /\ t.peers = c.peers /\ t.queue = c.queue
        /\ t.m_daoChallengedPeers = c.m_daoChallengedPeers
        /\ t.m_downloadingHeaders = c.m_downloadingHeaders
        /\ t.m_downloadingBodies = c.m_downloadingBodies
    BY <1>2 DEF PauseSync, Shaped, Members, Lists
  <2> HIDE DEF t
  <2>2. KnownFull(c.queue) => Asks(c, p, t)
    BY <1>3, <2>1, TouchedAsks
  <2> QED BY <2>2 DEF t
<1>5. Asks(c, p, RequestBodies(c, p)) /\ Asks(c, p, RequestHeaders(c, p)) /\ Asks(c, p, SearchCommon(c, p))
  BY <1>3, RequestBodiesAsks, RequestHeadersAsks, SearchCommonAsks
<1> QED BY <1>1, <1>3, <1>4, <1>5, AsksTransitive

\* A peer that is waited for, for an answer to the challenge above all, is
\* asked nothing more.
LEMMA SyncPeerAsks ==
    ASSUME NEW r, Shaped(r), Owned(r), NEW p \in DOMAIN r.peers, NEW force \in BOOLEAN
    PROVE  /\ Asks(r, p, SyncPeer(r, p, force))
           /\ ~ Idle(r, p) => SyncPeer(r, p, force) = r
<1> DEFINE st == IF r.m_state \in {"Idle", "NotSynced"} THEN "Blocks" ELSE r.m_state
           m == [r EXCEPT !.m_syncingTotalDifficulty = r.peers[p].m_totalDifficulty,
                          !.m_state = st]
           request == HeaderOf(r.peers[p].m_latestHash)
<1>1. /\ ~ Idle(r, p) => SyncPeer(r, p, force) = r
      /\ \/ SyncPeer(r, p, force) = r
         \/ SyncPeer(r, p, force) = Ask(m, p, request)
         \/ SyncPeer(r, p, force) = RequestBlocks(r, p)
  BY DEF SyncPeer
<1> HIDE DEF request
<1>2. Asks(r, p, r)
  BY DEF Asks
<1>3. CASE ~ Idle(r, p)
  BY <1>1, <1>2, <1>3
<1>4. CASE Idle(r, p)
  <2>1. r.peers[p].asked.kind = "Nothing"
    BY <1>4 DEF Idle, Nothing
  <2>2. Free(r, p)
    BY <2>1 DEF Free, Owned
  <2>3. st = "Waiting" => r.m_state = "Waiting"
    OBVIOUS
  <2> HIDE DEF st
  <2>4. /\ DOMAIN m = Members /\ m.m_headers = r.m_headers /\ Lists(m) = Lists(r)
        /\ m.peers = r.peers /\ m.queue = r.queue /\ m.m_state = st
        /\ m.m_daoChallengedPeers = r.m_daoChallengedPeers
        /\ m.m_downloadingHeaders = r.m_downloadingHeaders
        /\ m.m_downloadingBodies = r.m_downloadingBodies
    BY DEF Shaped, Members, Lists
  <2> HIDE DEF m
  <2>5. Asks(r, p, m) /\ Free(m, p)
    BY <2>2, <2>3, <2>4, TouchedAsks
  <2>6. Asks(m, p, Ask(m, p, request)) /\ Asks(r, p, RequestBlocks(r, p))
    BY <2>2, <2>5, AskFree, RequestBlocksAsks
  <2>7. Asks(r, p, Ask(m, p, request))
    BY <2>5, <2>6, AsksTransitive
  <2> QED BY <1>1, <1>2, <1>4, <2>6, <2>7
<1> QED BY <1>3, <1>4

\* What a handler leaves behind.
Settles(r, t) ==
    /\ Shaped(t) /\ Owned(t) /\ Challenged(t)
    /\ t.queue = r.queue /\ DOMAIN t.peers = DOMAIN r.peers
    /\ t.m_state = "Waiting" => r.m_state = "Waiting" \/ KnownFull(t.queue)

LEMMA SyncPeerSettles ==
    ASSUME NEW r, Shaped(r), Owned(r), Challenged(r), NEW p \in DOMAIN r.peers, NEW force \in BOOLEAN
    PROVE  Settles(r, SyncPeer(r, p, force))
<1> DEFINE t == SyncPeer(r, p, force)
<1>1. Asks(r, p, t) /\ (~ Idle(r, p) => t = r)
  BY SyncPeerAsks
<1> HIDE DEF t
<1>2. ASSUME NEW q \in t.m_daoChallengedPeers
      PROVE  /\ q \in DOMAIN t.peers /\ t.peers[q].asked = Headers(DaoFork, 1)
             /\ q \notin DOMAIN t.m_headerSyncPeers
  <2>1. /\ q \in DOMAIN r.peers /\ r.peers[q].asked = Headers(DaoFork, 1)
        /\ q \notin DOMAIN r.m_headerSyncPeers
    BY <1>1 DEF Asks, Challenged, Connected
  <2>2. CASE q = p
    <3>1. ~ Idle(r, p)
      BY <2>1, <2>2 DEF Idle, Nothing, Headers
    <3> QED BY <1>1, <2>1, <3>1
  <2>3. CASE q # p
    BY <1>1, <2>1, <2>3 DEF Asks
  <2> QED BY <2>2, <2>3
<1>3. Challenged(t)
  BY <1>2 DEF Challenged, Connected
<1> QED BY <1>1, <1>3 DEF Asks, Settles, t

LEMMA ContinueSyncSettles ==
    ASSUME NEW r, Shaped(r), Owned(r), Challenged(r), NEW order \in Seq(DOMAIN r.peers)
    PROVE  Settles(r, ContinueSync(r, order))
<1> DEFINE p == SyncRounds(r, order)
           I == {k \in Nat : k <= Len(order) => Settles(r, p[k])}
<1>0. Len(order) \in Nat
  OBVIOUS
<1>1. /\ p[0] = r
      /\ \A n \in Nat : n + 1 <= Len(order) => p[n + 1] = Continued(p[n], order[n + 1])
  BY <1>0, SyncRoundsDef
<1>2. \A t : \A q \in DOMAIN t.peers : Settles(r, t) => Settles(t, Continued(t, q))
  BY SyncPeerSettles DEF Settles, Continued
<1> HIDE DEF p
<1>3. 0 \in I
  BY <1>1 DEF Settles
<1>4. ASSUME NEW k \in I PROVE k + 1 \in I
  <2>1. SUFFICES ASSUME k + 1 <= Len(order) PROVE Settles(r, p[k + 1])
    OBVIOUS
  <2>2. Settles(r, p[k]) /\ order[k + 1] \in DOMAIN r.peers
    BY <1>0, <2>1
  <2>3. p[k + 1] = Continued(p[k], order[k + 1])
    BY <1>1, <2>1
  <2>4. Settles(p[k], p[k + 1])
    BY <1>2, <2>2, <2>3 DEF Settles
  <2> QED BY <2>2, <2>4 DEF Settles
<1>5. I = Nat
  <2> HIDE DEF I
  <2>1. I \in SUBSET Nat
    BY DEF I
  <2> QED BY <1>3, <1>4, <2>1, SetInduction
<1>6. Settles(r, p[Len(order)])
  BY <1>0, <1>5
<1> QED BY <1>6 DEF p, ContinueSync

-----------------------------------------------------------------------------
(***************************************************************************)
(* The inductive invariant: Good of the members, and, when no block is     *)
(* rejected, Calm of them.                                                 *)
(***************************************************************************)
Good(r) == Shaped(r) /\ Owned(r) /\ Challenged(r)
Calm(r) == r.queue.bad = {} /\ Waits(r)
\* What a handler makes of r.
Handled(r, t) == (Good(r) => Good(t)) /\ (Good(r) /\ Calm(r) => Calm(t))

LEMMA HandledTransitive ==
    ASSUME NEW r, NEW t, NEW u, Handled(r, t), Handled(t, u)
    PROVE  Handled(r, u)
  BY DEF Handled

LEMMA LessensHandled ==
    ASSUME NEW r, NEW t, Lessens(r, t)
    PROVE  Handled(r, t)
<1>1. Good(r) => Good(t)
  BY LessensKeeps DEF Good, Lessens
<1>2. Good(r) /\ Calm(r) => Calm(t)
  BY WakesKeeps DEF Good, Calm, Lessens
<1> QED BY <1>1, <1>2 DEF Handled

LEMMA SettlesHandled ==
    ASSUME NEW r, NEW t, Settles(r, t)
    PROVE  Handled(r, t)
  BY DEF Handled, Good, Settles, Calm, Waits

LEMMA SyncPeerHandled ==
    ASSUME NEW r, NEW p \in DOMAIN r.peers, NEW force \in BOOLEAN
    PROVE  Handled(r, SyncPeer(r, p, force))
<1>1. Good(r) => Settles(r, SyncPeer(r, p, force))
  BY SyncPeerSettles DEF Good
<1> QED BY <1>1, SettlesHandled DEF Handled

LEMMA ContinueSyncHandled ==
    ASSUME NEW r, NEW order \in Seq(DOMAIN r.peers)
    PROVE  Handled(r, ContinueSync(r, order))
<1>1. Good(r) => Settles(r, ContinueSync(r, order))
  BY ContinueSyncSettles DEF Good
<1> QED BY <1>1, SettlesHandled DEF Handled

\* A change to what is known of the peers that asks none of them that owns a
\* list or is challenged.
LEMMA PeersTouched ==
    ASSUME NEW r, NEW t, DOMAIN t = Members, t.m_headers = r.m_headers, Lists(t) = Lists(r),
           t.queue = r.queue, t.m_state = r.m_state,
           t.m_daoChallengedPeers = r.m_daoChallengedPeers,
           t.m_downloadingHeaders = r.m_downloadingHeaders,
           t.m_downloadingBodies = r.m_downloadingBodies,
           DOMAIN t.peers = DOMAIN r.peers,
           \A q \in DOMAIN r.peers :
              /\ DOMAIN t.peers[q] = PeerMembers
              /\ \/ t.peers[q].asked = r.peers[q].asked
                 \/ q \notin DOMAIN r.m_headerSyncPeers \cup DOMAIN r.m_bodySyncPeers
                             \cup r.m_daoChallengedPeers
    PROVE  Handled(r, t)
<1>1. t.m_headerSyncPeers = r.m_headerSyncPeers /\ t.m_bodySyncPeers = r.m_bodySyncPeers
  BY DEF Lists
<1>2. Shaped(r) => Shaped(t)
  BY DEF Shaped
<1>3. Owned(r) => Owned(t)
  BY <1>1 DEF Owned, Connected
<1>4. Challenged(r) => Challenged(t)
  BY <1>1 DEF Challenged, Connected
<1>5. Calm(r) => Calm(t)
  BY DEF Calm, Waits
<1> QED BY <1>2, <1>3, <1>4, <1>5 DEF Handled, Good

LEMMA DisableHandled ==
    ASSUME NEW r, NEW p
    PROVE  Handled(r, Disable(r, p))
<1>1. SUFFICES ASSUME Good(r) PROVE Handled(r, Disable(r, p))
  BY DEF Handled
<1> DEFINE t == Disable(r, p)
           a == [r.peers[p] EXCEPT !.enabled = FALSE]
<1>2. /\ DOMAIN t = Members /\ t.m_headers = r.m_headers /\ Lists(t) = Lists(r)
      /\ t.queue = r.queue /\ t.m_state = r.m_state
      /\ t.m_daoChallengedPeers = r.m_daoChallengedPeers
      /\ t.m_downloadingHeaders = r.m_downloadingHeaders
      /\ t.m_downloadingBodies = r.m_downloadingBodies
      /\ t.peers = [r.peers EXCEPT ![p] = a]
  BY <1>1 DEF Disable, Good, Shaped, Members, Lists
<1>3. p \in DOMAIN r.peers => DOMAIN a = PeerMembers /\ a.asked = r.peers[p].asked
  BY <1>1 DEF Good, Shaped, PeerMembers
<1> HIDE DEF a, t
<1>4. /\ DOMAIN t.peers = DOMAIN r.peers
      /\ \A q \in DOMAIN r.peers :
            DOMAIN t.peers[q] = PeerMembers /\ t.peers[q].asked = r.peers[q].asked
  BY <1>1, <1>2, <1>3 DEF Good, Shaped
<1>5. Handled(r, t)
  BY <1>2, <1>4, PeersTouched
<1> QED BY <1>5 DEF t

-----------------------------------------------------------------------------
(***************************************************************************)
(* The handlers, one by one.                                               *)
(***************************************************************************)
LEMMA ConnectHandled ==
    ASSUME Good(s), NEW p, Connect(p)
    PROVE  Handled(s, s')
<1>1. p \notin DOMAIN s.peers /\ s' = [s EXCEPT !.peers = MergeInto(@, p, NewPeer(head[p]))]
  BY DEF Connect, Connected
<1> DEFINE t == [s EXCEPT !.peers = MergeInto(@, p, NewPeer(head[p]))]
<1>2. /\ DOMAIN t = Members /\ t.m_headers = s.m_headers /\ t.queue = s.queue
      /\ t.m_headerSyncPeers = s.m_headerSyncPeers /\ t.m_bodySyncPeers = s.m_bodySyncPeers
      /\ t.m_state = s.m_state /\ t.m_daoChallengedPeers = s.m_daoChallengedPeers
      /\ t.m_downloadingHeaders = s.m_downloadingHeaders
      /\ t.m_downloadingBodies = s.m_downloadingBodies
      /\ t.peers = MergeInto(s.peers, p, NewPeer(head[p]))
  BY DEF Good, Shaped, Members
<1> HIDE DEF t
<1>3. DOMAIN NewPeer(head[p]) = PeerMembers
  BY DEF NewPeer, PeerMembers
<1>4. /\ DOMAIN t.peers = {p} \cup DOMAIN s.peers
      /\ \A q \in DOMAIN s.peers : t.peers[q] = s.peers[q]
      /\ DOMAIN t.peers[p] = PeerMembers
  BY <1>1, <1>2, <1>3 DEF MergeInto
<1>5. IsFiniteSet(DOMAIN t.peers)
  BY <1>4, FS_AddElement DEF Good, Shaped
<1>6. Shaped(t)
  BY <1>2, <1>4, <1>5 DEF Good, Shaped
<1>7. Owned(t) /\ Challenged(t)
  BY <1>2, <1>4 DEF Good, Owned, Challenged, Connected
<1>8. Calm(s) => Calm(t)
  BY <1>2 DEF Calm, Waits
<1>9. Handled(s, t)
  BY <1>6, <1>7, <1>8 DEF Handled, Good
<1> QED BY <1>1, <1>9 DEF t

\* Between the answer of a peer and the next request it is asked nothing.
LEMMA AnsweredMembers ==
    ASSUME Good(s), NEW p \in DOMAIN s.peers
    PROVE  LET t == Ask(s, p, Nothing) IN
           /\ Shaped(t) /\ OwnedBut(t, {p}) /\ Idle(t, p)
           /\ t.queue = s.queue /\ t.m_state = s.m_state /\ Lists(t) = Lists(s)
           /\ t.m_daoChallengedPeers = s.m_daoChallengedPeers
           /\ DOMAIN t.peers = DOMAIN s.peers
           /\ \A q \in DOMAIN s.peers : q # p => t.peers[q] = s.peers[q]
<1> DEFINE t == Ask(s, p, Nothing)
<1>1. /\ Shaped(t) /\ DOMAIN t.peers = DOMAIN s.peers /\ t.peers[p].asked = Nothing
      /\ \A q \in DOMAIN s.peers : q # p => t.peers[q] = s.peers[q]
      /\ t.queue = s.queue /\ t.m_state = s.m_state /\ Lists(t) = Lists(s)
      /\ t.m_daoChallengedPeers = s.m_daoChallengedPeers
      /\ t.m_downloadingHeaders = s.m_downloadingHeaders
      /\ t.m_downloadingBodies = s.m_downloadingBodies
  BY AskMembers DEF Good
<1> HIDE DEF t
<1>2. t.m_headerSyncPeers = s.m_headerSyncPeers /\ t.m_bodySyncPeers = s.m_bodySyncPeers
  BY <1>1 DEF Lists
<1>3. OwnedBut(t, {p})
  BY <1>1, <1>2 DEF Good, Owned, OwnedBut, Connected
<1> QED BY <1>1, <1>3 DEF Idle, t

LEMMA StatusHandled ==
    ASSUME Good(s), NEW p, OnPeerStatus(p)
    PROVE  Handled(s, s')
<1> DEFINE m == Ask(s, p, Nothing)
           r == [m EXCEPT !.peers[p].m_latestHash = head[p],
                          !.peers[p].m_totalDifficulty = TotalDifficulty(head[p])]
           c == [r EXCEPT !.m_daoChallengedPeers = @ \cup {p}]
           t == Ask(c, p, Headers(DaoFork, 1))
           asked == SyncPeer(r, p, TRUE)
<1>1. p \in DOMAIN s.peers /\ s.peers[p].asked.kind = "State"
  BY DEF OnPeerStatus, Answering, Connected
<1>2. s' = Disable(r, p) \/ s' = asked \/ s' = t
  BY DEF OnPeerStatus
<1>3. p \notin DOMAIN s.m_headerSyncPeers \cup DOMAIN s.m_bodySyncPeers \cup s.m_daoChallengedPeers
  BY <1>1 DEF Good, Owned, Challenged, Headers
<1>4. /\ DOMAIN m = Members /\ Shaped(m)
      /\ DOMAIN m.peers = DOMAIN s.peers /\ DOMAIN m.peers[p] = PeerMembers
      /\ \A q \in DOMAIN s.peers : q # p => m.peers[q] = s.peers[q]
      /\ m.queue = s.queue /\ m.m_state = s.m_state /\ Lists(m) = Lists(s)
      /\ m.m_daoChallengedPeers = s.m_daoChallengedPeers
      /\ m.m_downloadingHeaders = s.m_downloadingHeaders
      /\ m.m_downloadingBodies = s.m_downloadingBodies /\ m.m_headers = s.m_headers
  <2>1. m.m_headers = s.m_headers
    BY DEF Good, Shaped, Members, Ask
  <2> HIDE DEF m
  <2> QED BY <1>1, <2>1, AskMembers DEF Good, Shaped, m
<1> HIDE DEF m
<1>5. /\ DOMAIN r = Members /\ r.queue = m.queue /\ r.m_state = m.m_state
      /\ Lists(r) = Lists(m) /\ r.m_daoChallengedPeers = m.m_daoChallengedPeers
      /\ r.m_downloadingHeaders = m.m_downloadingHeaders
      /\ r.m_downloadingBodies = m.m_downloadingBodies /\ r.m_headers = m.m_headers
  BY <1>4 DEF Members, Lists
<1>6. /\ DOMAIN r.peers = DOMAIN m.peers /\ DOMAIN r.peers[p] = PeerMembers
      /\ \A q \in DOMAIN m.peers : q # p => r.peers[q] = m.peers[q]
  BY <1>1, <1>4 DEF Members, PeerMembers
<1> HIDE DEF r
<1>7. Handled(s, r)
  <2>1. \A q \in DOMAIN s.peers :
           /\ DOMAIN r.peers[q] = PeerMembers
           /\ \/ r.peers[q].asked = s.peers[q].asked
              \/ q \notin DOMAIN s.m_headerSyncPeers \cup DOMAIN s.m_bodySyncPeers
                          \cup s.m_daoChallengedPeers
    BY <1>3, <1>4, <1>6 DEF Good, Shaped
  <2> QED BY <1>4, <1>5, <1>6, <2>1, PeersTouched
<1>8. Handled(r, Disable(r, p)) /\ Handled(r, asked)
  <2>1. p \in DOMAIN r.peers
    BY <1>1, <1>4, <1>6
  <2> QED BY <2>1, DisableHandled, SyncPeerHandled
<1>9. Handled(r, t)
  <2>1. Good(r)
    BY <1>7 DEF Handled
  <2>2. /\ DOMAIN c = Members /\ c.queue = r.queue /\ c.m_state = r.m_state
        /\ c.m_headerSyncPeers = r.m_headerSyncPeers /\ c.m_bodySyncPeers = r.m_bodySyncPeers
        /\ c.m_daoChallengedPeers = r.m_daoChallengedPeers \cup {p}
        /\ c.m_downloadingHeaders = r.m_downloadingHeaders
        /\ c.m_downloadingBodies = r.m_downloadingBodies /\ c.m_headers = r.m_headers
        /\ c.peers = r.peers
    BY <1>5 DEF Members
  <2> HIDE DEF c
  <2>3. Shaped(c) /\ Owned(c) /\ p \in DOMAIN c.peers
    BY <1>1, <1>4, <1>6, <2>1, <2>2 DEF Good, Shaped, Owned, Connected
  <2>4. p \notin DOMAIN r.m_headerSyncPeers /\ p \notin DOMAIN r.m_bodySyncPeers
    BY <1>3, <1>4, <1>5 DEF Lists
  <2>5. Free(c, p)
    BY <2>2, <2>3, <2>4 DEF Free
  <2>6. Asks(c, p, t)
    BY <2>5, AskFree
  <2>7. t.peers[p].asked = Headers(DaoFork, 1) /\ Lists(t) = Lists(c) /\ t.m_state = c.m_state
    BY <2>3, AskMembers
  <2> HIDE DEF t
  <2>8. Challenged(t)
    <3>1. /\ t.m_headerSyncPeers = r.m_headerSyncPeers /\ DOMAIN t.peers = DOMAIN r.peers
          /\ t.m_daoChallengedPeers \subseteq r.m_daoChallengedPeers \cup {p}
          /\ \A q \in DOMAIN r.peers : q # p => t.peers[q] = r.peers[q]
      BY <2>2, <2>6, <2>7 DEF Asks, Lists
    <3>2. p \in DOMAIN r.peers
      BY <2>2, <2>3
    <3> QED BY <2>1, <2>4, <2>7, <3>1, <3>2 DEF Good, Challenged, Connected
  <2>9. Calm(r) => Calm(t)
    BY <2>2, <2>6, <2>7 DEF Asks, Calm, Waits
  <2> QED BY <2>6, <2>8, <2>9 DEF Handled, Good, Asks
<1> HIDE DEF asked, t
<1> QED BY <1>2, <1>7, <1>8, <1>9, HandledTransitive

\* clearPeerDownload of a peer that has answered.
LEMMA AnswerCleared ==
    ASSUME Good(s), NEW p \in DOMAIN s.peers
    PROVE  LET c == ClearPeerDownload(Ask(s, p, Nothing), p) IN
           /\ Good(c) /\ DOMAIN c.peers = DOMAIN s.peers
           /\ Handled(s, c)
<1> DEFINE m == Ask(s, p, Nothing)
           c == ClearDownloads(m, {p})
<1>1. /\ Shaped(m) /\ OwnedBut(m, {p})
      /\ m.queue = s.queue /\ m.m_state = s.m_state /\ Lists(m) = Lists(s)
      /\ m.m_daoChallengedPeers = s.m_daoChallengedPeers
      /\ DOMAIN m.peers = DOMAIN s.peers
      /\ \A q \in DOMAIN s.peers : q # p => m.peers[q] = s.peers[q]
  BY AnsweredMembers
<1> HIDE DEF m
<1>2. /\ Shaped(c) /\ Owned(c)
      /\ c.queue = m.queue /\ c.peers = m.peers /\ c.m_state = m.m_state
      /\ c.m_daoChallengedPeers = m.m_daoChallengedPeers \ {p}
      /\ DOMAIN c.m_headerSyncPeers = DOMAIN m.m_headerSyncPeers \ {p}
  <2> DEFINE G == {p}
             t == ClearDownloads(m, G)
  <2>1. Shaped(m) /\ OwnedBut(m, G)
    BY <1>1
  <2> HIDE DEF G
  <2>2. /\ Shaped(t) /\ Owned(t)
        /\ t.queue = m.queue /\ t.peers = m.peers /\ t.m_state = m.m_state
        /\ t.m_daoChallengedPeers = m.m_daoChallengedPeers \ G
        /\ DOMAIN t.m_headerSyncPeers = DOMAIN m.m_headerSyncPeers \ G
    BY <2>1, ClearDownloadsProperties
  <2> QED BY <2>2 DEF G
<1> HIDE DEF c
<1>3. Challenged(c)
  <2>1. m.m_headerSyncPeers = s.m_headerSyncPeers
    BY <1>1 DEF Lists
  <2> QED BY <1>1, <1>2, <2>1 DEF Good, Challenged, Connected
<1>4. Calm(s) => Calm(c)
  BY <1>1, <1>2 DEF Calm, Waits
<1>5. Good(c) /\ DOMAIN c.peers = DOMAIN s.peers /\ Handled(s, c)
  BY <1>1, <1>2, <1>3, <1>4 DEF Good, Handled
<1> QED BY <1>5 DEF ClearPeerDownload, m, c

\* The answer to the challenge.
LEMMA ChallengeHandled ==
    ASSUME Good(s), NEW p \in s.m_daoChallengedPeers
    PROVE  LET m == Ask(s, p, Nothing) IN
           /\ Handled(s, [SyncPeer(m, p, FALSE) EXCEPT !.m_daoChallengedPeers = @ \ {p}])
           /\ Handled(s, Disable([m EXCEPT !.m_daoChallengedPeers = @ \ {p}], p))
<1> DEFINE m == Ask(s, p, Nothing)
           y == SyncPeer(m, p, FALSE)
           t == [y EXCEPT !.m_daoChallengedPeers = @ \ {p}]
           u == [m EXCEPT !.m_daoChallengedPeers = @ \ {p}]
<1>1. /\ p \in DOMAIN s.peers /\ s.peers[p].asked.kind = "BlockHeaders"
      /\ p \notin DOMAIN s.m_headerSyncPeers
  BY DEF Good, Challenged, Connected, Headers
<1>2. p \notin DOMAIN s.m_bodySyncPeers
  BY <1>1 DEF Good, Owned
<1>3. /\ Shaped(m) /\ OwnedBut(m, {p})
      /\ m.queue = s.queue /\ m.m_state = s.m_state /\ Lists(m) = Lists(s)
      /\ m.m_daoChallengedPeers = s.m_daoChallengedPeers
      /\ DOMAIN m.peers = DOMAIN s.peers
      /\ \A q \in DOMAIN s.peers : q # p => m.peers[q] = s.peers[q]
  BY <1>1, AnsweredMembers
<1> HIDE DEF m
<1>4. m.m_headerSyncPeers = s.m_headerSyncPeers /\ m.m_bodySyncPeers = s.m_bodySyncPeers
  BY <1>3 DEF Lists
<1>5. Owned(m)
  BY <1>1, <1>2, <1>3, <1>4 DEF Owned, OwnedBut
<1>6. Asks(m, p, y)
  BY <1>1, <1>3, <1>5, SyncPeerAsks
<1> HIDE DEF y
\* Both records have lost the challenge of p; the others' peers are as in s.
<1>7. ASSUME NEW z, NEW v, Shaped(z), Owned(z), z.queue = s.queue,
             z.m_state = "Waiting" => s.m_state = "Waiting" \/ KnownFull(z.queue),
             DOMAIN z.peers = DOMAIN s.peers,
             \A q \in DOMAIN s.peers : q # p => z.peers[q] = s.peers[q],
             z.m_daoChallengedPeers \subseteq s.m_daoChallengedPeers,
             DOMAIN z.m_headerSyncPeers \subseteq DOMAIN s.m_headerSyncPeers \cup {p},
             v = [z EXCEPT !.m_daoChallengedPeers = @ \ {p}]
      PROVE  Handled(s, v)
  <2>1. /\ DOMAIN v = Members /\ v.queue = z.queue /\ v.m_state = z.m_state
        /\ v.m_headerSyncPeers = z.m_headerSyncPeers /\ v.m_bodySyncPeers = z.m_bodySyncPeers
        /\ v.m_daoChallengedPeers = z.m_daoChallengedPeers \ {p}
        /\ v.m_downloadingHeaders = z.m_downloadingHeaders
        /\ v.m_downloadingBodies = z.m_downloadingBodies /\ v.m_headers = z.m_headers
        /\ v.peers = z.peers
    BY <1>7 DEF Shaped, Members
  <2>2. Shaped(v) /\ Owned(v)
    BY <1>7, <2>1 DEF Shaped, Owned, Connected
  <2>3. Challenged(v)
    BY <1>7, <2>1 DEF Good, Challenged, Connected
  <2>4. Calm(s) => Calm(v)
    BY <1>7, <2>1 DEF Calm, Waits
  <2> QED BY <2>2, <2>3, <2>4 DEF Handled, Good
<1>8. Handled(s, t)
  <2>1. /\ Shaped(y) /\ Owned(y) /\ y.queue = s.queue
        /\ y.m_state = "Waiting" => s.m_state = "Waiting" \/ KnownFull(y.queue)
        /\ DOMAIN y.peers = DOMAIN s.peers
        /\ \A q \in DOMAIN s.peers : q # p => y.peers[q] = s.peers[q]
        /\ y.m_daoChallengedPeers \subseteq s.m_daoChallengedPeers
        /\ DOMAIN y.m_headerSyncPeers \subseteq DOMAIN s.m_headerSyncPeers \cup {p}
    BY <1>3, <1>4, <1>6 DEF Asks
  <2> QED BY <1>7, <2>1
<1>9. Handled(s, u)
  BY <1>3, <1>4, <1>5, <1>7
<1> HIDE DEF u, t
<1>10. Handled(s, Disable(u, p))
  BY <1>9, DisableHandled, HandledTransitive
<1> QED BY <1>8, <1>10 DEF m, y, t, u

LEMMA HeadersHandled ==
    ASSUME Good(s), NEW p \in DOMAIN s.peers, NEW sent, Len(sent) \in Nat,
           NEW order \in Orders(s)
    PROVE  Handled(s, OnPeerBlockHeaders(p, sent, order))
<1> DEFINE m == Ask(s, p, Nothing)
           c == ClearPeerDownload(m, p)
           acc == HeaderRounds(c, sent)[Len(sent)]
           full == CollectBlocks(acc.r)
           out == ContinueSync(full, order)
           met == [SyncPeer(m, p, FALSE) EXCEPT !.m_daoChallengedPeers = @ \ {p}]
           failed == Disable([m EXCEPT !.m_daoChallengedPeers = @ \ {p}], p)
           t == OnPeerBlockHeaders(p, sent, order)
<1>1. /\ p \in s.m_daoChallengedPeers => t = met \/ t = failed
      /\ t = met \/ t = failed \/ t = c \/ t = acc.r \/ t = out
      /\ p \notin s.m_daoChallengedPeers => t = c \/ t = acc.r \/ t = out
  BY DEF OnPeerBlockHeaders
<1>2. p \in s.m_daoChallengedPeers => Handled(s, met) /\ Handled(s, failed)
  BY ChallengeHandled
<1>3. Good(c) /\ DOMAIN c.peers = DOMAIN s.peers /\ Handled(s, c)
  BY AnswerCleared
<1> HIDE DEF m, c, met, failed, t
<1>4. Lessens(c, acc.r) /\ Shaped(acc.r)
  <2>1. Lessens(c, acc.r)
    BY <1>3, HeaderRoundsLessen DEF Good
  <2> QED BY <2>1 DEF Lessens
<1> HIDE DEF acc
<1>5. Lessens(acc.r, full)
  BY <1>4, CollectBlocksLessens
<1>6. order \in Seq(DOMAIN full.peers)
  <2>1. DOMAIN full.peers = DOMAIN s.peers
    BY <1>3, <1>4, <1>5 DEF Lessens
  <2> QED BY <2>1, OrdersProperties DEF Good, Connected
<1> HIDE DEF full
<1>7. Handled(full, out)
  BY <1>6, ContinueSyncHandled
<1> HIDE DEF out
<1>8. Handled(s, acc.r)
  BY <1>3, <1>4, LessensHandled, HandledTransitive
<1>9. Handled(s, full)
  BY <1>5, <1>8, LessensHandled, HandledTransitive
<1>10. Handled(s, out)
  BY <1>7, <1>9, HandledTransitive
<1>11. Handled(s, t)
  BY <1>1, <1>2, <1>3, <1>8, <1>10
<1> QED BY <1>11 DEF t

LEMMA BodiesHandled ==
    ASSUME Good(s), NEW p \in DOMAIN s.peers, NEW sent, Len(sent) \in Nat,
           NEW order \in Orders(s)
    PROVE  Handled(s, OnPeerBlockBodies(p, sent, order))
<1> DEFINE c == ClearPeerDownload(Ask(s, p, Nothing), p)
           b == BodyRounds(c, sent)[Len(sent)]
           full == CollectBlocks(b)
           out == ContinueSync(full, order)
           t == OnPeerBlockBodies(p, sent, order)
<1>1. t = c \/ t = out
  BY DEF OnPeerBlockBodies
<1>2. Good(c) /\ DOMAIN c.peers = DOMAIN s.peers /\ Handled(s, c)
  BY AnswerCleared
<1> HIDE DEF c, t
<1>3. Lessens(c, b) /\ Shaped(b)
  <2>1. Lessens(c, b)
    BY <1>2, BodyRoundsLessen DEF Good
  <2> QED BY <2>1 DEF Lessens
<1> HIDE DEF b
<1>4. Lessens(b, full)
  BY <1>3, CollectBlocksLessens
<1>5. order \in Seq(DOMAIN full.peers)
  <2>1. DOMAIN full.peers = DOMAIN s.peers
    BY <1>2, <1>3, <1>4 DEF Lessens
  <2> QED BY <2>1, OrdersProperties DEF Good, Connected
<1> HIDE DEF full
<1>6. Handled(full, out)
  BY <1>5, ContinueSyncHandled
<1> HIDE DEF out
<1>7. Handled(s, b)
  BY <1>2, <1>3, LessensHandled, HandledTransitive
<1>8. Handled(s, full)
  BY <1>4, <1>7, LessensHandled, HandledTransitive
<1>9. Handled(s, out)
  BY <1>6, <1>8, HandledTransitive
<1>10. Handled(s, t)
  BY <1>1, <1>2, <1>9
<1> QED BY <1>10 DEF t

LEMMA ArrivalsHandled ==
    ASSUME Good(s), NEW p, HeadersArrive(p) \/ BodiesArrive(p)
    PROVE  Handled(s, s')
<1>1. \A full, n : n \in Nat => Len(FirstOf(full, n)) \in Nat
  BY DEF FirstOf
<1>2. p \in DOMAIN s.peers
  BY DEF HeadersArrive, BodiesArrive, Answering, Connected
<1>3. CASE HeadersArrive(p)
  <2> DEFINE full == HeadersSent(head[p], s.peers[p].asked)
  <2>1. PICK i \in Nat, order \in Orders(s) :
           s' = OnPeerBlockHeaders(p, FirstOf(full, i), order)
    BY <1>3 DEF HeadersArrive
  <2> QED BY <1>1, <1>2, <2>1, HeadersHandled
<1>4. CASE BodiesArrive(p)
  <2> DEFINE full == BodiesSent(head[p], s.peers[p].asked)
  <2>1. PICK i \in Nat, order \in Orders(s) :
           s' = OnPeerBlockBodies(p, FirstOf(full, i), order)
    BY <1>4 DEF BodiesArrive
  <2> QED BY <1>1, <1>2, <2>1, BodiesHandled
<1> QED BY <1>3, <1>4

\* A change to one member of a peer, other than what it is asked.
LEMMA OnePeerHandled ==
    ASSUME NEW r, Good(r), NEW p \in DOMAIN r.peers, NEW a, DOMAIN a = PeerMembers,
           a.asked = r.peers[p].asked, NEW t, t = [r EXCEPT !.peers = [r.peers EXCEPT ![p] = a]]
    PROVE  Handled(r, t) /\ DOMAIN t.peers = DOMAIN r.peers
<1>1. /\ DOMAIN t = Members /\ t.m_headers = r.m_headers /\ Lists(t) = Lists(r)
      /\ t.queue = r.queue /\ t.m_state = r.m_state
      /\ t.m_daoChallengedPeers = r.m_daoChallengedPeers
      /\ t.m_downloadingHeaders = r.m_downloadingHeaders
      /\ t.m_downloadingBodies = r.m_downloadingBodies
      /\ t.peers = [r.peers EXCEPT ![p] = a]
  BY DEF Good, Shaped, Members, Lists
<1>2. /\ DOMAIN t.peers = DOMAIN r.peers
      /\ \A q \in DOMAIN r.peers :
            DOMAIN t.peers[q] = PeerMembers /\ t.peers[q].asked = r.peers[q].asked
  BY <1>1 DEF Good, Shaped
<1> QED BY <1>1, <1>2, PeersTouched

LEMMA NewBlockImportedLessens ==
    ASSUME NEW r, Shaped(r), NEW n, NEW b
    PROVE  Lessens(r, NewBlockImported(r, n, b))
<1> DEFINE later == n > r.m_lastImportedBlock
           x == IF later THEN n ELSE r.m_lastImportedBlock
           y == IF later THEN b ELSE r.m_lastImportedBlockHash
           t == [r EXCEPT !.m_lastImportedBlock = x,
                          !.m_lastImportedBlockHash = y,
                          !.m_downloadingBodies = @ \ {n}, !.m_downloadingHeaders = @ \ {n},
                          !.m_headers = RemoveItem(@, n), !.m_bodies = RemoveItem(@, n)]
<1>1. NewBlockImported(r, n, b) = t \/ NewBlockImported(r, n, b) = CompleteSync(t)
  BY DEF NewBlockImported
<1> HIDE DEF x, y
<1>2. /\ DOMAIN t = Members /\ Rest(t) = Rest(r) /\ Lists(t) = Lists(r)
      /\ t.m_downloadingHeaders \subseteq r.m_downloadingHeaders
      /\ t.m_downloadingBodies \subseteq r.m_downloadingBodies
      /\ t.m_headers = RemoveItem(r.m_headers, n)
  BY DEF Shaped, Members, Rest, Lists
<1> HIDE DEF t
<1>3. IsFiniteSet(DOMAIN t.m_headers)
  <2>1. DOMAIN t.m_headers \subseteq DOMAIN r.m_headers
    BY <1>2 DEF RemoveItem, Only
  <2> QED BY <2>1, FS_Subset DEF Shaped
<1>4. Lessens(r, t) /\ Shaped(t)
  <2>1. Lessens(r, t)
    BY <1>2, <1>3, TouchedLessens
  <2> QED BY <2>1 DEF Lessens
<1>5. Lessens(t, CompleteSync(t))
  BY <1>4, Resets
<1> QED BY <1>1, <1>4, <1>5, LessensTransitive

LEMMA NewBlockUnknownHandled ==
    ASSUME NEW r, Good(r), NEW p \in DOMAIN r.peers, NEW b
    PROVE  Handled(r, NewBlockUnknown(r, p, b))
<1> DEFINE a == [r.peers[p] EXCEPT !.m_unknownNewBlocks = @ + 1]
           counted == [r EXCEPT !.peers[p].m_unknownNewBlocks = @ + 1]
           off == Disable(counted, p)
           restarted == IF counted.peers[p].m_unknownNewBlocks > MaxUnknownNew
                        THEN RestartSync(off) ELSE counted
           asked == SyncPeer(restarted, p, TRUE)
           t == NewBlockUnknown(r, p, b)
<1>1. t = asked \/ t = restarted
  BY DEF NewBlockUnknown
<1>2. restarted = RestartSync(off) \/ restarted = counted
  OBVIOUS
<1>3. counted = [r EXCEPT !.peers = [r.peers EXCEPT ![p] = a]]
  BY DEF Good, Shaped, Members
<1>4. DOMAIN a = PeerMembers /\ a.asked = r.peers[p].asked
  BY DEF Good, Shaped, PeerMembers
<1> HIDE DEF a, counted, t
<1>5. Handled(r, counted) /\ DOMAIN counted.peers = DOMAIN r.peers
  BY <1>3, <1>4, OnePeerHandled
<1>6. Handled(counted, off) /\ DOMAIN off.peers = DOMAIN counted.peers
  <2>1. DOMAIN off.peers = DOMAIN counted.peers
    BY <1>5 DEF Disable, Handled, Good, Shaped, Members
  <2> QED BY <2>1, DisableHandled
<1> HIDE DEF off
<1>7. Good(off)
  BY <1>5, <1>6 DEF Handled
<1>8. Lessens(off, RestartSync(off))
  BY <1>7, Resets DEF Good
<1>9. Handled(r, off)
  BY <1>5, <1>6, HandledTransitive
<1>10. Handled(r, RestartSync(off))
  BY <1>8, <1>9, LessensHandled, HandledTransitive
<1>11. Handled(r, restarted) /\ p \in DOMAIN restarted.peers
  <2> HIDE DEF restarted
  <2> QED BY <1>2, <1>5, <1>6, <1>8, <1>10 DEF Lessens
<1> HIDE DEF restarted
<1>12. Handled(restarted, asked)
  BY <1>11, SyncPeerHandled
<1> HIDE DEF asked
<1>13. Handled(r, t)
  BY <1>1, <1>11, <1>12, HandledTransitive
<1> QED BY <1>13 DEF t

LEMMA NewBlockHandled ==
    ASSUME Good(s), NEW p, NEW b, NewBlock(p, b)
    PROVE  Handled(s, s')
<1> DEFINE n == Number(b)
           import == Import(s.queue, b, Body[b])
           r == [s EXCEPT !.queue = import.queue]
           asked == SyncPeer(s, p, TRUE)
<1>1. p \in DOMAIN s.peers
  BY DEF NewBlock, Grows, Connected
<1>2. \/ s' = asked \/ s' = NewBlockImported(r, n, b) \/ s' = Disable(r, p)
      \/ s' = NewBlockUnknown(r, p, b) \/ s' = r
  BY DEF NewBlock, OnPeerNewBlock
<1>3. QueueShaped(import.queue) /\ Fills(s.queue, import.queue)
  BY ImportProperties DEF Good, Shaped
<1> HIDE DEF import
<1>4. Lessens(s, r)
  BY <1>3, QueueLessens DEF Good
<1> HIDE DEF r
<1>5. Handled(s, r) /\ Good(r) /\ p \in DOMAIN r.peers /\ Shaped(r)
  BY <1>1, <1>4, LessensHandled DEF Handled, Good, Lessens
<1>6. Handled(s, asked)
  BY <1>1, SyncPeerHandled
<1> HIDE DEF asked
<1>7. /\ Handled(r, NewBlockImported(r, n, b)) /\ Handled(r, Disable(r, p))
      /\ Handled(r, NewBlockUnknown(r, p, b))
  BY <1>5, NewBlockImportedLessens, LessensHandled, DisableHandled, NewBlockUnknownHandled
<1> QED BY <1>2, <1>5, <1>6, <1>7, HandledTransitive

LEMMA NewHashesHandled ==
    ASSUME Good(s), NEW p, NEW b, NewHashes(p, b)
    PROVE  Handled(s, s')
<1> DEFINE a == [s.peers[p] EXCEPT !.m_latestHash = b]
           r == [s EXCEPT !.peers[p].m_latestHash = b]
           asked == SyncPeer(r, p, TRUE)
<1>1. p \in DOMAIN s.peers
  BY DEF NewHashes, Grows, Connected
<1>2. s' = s \/ s' = asked
  BY DEF NewHashes, OnPeerNewHashes
<1>3. r = [s EXCEPT !.peers = [s.peers EXCEPT ![p] = a]]
  BY DEF Good, Shaped, Members
<1>4. DOMAIN a = PeerMembers /\ a.asked = s.peers[p].asked
  BY <1>1 DEF Good, Shaped, PeerMembers
<1> HIDE DEF a, r
<1>5. Handled(s, r) /\ p \in DOMAIN r.peers
  BY <1>1, <1>3, <1>4, OnePeerHandled
<1>6. Handled(r, asked)
  BY <1>5, SyncPeerHandled
<1> HIDE DEF asked
<1>7. Handled(s, s)
  BY DEF Handled
<1> QED BY <1>2, <1>5, <1>6, <1>7, HandledTransitive

LEMMA AbortingHandled ==
    ASSUME Good(s), NEW p, OnPeerAborting(p)
    PROVE  Handled(s, s')
<1> DEFINE left == [s EXCEPT !.peers = Only(@, DOMAIN @ \ {p})]
           c == ClearDownloads(left, {p})
<1>1. PICK order \in Orders(left) : s' = ContinueSync(c, order)
  BY DEF OnPeerAborting
<1>2. /\ DOMAIN left = Members /\ left.m_headers = s.m_headers /\ left.queue = s.queue
      /\ left.m_headerSyncPeers = s.m_headerSyncPeers /\ left.m_bodySyncPeers = s.m_bodySyncPeers
      /\ left.m_state = s.m_state /\ left.m_daoChallengedPeers = s.m_daoChallengedPeers
      /\ left.m_downloadingHeaders = s.m_downloadingHeaders
      /\ left.m_downloadingBodies = s.m_downloadingBodies
      /\ left.peers = Only(s.peers, DOMAIN s.peers \ {p})
  BY DEF Good, Shaped, Members
<1> HIDE DEF left
<1>3. /\ DOMAIN left.peers = DOMAIN s.peers \ {p}
      /\ \A q \in DOMAIN left.peers : left.peers[q] = s.peers[q]
  BY <1>2 DEF Only
<1>4. Shaped(left)
  <2>1. IsFiniteSet(DOMAIN left.peers)
    BY <1>3, FS_Subset DEF Good, Shaped
  <2> QED BY <1>2, <1>3, <2>1 DEF Good, Shaped
<1>5. OwnedBut(left, {p})
  BY <1>2, <1>3 DEF Good, Owned, OwnedBut, Connected
<1>6. /\ Shaped(c) /\ Owned(c)
      /\ c.queue = left.queue /\ c.peers = left.peers /\ c.m_state = left.m_state
      /\ c.m_daoChallengedPeers = left.m_daoChallengedPeers \ {p}
      /\ DOMAIN c.m_headerSyncPeers = DOMAIN left.m_headerSyncPeers \ {p}
  <2> DEFINE G == {p}
             t == ClearDownloads(left, G)
  <2>1. Shaped(left) /\ OwnedBut(left, G)
    BY <1>4, <1>5
  <2> HIDE DEF G
  <2>2. /\ Shaped(t) /\ Owned(t)
        /\ t.queue = left.queue /\ t.peers = left.peers /\ t.m_state = left.m_state
        /\ t.m_daoChallengedPeers = left.m_daoChallengedPeers \ G
        /\ DOMAIN t.m_headerSyncPeers = DOMAIN left.m_headerSyncPeers \ G
    BY <2>1, ClearDownloadsProperties
  <2> QED BY <2>2 DEF G
<1> HIDE DEF c
<1>7. Challenged(c)
  BY <1>2, <1>3, <1>6 DEF Good, Challenged, Connected
<1>8. Calm(s) => Calm(c)
  BY <1>2, <1>6 DEF Calm, Waits
<1>9. Handled(s, c)
  BY <1>6, <1>7, <1>8 DEF Handled, Good
<1>10. order \in Seq(DOMAIN c.peers)
  BY <1>4, <1>6, OrdersProperties DEF Connected
<1>11. Handled(c, ContinueSync(c, order))
  BY <1>10, ContinueSyncHandled
<1> QED BY <1>1, <1>9, <1>11, HandledTransitive

LEMMA AbortSyncHandled ==
    ASSUME Good(s), AbortSync
    PROVE  Handled(s, s')
<1> DEFINE w == [NoQueue EXCEPT !.bad = s.queue.bad]
           m == [s EXCEPT !.queue = w]
           c == ResetSync(m)
<1>1. PICK order \in Orders(s) : s' = ContinueSync(c, order)
  BY DEF AbortSync
<1>2. QueueShaped(w) /\ w.bad = s.queue.bad
  BY FS_EmptySet DEF NoQueue, QueueShaped, QueueMembers
<1> HIDE DEF w
<1>3. /\ DOMAIN m = Members /\ m.m_headers = s.m_headers /\ m.queue = w /\ m.peers = s.peers
      /\ m.m_headerSyncPeers = s.m_headerSyncPeers /\ m.m_bodySyncPeers = s.m_bodySyncPeers
      /\ m.m_state = s.m_state /\ m.m_daoChallengedPeers = s.m_daoChallengedPeers
      /\ m.m_downloadingHeaders = s.m_downloadingHeaders
      /\ m.m_downloadingBodies = s.m_downloadingBodies
  BY DEF Good, Shaped, Members
<1> HIDE DEF m
<1>4. Good(m)
  BY <1>2, <1>3 DEF Good, Shaped, Owned, Challenged, Connected
<1>5. Lessens(m, c) /\ c.queue = w /\ c.m_state = "NotSynced"
  BY <1>3, <1>4, Resets DEF Good
<1> HIDE DEF c
<1>6. Good(c) /\ c.peers = s.peers
  BY <1>3, <1>4, <1>5, LessensHandled DEF Handled, Lessens
<1>7. Handled(s, c)
  BY <1>2, <1>5, <1>6 DEF Handled, Calm, Waits
<1>8. order \in Seq(DOMAIN c.peers)
  BY <1>6, OrdersProperties DEF Good, Connected
<1>9. Handled(c, ContinueSync(c, order))
  BY <1>8, ContinueSyncHandled
<1> QED BY <1>1, <1>7, <1>9, HandledTransitive

\* Only the queue changes, and grows.
LEMMA QueueHandled ==
    ASSUME Good(s), NEW w, QueueShaped(w), Fills(s.queue, w), s' = [s EXCEPT !.queue = w]
    PROVE  Handled(s, s')
  BY QueueLessens, LessensHandled DEF Good

LEMMA EnqueuedHandled ==
    ASSUME Good(s), NEW b, TimeComes(b) \/ Seal(b)
    PROVE  Handled(s, s')
<1>1. CASE Seal(b)
  <2>1. s' = [s EXCEPT !.queue = Enqueue(s.queue, b).queue]
    BY <1>1 DEF Seal
  <2>2. QueueShaped(Enqueue(s.queue, b).queue) /\ Fills(s.queue, Enqueue(s.queue, b).queue)
    BY EnqueueProperties DEF Good, Shaped
  <2> QED BY <2>1, <2>2, QueueHandled
<1>2. CASE TimeComes(b)
  <2> DEFINE q == [s.queue EXCEPT !.future = @ \ {b}]
             w == Enqueue(q, b).queue
  <2>1. s' = s \/ s' = [s EXCEPT !.queue = w]
    BY <1>2 DEF TimeComes
  <2>2. QueueShaped(q) /\ q.ready = s.queue.ready /\ q.bad = s.queue.bad
    BY DEF Good, Shaped, QueueShaped, QueueMembers
  <2> HIDE DEF q
  <2>3. QueueShaped(w) /\ Fills(q, w)
    BY <2>2, EnqueueProperties
  <2> HIDE DEF w
  <2>4. Fills(s.queue, w)
    BY <2>2, <2>3 DEF Fills
  <2>5. s' = s => Handled(s, s')
    BY DEF Handled
  <2> QED BY <2>1, <2>3, <2>4, <2>5, QueueHandled
<1> QED BY <1>1, <1>2

LEMMA ImportedHandled ==
    ASSUME Good(s), NEW b, ClientImport(b)
    PROVE  Handled(s, s')
<1> DEFINE w == [s.queue EXCEPT !.draining = {}]
           d == [s EXCEPT !.queue.draining = {}]
           t == [d EXCEPT !.m_lastImportedBlock = Number(b), !.m_lastImportedBlockHash = b]
<1>1. s' = d \/ s' = t
  BY DEF ClientImport, OnBlockImported
<1>2. d = [s EXCEPT !.queue = w]
  BY DEF Good, Shaped, Members
<1>3. QueueShaped(w) /\ Fills(s.queue, w)
  BY DEF Good, Shaped, QueueShaped, QueueMembers, Fills
<1> HIDE DEF w, d
<1>4. Lessens(s, d) /\ Shaped(d)
  <2>1. Lessens(s, d)
    BY <1>2, <1>3, QueueLessens DEF Good
  <2> QED BY <2>1 DEF Lessens
<1>5. Lessens(d, t)
  <2>1. /\ DOMAIN t = Members /\ Rest(t) = Rest(d) /\ Lists(t) = Lists(d)
        /\ t.m_downloadingHeaders = d.m_downloadingHeaders
        /\ t.m_downloadingBodies = d.m_downloadingBodies /\ t.m_headers = d.m_headers
    BY <1>4 DEF Shaped, Members, Rest, Lists
  <2> HIDE DEF t
  <2> QED BY <1>4, <2>1, TouchedLessens DEF Shaped
<1> HIDE DEF t
<1> QED BY <1>1, <1>4, <1>5, LessensTransitive, LessensHandled

\* drain() reports room when the queue is no longer full.
LEMMA DrainKeeps ==
    ASSUME Good(s), Drain
    PROVE  Good(s') /\ (Calm(s) => Calm(s)')
<1> DEFINE V == Verified(s.queue)
           w == [s.queue EXCEPT !.draining = V, !.ready = @ \ V]
<1>1. s' = [s EXCEPT !.queue = w]
  BY DEF Drain, Good, Shaped, Members
<1>2. QueueShaped(w) /\ w.bad = s.queue.bad
  <2>1. DOMAIN w = QueueMembers /\ w.ready = s.queue.ready \ V /\ w.unknown = s.queue.unknown
        /\ w.bad = s.queue.bad
    BY DEF Good, Shaped, QueueShaped, QueueMembers
  <2> HIDE DEF w
  <2>2. IsFiniteSet(w.ready)
    BY <2>1, FS_Subset DEF Good, Shaped, QueueShaped
  <2> QED BY <2>1, <2>2 DEF Good, Shaped, QueueShaped
<1> HIDE DEF w
<1>3. /\ DOMAIN s' = Members /\ s'.m_headers = s.m_headers /\ s'.queue = w /\ s'.peers = s.peers
      /\ s'.m_headerSyncPeers = s.m_headerSyncPeers /\ s'.m_bodySyncPeers = s.m_bodySyncPeers
      /\ s'.m_state = s.m_state /\ s'.m_daoChallengedPeers = s.m_daoChallengedPeers
      /\ s'.m_downloadingHeaders = s.m_downloadingHeaders
      /\ s'.m_downloadingBodies = s.m_downloadingBodies
  BY <1>1 DEF Good, Shaped, Members
<1>4. Good(s')
  BY <1>2, <1>3 DEF Good, Shaped, Owned, Challenged, Connected
<1>5. room' = (room \/ (KnownFull(s.queue) /\ ~ KnownFull(s'.queue)))
  BY DEF Drain
<1>6. Calm(s) => Calm(s)'
  BY <1>2, <1>3, <1>5 DEF Calm, Waits
<1> QED BY <1>4, <1>6

\* The report is handled by going on with the download.
LEMMA RoomKeeps ==
    ASSUME Good(s), RoomAvailable
    PROVE  Good(s') /\ (Calm(s) => Calm(s)')
<1> DEFINE m == [s EXCEPT !.m_state = "Blocks"]
<1>1. PICK order \in Orders(s) : s' = ContinueSync(m, order)
  BY DEF RoomAvailable
<1>2. /\ DOMAIN m = Members /\ m.m_headers = s.m_headers /\ m.queue = s.queue
      /\ m.m_headerSyncPeers = s.m_headerSyncPeers /\ m.m_bodySyncPeers = s.m_bodySyncPeers
      /\ m.m_state = "Blocks" /\ m.m_daoChallengedPeers = s.m_daoChallengedPeers
      /\ m.m_downloadingHeaders = s.m_downloadingHeaders
      /\ m.m_downloadingBodies = s.m_downloadingBodies /\ m.peers = s.peers
  BY DEF Good, Shaped, Members
<1> HIDE DEF m
<1>3. Good(m)
  BY <1>2 DEF Good, Shaped, Owned, Challenged, Connected
<1>4. order \in Seq(DOMAIN m.peers)
  BY <1>2, OrdersProperties DEF Good, Connected
<1>5. Settles(m, s')
  BY <1>1, <1>3, <1>4, ContinueSyncSettles DEF Good
<1> QED BY <1>2, <1>5 DEF Settles, Good, Calm, Waits

LEMMA RejectsKeeps ==
    ASSUME Good(s), NEW b, VerifierRejects(b)
    PROVE  Good(s') /\ Rejected # {}
<1> DEFINE w == WithoutBad(s.queue, b)
<1>1. s' = [s EXCEPT !.queue = w] /\ Rejected # {}
  BY DEF VerifierRejects
<1>2. QueueShaped(w)
  BY WithoutBadProperties DEF Good, Shaped
<1> HIDE DEF w
<1>3. /\ DOMAIN s' = Members /\ s'.m_headers = s.m_headers /\ s'.queue = w /\ s'.peers = s.peers
      /\ s'.m_headerSyncPeers = s.m_headerSyncPeers /\ s'.m_bodySyncPeers = s.m_bodySyncPeers
      /\ s'.m_daoChallengedPeers = s.m_daoChallengedPeers
      /\ s'.m_downloadingHeaders = s.m_downloadingHeaders
      /\ s'.m_downloadingBodies = s.m_downloadingBodies
  BY <1>1 DEF Good, Shaped, Members
<1>4. Good(s')
  BY <1>2, <1>3 DEF Good, Shaped, Owned, Challenged, Connected
<1> QED BY <1>1, <1>4

-----------------------------------------------------------------------------
LEMMA InitHandled ==
    ASSUME Init
    PROVE  Good(s) /\ Calm(s)
<1>1. /\ s.m_daoChallengedPeers = {} /\ s.m_downloadingHeaders = {} /\ s.m_downloadingBodies = {}
      /\ s.m_headerSyncPeers = NoDownloads /\ s.m_bodySyncPeers = NoDownloads
      /\ s.peers = <<>> /\ s.m_headers = <<>> /\ s.queue = NoQueue /\ s.m_state = "Idle"
      /\ DOMAIN s = Members
  BY DEF Init, Members
<1>2. IsFiniteSet({}) /\ DOMAIN <<>> = {}
  BY FS_EmptySet
<1>3. QueueShaped(NoQueue) /\ NoQueue.bad = {}
  BY <1>2 DEF QueueShaped, NoQueue, QueueMembers
<1> QED BY <1>1, <1>2, <1>3 DEF Good, Calm, Waits, Shaped, Owned, Challenged, NoDownloads

\* A step of a handler that leaves room as it is.
LEMMA HandledKeeps ==
    ASSUME Good(s), Handled(s, s'), room' = room
    PROVE  Good(s') /\ (Calm(s) => Calm(s)')
  BY DEF Handled, Calm, Waits

LEMMA NextKeeps ==
    ASSUME Good(s), [Next]_vars
    PROVE  Good(s') /\ (Rejected = {} /\ Calm(s) => Calm(s)')
<1>1. ASSUME NEW p \in Peers, FromPeer(p) PROVE Good(s') /\ (Calm(s) => Calm(s)')
  <2>1. CASE Connect(p)
    BY <2>1, ConnectHandled, HandledKeeps DEF Connect, Outside
  <2>2. CASE OnPeerStatus(p)
    BY <2>2, StatusHandled, HandledKeeps DEF OnPeerStatus, Outside
  <2>3. CASE HeadersArrive(p) \/ BodiesArrive(p)
    <3>1. room' = room
      BY <2>3 DEF HeadersArrive, BodiesArrive, Outside
    <3> QED BY <2>3, <3>1, ArrivalsHandled, HandledKeeps
  <2>4. CASE Leave(p) \/ Tick(p)
    BY <2>4, AbortingHandled, HandledKeeps DEF Leave, Tick, Outside
  <2>5. ASSUME NEW b \in Blocks, NewBlock(p, b) \/ NewHashes(p, b)
        PROVE  Good(s') /\ (Calm(s) => Calm(s)')
    <3>1. room' = room
      BY <2>5 DEF NewBlock, NewHashes, Grows, Outside
    <3> QED BY <2>5, <3>1, NewBlockHandled, NewHashesHandled, HandledKeeps
  <2> QED BY <1>1, <2>1, <2>2, <2>3, <2>4, <2>5 DEF FromPeer
<1>2. ASSUME AbortSync PROVE Good(s') /\ (Calm(s) => Calm(s)')
  <2>1. room' = room
    BY <1>2 DEF AbortSync, Outside
  <2> QED BY <1>2, <2>1, AbortSyncHandled, HandledKeeps
<1>3. ASSUME NEW b \in Blocks, ClientImport(b) PROVE Good(s') /\ (Calm(s) => Calm(s)')
  <2>1. room' = room
    BY <1>3 DEF ClientImport
  <2> QED BY <1>3, <2>1, ImportedHandled, HandledKeeps
<1>4. ASSUME NEW b \in Blocks, TimeComes(b) \/ Seal(b) PROVE Good(s') /\ (Calm(s) => Calm(s)')
  <2>1. room' = room
    BY <1>4 DEF TimeComes, Seal, Outside
  <2> QED BY <1>4, <2>1, EnqueuedHandled, HandledKeeps
<1>5. ASSUME NEW b \in Blocks, VerifierRejects(b) PROVE Good(s') /\ Rejected # {}
  BY <1>5, RejectsKeeps
<1>6. CASE UNCHANGED vars
  BY <1>6 DEF vars, Calm, Waits
<1> QED BY <1>1, <1>2, <1>3, <1>4, <1>5, <1>6, DrainKeeps, RoomKeeps DEF Next

\* Every header and body marked as being downloaded is on the list of a peer
\* that is asked for such items now, for any number of peers, any windows and
\* any order of short, late and missing answers, announcements, resets and
\* departures: none is left for nobody to ask for.
THEOREM DownloadsAlwaysOwned == Spec => []DownloadsOwned
<1>1. Init => Good(s)
  BY InitHandled
<1>2. Good(s) /\ [Next]_vars => Good(s)'
  BY NextKeeps
<1>3. Good(s) => DownloadsOwned
  BY DEF Good, Owned, DownloadsOwned
<1> QED BY <1>1, <1>2, <1>3, PTL DEF Spec

\* Whatever arrives, is announced or reset meanwhile, a peer in
\* m_daoChallengedPeers is asked for the header of the fork block and nothing
\* else, so that onPeerBlockHeaders takes no other answer for it.
THEOREM ChallengesInFlight == Spec => []ChallengeInFlight
<1>1. Init => Good(s)
  BY InitHandled
<1>2. Good(s) /\ [Next]_vars => Good(s)'
  BY NextKeeps
<1>3. Good(s) => ChallengeInFlight
  BY DEF Good, Challenged, ChallengeInFlight
<1> QED BY <1>1, <1>2, <1>3, PTL DEF Spec

\* While the verifiers reject nothing, a paused download will be woken, with
\* resets and restarts at any time: the queue is still full, so that drain()
\* has yet to report room, or the report is on its way to continueSync.
THEOREM RoomIsReported ==
    ASSUME Rejected = {}
    PROVE  Spec => []WaitingForRoom
<1>1. Init => Good(s) /\ Calm(s)
  BY InitHandled
<1>2. Good(s) /\ Calm(s) /\ [Next]_vars => Good(s)' /\ Calm(s)'
  BY NextKeeps
<1>3. Calm(s) => WaitingForRoom
  BY DEF Calm, Waits, WaitingForRoom
<1> QED BY <1>1, <1>2, <1>3, PTL DEF Spec
=============================================================================
