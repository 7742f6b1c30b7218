--------------------------- MODULE TransactionQueue ---------------------------
(***************************************************************************)
(* The transaction queue of libwing (TransactionQueue.cpp, .h).  Current   *)
(* transactions can be executed, in the order of their priority; future    *)
(* ones wait for an earlier nonce of their account.  Every operation holds *)
(* m_lock from its first read to its last write and is one action; the     *)
(* signals it raises run their handlers under the lock and set the client's*)
(* flags m_syncTransactionQueue and m_needStateReset.                      *)
(*                                                                         *)
(* A transaction is identified with its hash.  m_current is the multiset   *)
(* in its tree order.  m_currentByHash and m_currentByAddressAndNonce index*)
(* the members of m_current and change with it, so they are read off it;   *)
(* m_future, a map by account and nonce, is the set of its transactions.   *)
(* Nonces and gas prices are numbers without a width.                      *)
(*                                                                         *)
(* Every transaction has a sender.  The catch clauses of                   *)
(* manageImport_WITH_LOCK are not modelled: they are for a transaction     *)
(* whose signature gives none, which sender() finds out by an exception,   *)
(* possibly when one of the indices has been changed already.              *)
(***************************************************************************)
EXTENDS QueueOps

CONSTANTS
    Transactions,   \* the transactions that can arrive
    FromPeers,      \* the transactions peers send; any can come from the local API
    Accounts,       \* the senders
    Account,        \* Account[t]: the sender of t
    Nonce,          \* Nonce[t]: the nonce of t
    GasPrice,       \* GasPrice[t]: the gas price of t
    Limit,          \* m_limit
    FutureLimit,    \* m_futureLimit
    MaxUnverified,  \* c_maxVerificationQueueSize
    TxVerifiers,    \* the verifier threads of the queue
    NoTx            \* a verifier thread without a transaction

ASSUME TransactionAssumption ==
    /\ IsFiniteSet(Transactions) /\ NoTx \notin Transactions
    /\ FromPeers \subseteq Transactions
    /\ Account \in [Transactions -> Accounts]
    /\ Nonce \in [Transactions -> Nat]
    /\ GasPrice \in [Transactions -> Nat]
ASSUME LimitAssumption == Limit \in Nat /\ FutureLimit \in Nat /\ MaxUnverified \in Nat

VARIABLES
    m_known, m_dropped, m_current, m_future, m_futureSize,
    m_unverified,               \* received from peers, waiting for a verifier thread
    txWork,                     \* txWork[v]: the transaction verifier v has taken
    m_syncTransactionQueue,     \* the client's flag, set by m_onReady
    m_needStateReset            \* the client's flag, set by m_onReplaced

txSetVars == <<m_known, m_dropped, m_current, m_future, m_futureSize>>
txThreadVars == <<m_unverified, txWork>>
txFlagVars == <<m_syncTransactionQueue, m_needStateReset>>
txQueueVars == <<txSetVars, txThreadVars, txFlagVars>>

Current == RangeOf(m_current)
Held == Current \cup m_future

SameSlot(s, t) == Account[s] = Account[t] /\ Nonce[s] = Nonce[t]

-----------------------------------------------------------------------------
(***************************************************************************)
(* PriorityCompare, when the current transactions are S: the height of a   *)
(* transaction is its distance from the lowest current nonce of its        *)
(* account, looked up at the time of the comparison.                       *)
(***************************************************************************)
LowestNonce(S, a) ==
    LET nonces == {Nonce[s] : s \in {x \in S : Account[x] = a}}
    IN  CHOOSE n \in nonces : \A m \in nonces : n <= m
Height(S, t) == Nonce[t] - LowestNonce(S, Account[t])
Before(S, s, t) ==
    \/ Height(S, s) < Height(S, t)
    \/ Height(S, s) = Height(S, t) /\ GasPrice[s] > GasPrice[t]

(***************************************************************************)
(* multiset::emplace walks down the tree; whatever its shape, it has       *)
(* compared the new member with the two it comes to stand between, and     *)
(* goes left only of a member it is before.  The place is unique while the *)
(* multiset is sorted.                                                     *)
(***************************************************************************)
InsertAt(q, p, t) == SubSeq(q, 1, p) \o <<t>> \o SubSeq(q, p + 1, Len(q))
InsertPlaces(q, t) ==
    LET S == RangeOf(q) \cup {t}
    IN  {p \in 0..Len(q) : /\ p > 0 => ~Before(S, t, q[p])
                           /\ p < Len(q) => Before(S, t, q[p + 1])}
Inserted(q, t) == {InsertAt(q, p, t) : p \in InsertPlaces(q, t)}

\* The multiset after the transactions of r are emplaced one after the other.
EachInserted(Q, t) == UNION {Inserted(q, t) : q \in Q}
InsertResults(q, r) ==
    LET results[i \in 0..Len(r)] ==
            IF i = 0 THEN {q} ELSE EachInserted(results[i - 1], r[i])
    IN  results
InsertedAll(q, r) == InsertResults(q, r)[Len(r)]

Without(q, S) == KeptAt(q, {i \in DOMAIN q : q[i] \notin S})

(***************************************************************************)
(* makeCurrent_WITH_LOCK: the future transactions that follow t without a  *)
(* gap become current, by nonce; then chain ends of m_future are dropped   *)
(* until m_futureLimit holds.  m_future.begin() is an arbitrary account,   *)
(* the same until it is empty.                                             *)
(***************************************************************************)
OnlyNext(F, t) == {f \in F : Account[f] = Account[t] /\ Nonce[f] = Nonce[t] + 1}
Followers(F, t) ==
    {f \in F : /\ Account[f] = Account[t] /\ Nonce[f] > Nonce[t]
               /\ \A n \in (Nonce[t] + 1)..Nonce[f] :
                     \E g \in F : Account[g] = Account[t] /\ Nonce[g] = n}
ByNonce(R) ==
    {r \in Orderings(R) : \A i, j \in DOMAIN r : i < j => Nonce[r[i]] <= Nonce[r[j]]}

\* m_futureSize after the transactions S have left m_future.
LeaveTwice(n, S) == n - 2 * Cardinality(S)
Leave(n, S) == n - Cardinality(S)

Excess(n) == IF n > FutureLimit THEN n - FutureLimit ELSE 0
Evictions(F, n) ==
    {E \in SUBSET F :
        /\ Cardinality(E) = Excess(n)
        /\ \A e \in E, f \in F : Account[f] = Account[e] /\ Nonce[f] > Nonce[e] => f \in E
        /\ \A e, f \in F \ E : (\E x, y \in E : Account[x] = Account[e] /\ Account[y] = Account[f])
                                   => Account[e] = Account[f]}

\* The results of makeCurrent_WITH_LOCK(t) on the current transactions q, the
\* future transactions F and m_futureSize = n.
MoveAll(q, R) == UNION {InsertedAll(q, r) : r \in ByNonce(R)}
Evicted(s, F, n, E) == [current |-> s, future |-> F \ E, size |-> Leave(n, E)]
MakeCurrent(q, F, n, t) ==
    LET R == Followers(F, t)
        n1 == Leave(n, R)
    IN  {Evicted(s, F \ R, n1, E) : s \in MoveAll(q, R), E \in Evictions(F \ R, n1)}

-----------------------------------------------------------------------------
TxQueueInit ==
    /\ m_known = {} /\ m_dropped = {} /\ m_current = <<>> /\ m_future = {} /\ m_futureSize = 0
    /\ m_unverified = <<>> /\ txWork = [v \in TxVerifiers |-> NoTx]
    /\ m_syncTransactionQueue = FALSE /\ m_needStateReset = FALSE

\* check_WITH_LOCK answers Success.
CheckWithLock(t, retry) == t \notin m_known /\ (t \in m_dropped => retry)

\* No transaction of the same account and nonce bids more.
AnyBid(t) == TRUE
NotOverbid(t) == \A s \in Held : SameSlot(s, t) => GasPrice[s] <= GasPrice[t]

\* The transactions of the same account and nonce.
PriorCurrent(t) == {s \in Current : SameSlot(s, t)}
KeepFuture(t) == {}
PriorFuture(t) == {s \in m_future : SameSlot(s, t)}

NoTrim(q) == q
TrimCurrent(q) == SubSeq(q, 1, IF Len(q) > Limit THEN Limit ELSE Len(q))

(***************************************************************************)
(* import() past its checks: manageImport_WITH_LOCK.  The transaction of   *)
(* the same account and nonce is replaced, in m_current with a signal, in  *)
(* m_future without one; what follows becomes current; the lowest          *)
(* priorities beyond m_limit are dropped.                                  *)
(***************************************************************************)
Import(t, retry) ==
    /\ CheckWithLock(t, retry)
    /\ NotOverbid(t)
    /\ \E q \in Inserted(Without(m_current, PriorCurrent(t)), t) :
       \E made \in MakeCurrent(q, m_future \ PriorFuture(t),
                               Leave(m_futureSize, PriorFuture(t)), t) :
          /\ m_current' = TrimCurrent(made.current)
          /\ m_future' = made.future
          /\ m_futureSize' = made.size
          /\ m_known' = ((m_known \ PriorCurrent(t)) \cup {t})
                            \ (RangeOf(made.current) \ RangeOf(TrimCurrent(made.current)))
    /\ m_needStateReset' = (m_needStateReset \/ PriorCurrent(t) # {})
    /\ m_syncTransactionQueue' = TRUE
    /\ UNCHANGED m_dropped

\* remove_WITH_LOCK: only from m_current.
ForgetAlways(t, q) == m_current' = Without(q, {t}) /\ m_known' = m_known \ {t}
RemoveCurrent(t, q) ==
    /\ m_current' = Without(q, {t})
    /\ m_known' = IF t \in RangeOf(q) THEN m_known \ {t} ELSE m_known

Drop(t) ==
    /\ t \in m_known
    /\ m_dropped' = m_dropped \cup {t}
    /\ RemoveCurrent(t, m_current)
    /\ UNCHANGED <<m_future, m_futureSize, txThreadVars, txFlagVars>>

DropGood(t) ==
    /\ \E made \in MakeCurrent(m_current, m_future, m_futureSize, t) :
          /\ IF t \in m_known THEN RemoveCurrent(t, made.current)
                              ELSE m_current' = made.current /\ UNCHANGED m_known
          /\ m_future' = made.future
          /\ m_futureSize' = made.size
          /\ m_syncTransactionQueue' =
                (m_syncTransactionQueue \/ Followers(m_future, t) # {})
    /\ UNCHANGED <<m_dropped, txThreadVars, m_needStateReset>>

FromNonceOn(t) == {s \in Current : Account[s] = Account[t] /\ Nonce[s] >= Nonce[t]}
CountOnce(t) == m_futureSize + 1
CountFuture(t) == m_futureSize + Cardinality(FromNonceOn(t))
SetFuture(t) ==
    /\ t \in Current
    /\ m_current' = Without(m_current, FromNonceOn(t))
    /\ m_future' = m_future \cup FromNonceOn(t)
    /\ m_futureSize' = CountFuture(t)
    /\ UNCHANGED <<m_known, m_dropped, txThreadVars, txFlagVars>>

ClearTransactions ==
    /\ m_known' = {} /\ m_dropped' = {} /\ m_current' = <<>> /\ m_future' = {} /\ m_futureSize' = 0
    /\ UNCHANGED <<txThreadVars, txFlagVars>>

-----------------------------------------------------------------------------
\* enqueue() of one transaction; it is dropped when the queue is full.
Enqueue(t) ==
    /\ Len(m_unverified) < MaxUnverified
    /\ m_unverified' = Append(m_unverified, t)
    /\ UNCHANGED <<txSetVars, txWork, txFlagVars>>

\* verifierBody takes a transaction under x_queue ...
TakeUnverified(v) ==
    /\ txWork[v] = NoTx /\ m_unverified # <<>>
    /\ txWork' = [txWork EXCEPT ![v] = Head(m_unverified)]
    /\ m_unverified' = Tail(m_unverified)
    /\ UNCHANGED <<txSetVars, txFlagVars>>

\* ... and imports it; a refused one changes nothing.
ImportTaken(v) ==
    /\ txWork[v] # NoTx
    /\ \/ Import(txWork[v], FALSE)
       \/ /\ ~CheckWithLock(txWork[v], FALSE) \/ ~NotOverbid(txWork[v])
          /\ UNCHANGED <<txSetVars, txFlagVars>>
    /\ txWork' = [txWork EXCEPT ![v] = NoTx]
    /\ UNCHANGED m_unverified

-----------------------------------------------------------------------------
TxInit == TxQueueInit

\* The queue with every operation called at any time, from any thread.
TxNext ==
    \/ \E t \in Transactions :
          \/ \E retry \in BOOLEAN : Import(t, retry) /\ UNCHANGED txThreadVars
          \/ Drop(t) \/ DropGood(t) \/ SetFuture(t)
    \/ \E t \in FromPeers : Enqueue(t)
    \/ \E v \in TxVerifiers : TakeUnverified(v) \/ ImportTaken(v)
    \/ ClearTransactions

TxSpec == TxInit /\ [][TxNext]_txQueueVars

\* The type of the queue's state.
TxTypeOK ==
    /\ m_known \subseteq Transactions /\ m_dropped \subseteq Transactions
    /\ m_current \in Seq(Transactions) /\ m_future \subseteq Transactions
    /\ m_futureSize \in Nat
    /\ m_unverified \in Seq(Transactions)
    /\ txWork \in [TxVerifiers -> Transactions \cup {NoTx}]
    /\ m_syncTransactionQueue \in BOOLEAN /\ m_needStateReset \in BOOLEAN

\* One transaction per account and nonce, in m_current and m_future together:
\* both maps by nonce can hold it, and an import replaces rather than adds.
OnePerNonce ==
    /\ Distinct(m_current)
    /\ Current \cap m_future = {}
    /\ \A s, t \in Held : SameSlot(s, t) => s = t

\* m_futureSize, an unsigned counter kept by hand in five places, counts
\* m_future: the loop that enforces m_futureLimit never runs on an empty map.
FutureCounted == m_futureSize = Cardinality(m_future)

\* What the queue holds it knows, so import() answers AlreadyKnown for it.
HeldKnown == Held \subseteq m_known

\* The two limits bound the queue as a whole at all times: dropGood and
\* setFuture can exceed one of them only at the cost of the other.
HeldBounded == Len(m_current) + Cardinality(m_future) <= Limit + FutureLimit

\* A transaction that becomes current brings all its followers along: it
\* leaves no future transaction right behind it.
ReleasedTogether ==
    [][\A t \in Current' \ Current : OnlyNext(m_future', t) = {}]_txQueueVars

\* The bid for an account and nonce never goes down while it is held.
NeverUnderbid ==
    [][\A s \in Held, t \in Held' : SameSlot(s, t) => GasPrice[s] <= GasPrice[t]]_txQueueVars

\* m_known is the "headers of transactions in both sets".
KnownHeld == m_known \subseteq Held
=============================================================================
