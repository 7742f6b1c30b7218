---------------------------- MODULE TransactionSync ----------------------------
(***************************************************************************)
(* The transaction queue and the client thread that executes it.  Peers and*)
(* the local API import; Client::doWork calls resetState when a            *)
(* transaction was replaced and syncTransactionQueue when the flag is set: *)
(* Block::sync takes the top transactions and executes them on the working *)
(* block one by one, giving those that fail back to the queue with drop()  *)
(* or setFuture().  A new block calls dropGood() for its transaction,      *)
(* starts a new working block and imports the pending ones again.          *)
(*                                                                         *)
(* The node is not sealing, not in a major sync and has no remote worker:  *)
(* these conditions of doWork are taken to be false.  Blocks are added to  *)
(* the chain and not taken back (onDeadBlocks), one transaction in each, so*)
(* syncTransactionQueue finds the working block on the head of the chain.  *)
(***************************************************************************)
EXTENDS TransactionQueue

CONSTANTS
    Invalid,                \* transactions verifyTransaction rejects, or beyond any block's gas limit
    Unaffordable,           \* transactions whose sender lacks the balance
    BlockRoom,              \* how many transactions the gas limit of a block leaves room for
    Ask,                    \* GasPricer::ask
    MaxSyncTransactions     \* c_maxSyncTransactions

ASSUME TxSyncAssumption ==
    /\ Invalid \subseteq Transactions /\ Unaffordable \subseteq Transactions
    /\ BlockRoom \in Nat /\ Ask \in Nat /\ MaxSyncTransactions \in Nat \ {0}

VARIABLES
    txClient,       \* where the client thread is
    chainNonce,     \* chainNonce[a]: the next nonce of a in the chain
    working,        \* the transactions of m_working, in order
    postSeal,       \* the transactions of m_postSeal
    ts,             \* the top transactions Block::sync goes through
    pos,            \* its place in ts
    fresh,          \* the receipts it has made
    good,           \* goodTxs of this pass
    more,           \* what it returns: there is more to do
    resubmit        \* pending transactions to import again

blockVars == <<chainNonce, working, postSeal>>
syncVars == <<ts, pos, fresh, good, more, resubmit>>
clientVars == <<txClient, blockVars, syncVars>>
vars == <<txQueueVars, clientVars>>

Init ==
    /\ TxQueueInit
    /\ txClient = "idle" /\ chainNonce = [a \in Accounts |-> 0]
    /\ working = <<>> /\ postSeal = <<>>
    /\ ts = <<>> /\ pos = 1 /\ fresh = 0 /\ good = 0 /\ more = FALSE /\ resubmit = <<>>

\* submitTransaction, injectTransaction and the queue's own verifiers.
Submit(t) == Import(t, FALSE) /\ UNCHANGED <<txThreadVars, clientVars>>
FromPeer(t) == Enqueue(t) /\ UNCHANGED clientVars
TxVerifier(v) == (TakeUnverified(v) \/ ImportTaken(v)) /\ UNCHANGED clientVars

-----------------------------------------------------------------------------
KeepWorking == UNCHANGED working /\ postSeal' = working
NewWorking == working' = <<>> /\ postSeal' = <<>>
\* resetState(), then the flag: two steps, a transaction may be replaced between.
ResetState ==
    /\ txClient = "idle" /\ m_needStateReset
    /\ NewWorking
    /\ m_syncTransactionQueue' = TRUE
    /\ txClient' = "reset"
    /\ UNCHANGED <<txSetVars, txThreadVars, m_needStateReset, chainNonce, syncVars>>
ResetDone ==
    /\ txClient = "reset"
    /\ m_needStateReset' = FALSE
    /\ txClient' = "idle"
    /\ UNCHANGED <<txSetVars, txThreadVars, m_syncTransactionQueue, blockVars, syncVars>>

StartTxSync ==
    /\ txClient = "idle" /\ m_syncTransactionQueue
    /\ m_syncTransactionQueue' = FALSE
    /\ txClient' = "top"
    /\ UNCHANGED <<txSetVars, txThreadVars, m_needStateReset, blockVars, syncVars>>

\* topTransactions, avoiding what the working block has.
TopTransactions ==
    /\ txClient = "top"
    /\ LET wanted == Without(m_current, RangeOf(working))
           n == IF Len(wanted) < MaxSyncTransactions THEN Len(wanted) ELSE MaxSyncTransactions
       IN  /\ ts' = SubSeq(wanted, 1, n)
           /\ more' = (n = MaxSyncTransactions)
           /\ txClient' = IF n = 0 THEN "assign" ELSE "execute"
    /\ pos' = 1 /\ good' = 0 /\ fresh' = 0
    /\ UNCHANGED <<txQueueVars, blockVars, resubmit>>

\* The nonce of a in the state of the working block.
OnWorking(a) == {i \in DOMAIN working : Account[working[i]] = a}
ChainOnly(a) == chainNonce[a]
RequiredNonce(a) == chainNonce[a] + Cardinality(OnWorking(a))
Waiting(a) == Cardinality({t \in Held : Account[t] = a})

Fits == Len(working) < BlockRoom

(***************************************************************************)
(* What becomes of a transaction of ts: execute() takes it, or throws and  *)
(* the catch clause drops it, puts it off or, when the block is full,      *)
(* leaves it alone.                                                        *)
(***************************************************************************)
RightNonce(t) == Nonce[t] = RequiredNonce(Account[t])
Executes(t) ==
    GasPrice[t] >= Ask /\ t \notin Invalid /\ Fits /\ RightNonce(t) /\ t \notin Unaffordable
PutOff(t) ==
    /\ GasPrice[t] >= Ask /\ t \notin Invalid /\ Fits
    /\ Nonce[t] > RequiredNonce(Account[t])
    /\ Nonce[t] <= RequiredNonce(Account[t]) + Waiting(Account[t])
Dropped(t) ==
    \/ GasPrice[t] < (Ask * 9) \div 10
    \/ /\ GasPrice[t] >= Ask
       /\ t \in Invalid \/ (Fits /\ ~PutOff(t) /\ ~Executes(t))

ExecuteNext ==
    /\ txClient = "execute" /\ pos <= Len(ts)
    /\ LET t == ts[pos]
           old == t \in RangeOf(working)
       IN  \/ /\ ~old /\ Executes(t)
              /\ working' = Append(working, t) /\ fresh' = fresh + 1 /\ good' = good + 1
              /\ pos' = pos + 1 /\ UNCHANGED txClient
           \/ /\ ~old /\ Dropped(t)
              /\ txClient' = "drop" /\ UNCHANGED <<working, fresh, good, pos>>
           \/ /\ ~old /\ PutOff(t)
              /\ txClient' = "setFuture" /\ UNCHANGED <<working, fresh, good, pos>>
           \/ /\ old \/ ~(Executes(t) \/ Dropped(t) \/ PutOff(t))
              /\ pos' = pos + 1 /\ UNCHANGED <<txClient, working, fresh, good>>
    /\ UNCHANGED <<txQueueVars, chainNonce, postSeal, ts, more, resubmit>>

\* The call back into the queue, which has been unlocked since topTransactions.
GiveBack ==
    /\ \/ txClient = "drop" /\ Drop(ts[pos])
       \/ txClient = "drop" /\ ts[pos] \notin m_known /\ UNCHANGED txQueueVars
       \/ txClient = "setFuture" /\ SetFuture(ts[pos])
       \/ txClient = "setFuture" /\ ts[pos] \notin Current /\ UNCHANGED txQueueVars
    /\ txClient' = "execute" /\ pos' = pos + 1
    /\ UNCHANGED <<blockVars, ts, fresh, good, more, resubmit>>

\* The end of a pass: past the deadline it stops and says there is more, with
\* all of ts executed it stops, else it goes over ts again.
EndPass ==
    /\ txClient = "execute" /\ pos > Len(ts)
    /\ \/ more' = TRUE /\ txClient' = "assign" /\ UNCHANGED <<pos, good>>
       \/ good = Len(ts) /\ txClient' = "assign" /\ UNCHANGED <<more, pos, good>>
       \/ good < Len(ts) /\ pos' = 1 /\ good' = 0 /\ UNCHANGED <<more, txClient>>
    /\ UNCHANGED <<txQueueVars, blockVars, ts, fresh, resubmit>>

\* tie(newPendingReceipts, m_syncTransactionQueue) = ..., then m_postSeal.
AssignTxFlag ==
    /\ txClient = "assign"
    /\ m_syncTransactionQueue' = more
    /\ postSeal' = IF fresh > 0 THEN working ELSE postSeal
    /\ txClient' = "idle" /\ ts' = <<>> /\ pos' = 1 /\ good' = 0 /\ fresh' = 0 /\ more' = FALSE
    /\ UNCHANGED <<txSetVars, txThreadVars, m_needStateReset, chainNonce, working, resubmit>>

-----------------------------------------------------------------------------
(***************************************************************************)
(* A block with the transaction t enters the chain: onChainChanged drops t *)
(* and resyncStateFromChain starts a new working block.  ts carries t.     *)
(***************************************************************************)
ChainAdvance(t) ==
    /\ txClient = "idle"
    /\ t \notin Invalid \cup Unaffordable /\ Nonce[t] = chainNonce[Account[t]]
    /\ chainNonce' = [chainNonce EXCEPT ![Account[t]] = @ + 1]
    /\ ts' = <<t>> /\ txClient' = "dropGood"
    /\ UNCHANGED <<txQueueVars, working, postSeal, pos, fresh, good, more, resubmit>>
ChainDropGood ==
    /\ txClient = "dropGood"
    /\ DropGood(ts[1])
    /\ ts' = <<>> /\ txClient' = "resync"
    /\ UNCHANGED <<blockVars, pos, fresh, good, more, resubmit>>
ResyncState ==
    /\ txClient = "resync"
    /\ working' = <<>> /\ resubmit' = postSeal /\ txClient' = "resubmit"
    /\ UNCHANGED <<txQueueVars, chainNonce, postSeal, ts, pos, fresh, good, more>>
Resubmit ==
    /\ txClient = "resubmit" /\ resubmit # <<>>
    /\ LET t == Head(resubmit)
       IN  \/ Import(t, TRUE) /\ UNCHANGED txThreadVars
           \/ /\ ~CheckWithLock(t, TRUE) \/ ~NotOverbid(t)
              /\ m_syncTransactionQueue' = TRUE
              /\ UNCHANGED <<txSetVars, txThreadVars, m_needStateReset>>
    /\ resubmit' = Tail(resubmit)
    /\ UNCHANGED <<txClient, blockVars, ts, pos, fresh, good, more>>
ResubmitDone ==
    /\ txClient = "resubmit" /\ resubmit = <<>>
    /\ postSeal' = working
    /\ m_syncTransactionQueue' = TRUE
    /\ txClient' = "idle"
    /\ UNCHANGED <<txSetVars, txThreadVars, m_needStateReset, chainNonce, working,
                   syncVars>>

ClientStep ==
    \/ StartTxSync \/ TopTransactions \/ ExecuteNext \/ GiveBack \/ EndPass \/ AssignTxFlag
    \/ ChainDropGood \/ ResyncState \/ Resubmit \/ ResubmitDone

Next ==
    \/ \E t \in Transactions : Submit(t) \/ ChainAdvance(t)
    \/ \E t \in FromPeers : FromPeer(t)
    \/ \E v \in TxVerifiers : TxVerifier(v)
    \/ ResetState \/ ResetDone
    \/ ClientStep

(***************************************************************************)
(* doWork runs for ever and visits the reset and the sync in each round;   *)
(* every pass over ts ends, and the deadline passes in the end.            *)
(***************************************************************************)
Fairness ==
    /\ WF_vars(ResetDone) /\ SF_vars(ResetState)
    /\ WF_vars(ClientStep) /\ SF_vars(EndPass /\ txClient' = "assign")
    /\ \A v \in TxVerifiers : WF_vars(TxVerifier(v))

Spec == Init /\ [][Next]_vars
FairSpec == Spec /\ Fairness

-----------------------------------------------------------------------------
\* The working block never spends a nonce twice and never skips one: it stays
\* executable on the chain while transactions are replaced, dropped and mined.
WorkingConsecutive ==
    txClient \notin {"dropGood", "resync"} =>
        \A i \in DOMAIN working :
            Nonce[working[i]] =
                chainNonce[Account[working[i]]]
                  + Cardinality({j \in OnWorking(Account[working[i]]) : j < i})

\* A transaction that is replaced is taken out of the working block, also when
\* the replacement comes while resetState runs.
ReplacedIsReset == m_needStateReset ~> (working = <<>>)

\* A current transaction is executed, dropped or put off by the client: no
\* wake-up is lost.
CurrentConsidered ==
    \A t \in Transactions : t \in Current \ RangeOf(working) ~> t \notin Current \ RangeOf(working)

=============================================================================
