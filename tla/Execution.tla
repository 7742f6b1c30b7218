------------------------------- MODULE Execution -------------------------------
(***************************************************************************)
(* Execution of transactions over the world state (Executive.cpp, ExtVM,   *)
(* State::execute): the frames of nested calls and creations, each with    *)
(* its savepoint and sub-state, and the permanence of the result.          *)
(*                                                                         *)
(* The code of a contract is abstract: the innermost frame may do anything *)
(* the virtual machine lets it do through ExtVM.  Gas is abstract but for  *)
(* its price: the sender pays for all of it first, and the part a          *)
(* transaction did not use comes back when it is finalized.                *)
(***************************************************************************)
EXTENDS StateLog

CONSTANTS
    Genesis,            \* the accounts committed at first
    Senders,            \* the accounts that sign transactions
    Author,             \* m_envInfo.author()
    Precompiled,        \* the addresses of precompiled contracts
    NewAddresses(_, _), \* what CREATE and CREATE2 hash a sender and its nonce to
    BlockhashContract,  \* c_blockhashContractAddress
    EIP158,             \* number() >= EIP158ForkBlock
    TxGas, GasPrice,    \* m_t.gas(), m_t.gasPrice()
    Amounts,            \* the values a message may carry
    DepthLimit,         \* c_depthLimit
    MaxOps              \* bound on the work of a behaviour

ASSUME ExecutionAssumption ==
    /\ Genesis \in [Addresses -> TrieAccount \cup {NoAccount}]
    /\ Senders \subseteq Addresses /\ Author \in Addresses
    /\ Precompiled \subseteq Addresses /\ BlockhashContract \in Addresses
    /\ EIP158 \in BOOLEAN
    /\ TxGas \in Nat /\ GasPrice \in Nat /\ Amounts \subseteq Nat
    /\ DepthLimit \in Nat /\ MaxOps \in Nat

VARIABLES
    trie, m_cache, m_changeLog, m_nonExistingAccountsCache, m_unchangedCacheEntries,
    frames,     \* the Executives and ExtVMs in progress, innermost last
    tx,         \* the transaction being executed
    suicides,   \* m_ext->sub.suicides of the transaction's own frame, once it is over
    saved,      \* history: the world and the effects when each frame began
    ops         \* the work done: two for a transaction, one for an operation of its code

stateVars == <<trie, m_cache, m_changeLog, m_nonExistingAccountsCache, m_unchangedCacheEntries>>
vars == <<stateVars, frames, tx, suicides, saved, ops>>

NoTx == [sender |-> NoAccount, phase |-> "none"]
Top == frames[Len(frames)]
Running == tx.phase = "running" /\ ~ Top.halted
Operation == Running /\ ops < MaxOps /\ ops' = ops + 1

(***************************************************************************)
(* The state the operators of StateLog work on, after account() may have   *)
(* purged the cache; and what an action makes of it.                       *)
(***************************************************************************)
Now == [cache |-> m_cache, log |-> m_changeLog, absent |-> m_nonExistingAccountsCache,
        clean |-> m_unchangedCacheEntries, trie |-> trie]
Becomes(s) ==
    /\ m_cache' = s.cache
    /\ m_changeLog' = s.log
    /\ m_nonExistingAccountsCache' = s.absent
    /\ m_unchangedCacheEntries' = s.clean

(***************************************************************************)
(* What the accounts are seen to hold (a touch counts once removing empty  *)
(* accounts does), and the effects pending.                                *)
(***************************************************************************)
Seen(c) ==
    [alive |-> c.alive, nonce |-> c.nonce, balance |-> c.balance, code |-> c.code,
     storage |-> StorageOf(c), touched |-> EIP158 /\ ~ c.unchanged /\ IsEmpty(c)]
World(s) == [a \in {b \in Addresses : HasAccount(s, b)} |-> Seen(AccountAt(s, a))]
Effects == suicides \cup UNION {frames[i].suicides : i \in DOMAIN frames}

Init ==
    /\ trie = Genesis
    /\ m_cache = <<>> /\ m_changeLog = <<>>
    /\ m_nonExistingAccountsCache = {} /\ m_unchangedCacheEntries = {}
    /\ frames = <<>> /\ tx = NoTx /\ suicides = {} /\ saved = <<>>
    /\ ops = 0

(***************************************************************************)
(* Mutant: m_savepoint keeps its initial value.                            *)
(***************************************************************************)
EnterNoSavepoint(savepoint, s, addr, caller, create) ==
    /\ frames' = Append(frames, [addr |-> addr, caller |-> caller, create |-> create,
                                 savepoint |-> 0, suicides |-> {}, halted |-> FALSE])
    /\ saved' = Append(saved, [world |-> World(savepoint), effects |-> Effects])
    /\ Becomes(s)

(***************************************************************************)
(* A frame begins: savepoint is the state after the nonce was advanced and *)
(* s the state in which its code runs.                                     *)
(***************************************************************************)
Enter(savepoint, s, addr, caller, create) ==
    /\ frames' = Append(frames, [addr |-> addr, caller |-> caller, create |-> create,
                                 savepoint |-> Savepoint(savepoint), suicides |-> {},
                                 halted |-> FALSE])
    /\ saved' = Append(saved, [world |-> World(savepoint), effects |-> Effects])
    /\ Becomes(s)

(***************************************************************************)
(* Executive::call: cs is the state at its savepoint.  A call of code      *)
(* opens a frame; a precompiled contract runs at once, and one that cannot *)
(* pay is touched; a call of no code only moves the value.  Contracts of   *)
(* libwingvm, native ones, are left out.                                   *)
(***************************************************************************)
CallCode(cs, from, code, to, value) ==
    /\ code \notin Precompiled /\ AddressHasCode(cs, code)
    /\ Enter(cs, TransferBalance(cs, from, to, value), to, from, FALSE)

CallNoCode(cs, from, code, to, value) ==
    /\ code \in Precompiled \/ ~ AddressHasCode(cs, code)
    /\ \/ Becomes(TransferBalance(cs, from, to, value))
       \/ code \in Precompiled /\ Becomes(cs)
       \/ code \in Precompiled /\ Becomes(IF EIP158 THEN AddBalance(cs, code, 0) ELSE cs)
    /\ UNCHANGED <<frames, saved>>

(***************************************************************************)
(* Executive::executeCreate and the start of go().  An address in use      *)
(* fails the creation; init code runs in a frame of its own.               *)
(***************************************************************************)
AlreadyUsed(cs, addr) == AddressHasCode(cs, addr) \/ GetNonce(cs, addr) > 0
Endowed(cs, from, addr, value) ==
    SetNonce(TransferBalance(cs, from, addr, value), addr,
             AccountStartNonce + IF EIP158 THEN 1 ELSE 0)

CreateCode(cs, from, addr, value) ==
    /\ ~ AlreadyUsed(cs, addr)
    /\ Enter(cs, ClearStorage(Endowed(cs, from, addr, value), addr), addr, from, TRUE)

CreateNoCode(cs, from, addr, value) ==
    /\ Becomes(IF AlreadyUsed(cs, addr) THEN Rollback(cs, Savepoint(cs))
               ELSE Endowed(cs, from, addr, value))
    /\ UNCHANGED <<frames, saved>>

-----------------------------------------------------------------------------
(***************************************************************************)
(* State::execute up to go(): initialize checks the nonce, which an honest *)
(* transaction carries, and the balance; execute pays for the gas.         *)
(***************************************************************************)
BeginTx(sender, picked) ==
    /\ tx = NoTx /\ ops + 2 <= MaxOps /\ ops' = ops + 2
    /\ LET s == ClearCache(Now, picked) IN
       \E value \in Amounts :
          /\ Balance(s, sender) >= TxGas * GasPrice + value
          /\ LET cs == IncNonce(SubBalance(s, sender, TxGas * GasPrice), sender) IN
             \/ \E to \in Addresses :
                   \/ CallCode(cs, sender, to, to, value)
                   \/ CallNoCode(cs, sender, to, to, value)
             \/ \E addr \in Addresses \cap NewAddresses(sender, GetNonce(s, sender)) :
                   \/ CreateCode(cs, sender, addr, value)
                   \/ CreateNoCode(cs, sender, addr, value)
    /\ tx' = [sender |-> sender, phase |-> IF frames' = <<>> THEN "over" ELSE "running"]
    /\ UNCHANGED <<trie, suicides>>

(***************************************************************************)
(* The CALL family: the machine checks the balance and the depth.  A       *)
(* DELEGATECALL runs other code on the caller's own account.               *)
(***************************************************************************)
Call(code, to, value, picked) ==
    /\ Operation /\ Len(frames) < DepthLimit
    /\ LET s == ClearCache(Now, picked) IN
       /\ Balance(s, Top.addr) >= value
       /\ \/ CallCode(s, Top.addr, code, to, value)
          \/ CallNoCode(s, Top.addr, code, to, value)
    /\ UNCHANGED <<trie, tx, suicides>>

(***************************************************************************)
(* CREATE and CREATE2 (ExtVM::create).                                     *)
(***************************************************************************)
Create(value, picked) ==
    /\ Operation /\ Len(frames) < DepthLimit
    /\ LET s == ClearCache(Now, picked)
           cs == IncNonce(s, Top.addr)
       IN  /\ Balance(s, Top.addr) >= value
           /\ \E addr \in Addresses \cap NewAddresses(Top.addr, GetNonce(s, Top.addr)) :
                 \/ CreateCode(cs, Top.addr, addr, value)
                 \/ CreateNoCode(cs, Top.addr, addr, value)
    /\ UNCHANGED <<trie, tx, suicides>>

(***************************************************************************)
(* SSTORE (ExtVM::setStore) and SLOAD (ExtVM::store).                      *)
(***************************************************************************)
Store(k, v, picked) ==
    /\ Operation
    /\ Becomes(SetStorage(ClearCache(Now, picked), Top.addr, k, v))
    /\ UNCHANGED <<trie, frames, tx, suicides, saved>>

Load(k, picked) ==
    /\ Operation
    /\ Becomes(StorageRead(ClearCache(Now, picked), Top.addr, k))
    /\ UNCHANGED <<trie, frames, tx, suicides, saved>>

(***************************************************************************)
(* BLOCKHASH (ExtVM::blockHash) once the hashes are kept by a contract: a  *)
(* transaction inside the transaction, executed with Permanence::Reverted. *)
(***************************************************************************)
BlockHash(picked) ==
    /\ Operation
    /\ LET s == IncNonce(ClearCache(Now, picked), Top.caller)
           called == TransferBalance(s, Top.caller, BlockhashContract, 0)
           final == AddBalance(AddBalance(called, Top.caller, 0), Author, 0)
       IN  Becomes([final EXCEPT !.cache = <<>>])
    /\ UNCHANGED <<trie, frames, tx, suicides, saved>>

(***************************************************************************)
(* The innermost frame ends.  leave is what becomes of its sub-state: the  *)
(* caller accrues it (ExtVM::call, create), or the transaction keeps it.   *)
(***************************************************************************)
Leave(leave) ==
    /\ saved' = SubSeq(saved, 1, Len(saved) - 1)
    /\ IF Len(frames) = 1
       THEN /\ frames' = <<>> /\ suicides' = leave
            /\ tx' = [tx EXCEPT !.phase = "over"]
       ELSE /\ frames' = [SubSeq(frames, 1, Len(frames) - 1)
                             EXCEPT ![Len(frames) - 1].suicides = @ \cup leave]
            /\ UNCHANGED <<suicides, tx>>

(***************************************************************************)
(* The code returns; a creation stores what it returns as code.            *)
(***************************************************************************)
Deposited(s, code) == IF Top.create THEN SetCode(s, Top.addr, code) ELSE s

Return(code, picked) ==
    /\ tx.phase = "running" /\ (Top.halted => code = EmptyCode)
    /\ Becomes(Deposited(ClearCache(Now, picked), code))
    /\ Leave(Top.suicides)
    /\ UNCHANGED <<trie, ops>>

(***************************************************************************)
(* SUICIDE (ExtVM::suicide): the balance goes to the beneficiary, and the  *)
(* machine stops: the frame only returns, without output.                  *)
(***************************************************************************)
Suicide(heir, picked) ==
    /\ Operation
    /\ LET s == ClearCache(Now, picked) IN
       Becomes(SetBalance(AddBalance(s, heir, Balance(s, Top.addr)), Top.addr, 0))
    /\ frames' = [frames EXCEPT ![Len(frames)].suicides = @ \cup {Top.addr},
                                ![Len(frames)].halted = TRUE]
    /\ UNCHANGED <<trie, tx, suicides, saved>>

(***************************************************************************)
(* REVERT, or an exception of the virtual machine: Executive::revert.      *)
(***************************************************************************)
Revert ==
    /\ Running
    /\ Becomes(Rollback(Now, Top.savepoint))
    /\ Leave({})
    /\ UNCHANGED <<trie, ops>>

(***************************************************************************)
(* Mutant: the author is paid for the gas that was refunded too.           *)
(***************************************************************************)
FinalizedTwice(s, gas) ==
    LET refunded == AddBalance(s, tx.sender, gas * GasPrice)
    IN  Kill(AddBalance(refunded, Author, TxGas * GasPrice), suicides)

(***************************************************************************)
(* Executive::finalize, gas being what is left: refund, fees, suicides.    *)
(***************************************************************************)
Finalized(s, gas) ==
    LET refunded == AddBalance(s, tx.sender, gas * GasPrice)
        paid == AddBalance(refunded, Author, (TxGas - gas) * GasPrice)
    IN  Kill(paid, suicides)

(***************************************************************************)
(* The rest of State::execute.  The transaction is committed to the trie,  *)
(* or its changes are dropped with the cache.  Permanence::Uncommitted,    *)
(* with which the tests read the change log, is left out.                  *)
(***************************************************************************)
Commit(gas) ==
    /\ tx.phase = "over"
    /\ LET s == Finalized(Now, gas) IN
       LET kept == IF EIP158 THEN RemoveEmptyAccounts(s) ELSE s IN
       /\ trie' = Committed(kept)
       /\ Becomes([cache |-> <<>>, log |-> <<>>, absent |-> kept.absent, clean |-> {}])
    /\ tx' = NoTx /\ suicides' = {}
    /\ UNCHANGED <<frames, saved, ops>>

Drop(gas) ==
    /\ tx.phase = "over"
    /\ Becomes([Finalized(Now, gas) EXCEPT !.cache = <<>>])
    /\ tx' = NoTx /\ suicides' = {}
    /\ UNCHANGED <<trie, frames, saved, ops>>

(***************************************************************************)
(* State::setRoot, back to the first root.                                 *)
(***************************************************************************)
SetRoot ==
    /\ tx = NoTx /\ trie # Genesis
    /\ trie' = Genesis
    /\ Becomes([Now EXCEPT !.cache = <<>>, !.clean = {}, !.absent = {}])
    /\ UNCHANGED <<frames, tx, suicides, saved, ops>>

(***************************************************************************)
(* The list is over its limit by one at most, so an operation purges none  *)
(* or one of the accounts of the instance.                                 *)
(***************************************************************************)
Picks == {{}} \cup {{a} : a \in m_unchangedCacheEntries}

Next ==
    \/ \E picked \in Picks :
          \/ \E sender \in Senders : BeginTx(sender, picked)
          \/ \E to \in Addresses, value \in Amounts : Call(to, to, value, picked)
          \/ \E code \in Addresses : Running /\ Call(code, Top.addr, 0, picked)
          \/ \E value \in Amounts : Create(value, picked)
          \/ \E k \in Keys : Load(k, picked)
          \/ \E k \in Keys, v \in Values : Store(k, v, picked)
          \/ \E code \in Codes \cup {EmptyCode} : Return(code, picked)
          \/ \E heir \in Addresses : Suicide(heir, picked)
    \/ Revert
    \/ \E gas \in 0..TxGas : Commit(gas) \/ Drop(gas)
    \/ SetRoot

Spec == Init /\ [][Next]_vars

(***************************************************************************)
(* From constantinopleForkBlock + 256 on.                                  *)
(***************************************************************************)
NextEIP210 == Next \/ \E picked \in Picks : BlockHash(picked)
SpecEIP210 == Init /\ [][NextEIP210]_vars

-----------------------------------------------------------------------------
(***************************************************************************)
(* What clearCacheIfTooLarge may drop is no different from the trie, and   *)
(* an address remembered as absent is: an account whose code or storage    *)
(* was changed without being marked so would be lost when the cache fills  *)
(* up (State::clearCacheIfTooLarge, State::account).                       *)
(***************************************************************************)
CleanIsCommitted ==
    /\ \A a \in DOMAIN m_cache : m_cache[a].unchanged =>
          /\ trie[a] # NoAccount
          /\ [m_cache[a] EXCEPT !.overlay = <<>>] = FromTrie(trie[a])
          /\ StorageOf(m_cache[a]) = trie[a].root
    /\ \A a \in m_nonExistingAccountsCache : a \notin DOMAIN m_cache /\ trie[a] = NoAccount

(***************************************************************************)
(* No sequence of transfers, creations, suicides, failures and refunds     *)
(* creates ether or overdraws an account (Executive, State::addBalance):   *)
(* what the accounts hold and the price of the gas being used never exceed *)
(* what there was at first.                                                *)
(***************************************************************************)
AddressOrder == CHOOSE order \in Orderings(Addresses) : TRUE
Held(s) == SumOf([a \in Addresses |-> Balance(s, a)], AddressOrder)
Supply == SumOf([a \in Addresses |-> IF Genesis[a] = NoAccount THEN 0 ELSE Genesis[a].balance],
                AddressOrder)

NoEtherCreated ==
    /\ \A a \in Addresses : Balance(Now, a) >= 0
    /\ Held(Now) + (IF tx = NoTx THEN 0 ELSE TxGas * GasPrice) <= Supply

(***************************************************************************)
(* A transaction that is committed advances the nonce of its sender by     *)
(* one, even when all it did was reverted (Executive::call increments it   *)
(* before it takes the savepoint), and sets back that of no other signer:  *)
(* no transaction can be executed again.                                   *)
(***************************************************************************)
NonceIn(tr, a) == IF tr[a] = NoAccount THEN AccountStartNonce ELSE tr[a].nonce

NonceSpent ==
    [][tx # NoTx /\ tx' = NoTx /\ trie' # trie =>
          \A a \in Senders :
             IF a = tx.sender THEN NonceIn(trie', a) = NonceIn(trie, a) + 1
             ELSE NonceIn(trie', a) >= NonceIn(trie, a)]_vars

(***************************************************************************)
(* The change log does what copies of the whole world would: a frame that  *)
(* fails leaves every address, and the accounts to be destroyed, as they   *)
(* were at its savepoint (State::rollback, Executive::revert).             *)
(***************************************************************************)
Promise == INSTANCE StatePromise WITH world <- World(Now), effects <- Effects
RestoresWorld == Promise!Spec
=============================================================================
