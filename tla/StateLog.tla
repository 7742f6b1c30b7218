-------------------------------- MODULE StateLog --------------------------------
(***************************************************************************)
(* The world state of libwing (State.cpp, State.h, Account.h): accounts    *)
(* cached over the committed trie, and the log of changes that rollback    *)
(* undoes.  The operators take and return a record with the fields         *)
(*                                                                         *)
(*   cache   m_cache: the cached accounts                                  *)
(*   log     m_changeLog                                                   *)
(*   absent  m_nonExistingAccountsCache                                    *)
(*   clean   m_unchangedCacheEntries; a set, since its members are purged  *)
(*           in random order and an address listed twice is purged once    *)
(*   trie    m_state: the account committed at each address, or NoAccount  *)
(*                                                                         *)
(* so that an operation of the virtual machine is their composition.       *)
(* A storage root is the map it commits to, a code hash is the code.       *)
(* Balances and nonces are u256 in the code; no instance wraps them.       *)
(***************************************************************************)
EXTENDS QueueOps

CONSTANTS
    Addresses,
    Keys,               \* storage keys
    Values,             \* storage values, 0 among them
    Codes,              \* the codes a contract may have
    EmptyCode,          \* the code of EmptySHA3
    NoAccount,          \* no account at an address
    AccountStartNonce   \* m_accountStartNonce

ASSUME StateAssumption ==
    /\ IsFiniteSet(Addresses)
    /\ 0 \in Values
    /\ EmptyCode \notin Codes
    /\ AccountStartNonce \in Nat

EmptyTrie == [k \in Keys |-> 0]
Put(f, x, v) == [y \in DOMAIN f \cup {x} |-> IF y = x THEN v ELSE f[y]]

(***************************************************************************)
(* What the trie holds of an account.                                      *)
(***************************************************************************)
TrieAccount == [nonce : Nat, balance : Nat, root : [Keys -> Values], code : Codes \cup {EmptyCode}]

(***************************************************************************)
(* Account: the default, dead one; a new one; one read from the trie.      *)
(***************************************************************************)
DeadAccount == [alive |-> FALSE, unchanged |-> FALSE, nonce |-> 0, balance |-> 0,
                root |-> EmptyTrie, overlay |-> <<>>, code |-> EmptyCode]
NewAccount(nonce, balance) ==
    [DeadAccount EXCEPT !.alive = TRUE, !.nonce = nonce, !.balance = balance]
FromTrie(t) == [alive |-> TRUE, unchanged |-> TRUE, nonce |-> t.nonce, balance |-> t.balance,
                root |-> t.root, overlay |-> <<>>, code |-> t.code]

IsEmpty(c) == c.nonce = 0 /\ c.balance = 0 /\ c.code = EmptyCode
Killed(c) == DeadAccount
StorageOf(c) == [k \in Keys |-> IF k \in DOMAIN c.overlay THEN c.overlay[k] ELSE c.root[k]]

-----------------------------------------------------------------------------
(***************************************************************************)
(* State::account: look up the cache, the addresses known to be absent and *)
(* the trie, and cache what was found.                                     *)
(***************************************************************************)
Loaded(s, a) ==
    IF a \in DOMAIN s.cache \/ a \in s.absent THEN s
    ELSE IF s.trie[a] = NoAccount THEN [s EXCEPT !.absent = @ \cup {a}]
    ELSE [s EXCEPT !.cache = Put(@, a, FromTrie(s.trie[a])), !.clean = @ \cup {a}]

HasAccount(s, a) == a \in DOMAIN s.cache \/ (a \notin s.absent /\ s.trie[a] # NoAccount)
AccountAt(s, a) == IF a \in DOMAIN s.cache THEN s.cache[a] ELSE FromTrie(s.trie[a])

(***************************************************************************)
(* clearCacheIfTooLarge, called by account() before it caches an account:  *)
(* once the list is over its limit random members leave it, and the cache  *)
(* if they are clean.  The accounts outside the instance fill the list, so *)
(* any set of members may be the ones picked.                              *)
(***************************************************************************)
ClearCache(s, picked) ==
    LET kept == {a \in DOMAIN s.cache : a \notin picked \/ ~ s.cache[a].unchanged}
    IN  [s EXCEPT !.cache = [a \in kept |-> s.cache[a]], !.clean = @ \ picked]

(***************************************************************************)
(* m_cache[a] = c, and an entry of the change log.                         *)
(***************************************************************************)
Cached(s, a, c) == [s EXCEPT !.cache = Put(@, a, c)]
Logged(s, kind, a, value, key) ==
    [s EXCEPT !.log = Append(@, [kind |-> kind, address |-> a, value |-> value, key |-> key])]
NoKey == "none"

(***************************************************************************)
(* m_cache[a] as an lvalue: a dead account when there was none.            *)
(***************************************************************************)
CacheEntry(s, a) == IF a \in DOMAIN s.cache THEN s.cache[a] ELSE DeadAccount

Balance(s, a) == IF HasAccount(s, a) THEN AccountAt(s, a).balance ELSE 0
GetNonce(s, a) == IF HasAccount(s, a) THEN AccountAt(s, a).nonce ELSE AccountStartNonce
CodeAt(s, a) == IF HasAccount(s, a) THEN AccountAt(s, a).code ELSE EmptyCode
AddressHasCode(s, a) == CodeAt(s, a) # EmptyCode

(***************************************************************************)
(* Mutant: the address stays among those known to be absent.               *)
(***************************************************************************)
CreateAccountStillAbsent(s, a, c) == Logged(Cached(s, a, c), "Create", a, 0, NoKey)

CreateAccount(s, a, c) ==
    Logged([Cached(s, a, c) EXCEPT !.absent = @ \ {a}], "Create", a, 0, NoKey)

IncNonce(s0, a) ==
    LET s == Loaded(s0, a) IN
    IF HasAccount(s, a)
    THEN Logged(Cached(s, a, [s.cache[a] EXCEPT !.nonce = @ + 1, !.unchanged = FALSE]),
                "Nonce", a, s.cache[a].nonce, NoKey)
    ELSE CreateAccount(s, a, NewAccount(AccountStartNonce + 1, 0))

SetNonce(s0, a, nonce) ==
    LET s == Loaded(s0, a) IN
    IF HasAccount(s, a)
    THEN Logged(Cached(s, a, [s.cache[a] EXCEPT !.nonce = nonce, !.unchanged = FALSE]),
                "Nonce", a, s.cache[a].nonce, NoKey)
    ELSE CreateAccount(s, a, NewAccount(nonce, 0))

(***************************************************************************)
(* Mutant: an empty account that is touched is not noted in the log.       *)
(***************************************************************************)
AddBalanceUntouched(s0, a, amount) ==
    LET s == Loaded(s0, a)
        added == IF HasAccount(s, a)
                 THEN Cached(s, a, [s.cache[a] EXCEPT !.balance = @ + amount, !.unchanged = FALSE])
                 ELSE CreateAccount(s, a, NewAccount(AccountStartNonce, amount))
    IN  IF amount = 0 THEN added ELSE Logged(added, "Balance", a, amount, NoKey)

AddBalance(s0, a, amount) ==
    LET s == Loaded(s0, a)
        touch == IF s.cache[a].unchanged /\ IsEmpty(s.cache[a])
                 THEN Logged(s, "Touch", a, 0, NoKey) ELSE s
        added == IF HasAccount(s, a)
                 THEN Cached(touch, a, [s.cache[a] EXCEPT !.balance = @ + amount, !.unchanged = FALSE])
                 ELSE CreateAccount(s, a, NewAccount(AccountStartNonce, amount))
    IN  IF amount = 0 THEN added ELSE Logged(added, "Balance", a, amount, NoKey)

(***************************************************************************)
(* subBalance throws NotEnoughCash when the balance is too small; its      *)
(* callers have checked it (initialize, and the CALL and CREATE opcodes).  *)
(***************************************************************************)
SubBalance(s, a, value) == IF value = 0 THEN s ELSE AddBalance(s, a, 0 - value)
SetBalance(s, a, value) == AddBalance(Loaded(s, a), a, value - Balance(s, a))
TransferBalance(s, from, to, value) == AddBalance(SubBalance(s, from, value), to, value)

(***************************************************************************)
(* State::storage caches what it reads in the overlay of the account.      *)
(***************************************************************************)
StorageRead(s0, a, k) ==
    LET s == Loaded(s0, a) IN
    IF ~ HasAccount(s, a) THEN s
    ELSE Cached(s, a, [s.cache[a] EXCEPT !.overlay = Put(@, k, StorageOf(s.cache[a])[k])])

SetStorage(s0, a, k, v) ==
    LET s == StorageRead(s0, a, k)
        old == IF HasAccount(s, a) THEN s.cache[a].overlay[k] ELSE 0
        logged == Logged(s, "Storage", a, old, k)
    IN  Cached(logged, a, [CacheEntry(s, a) EXCEPT !.overlay = Put(@, k, v), !.unchanged = FALSE])

ClearStorage(s, a) ==
    LET c == CacheEntry(s, a) IN
    IF c.root = EmptyTrie THEN Cached(s, a, c)
    ELSE Cached(Logged(s, "StorageRoot", a, c.root, NoKey), a,
                [c EXCEPT !.overlay = <<>>, !.root = EmptyTrie, !.unchanged = FALSE])

SetCode(s0, a, code) ==
    LET s == Loaded(s0, a) IN
    Cached(Logged(s, "Code", a, CodeAt(s, a), NoKey), a, [CacheEntry(s, a) EXCEPT !.code = code])

\* kill() of every address in S.
Kill(s, S) ==
    LET there == {a \in S : HasAccount(s, a)} IN
    [s EXCEPT !.cache = [a \in DOMAIN s.cache \cup there |->
                            IF a \in there THEN Killed(AccountAt(s, a)) ELSE s.cache[a]],
              !.absent = @ \cup (S \ there), !.clean = @ \cup (there \ DOMAIN s.cache)]

-----------------------------------------------------------------------------
(***************************************************************************)
(* State::rollback: one pass of its loop; the state after n passes, from   *)
(* the last entry of the log; and the loop, back to the savepoint.         *)
(***************************************************************************)
Undo(change, s) ==
    LET a == change.address
        c == CacheEntry(s, a)
    IN  CASE change.kind = "Storage" ->
                 Cached(s, a, [c EXCEPT !.overlay = Put(@, change.key, change.value),
                                        !.unchanged = FALSE])
          [] change.kind = "StorageRoot" ->
                 Cached(s, a, [c EXCEPT !.overlay = <<>>, !.root = change.value, !.unchanged = FALSE])
          [] change.kind = "Balance" ->
                 Cached(s, a, [c EXCEPT !.balance = @ - change.value, !.unchanged = FALSE])
          [] change.kind = "Nonce" ->
                 Cached(s, a, [c EXCEPT !.nonce = change.value, !.unchanged = FALSE])
          [] change.kind = "Create" ->
                 [s EXCEPT !.cache = [b \in DOMAIN s.cache \ {a} |-> s.cache[b]]]
          [] change.kind = "Code" ->
                 Cached(s, a, [c EXCEPT !.code = change.value])
          [] change.kind = "Touch" ->
                 [Cached(s, a, [c EXCEPT !.unchanged = TRUE]) EXCEPT !.clean = @ \cup {a}]

Savepoint(s) == Len(s.log)
UndoRounds(s) ==
    LET after[n \in 0..Len(s.log)] ==
            IF n = 0 THEN s ELSE Undo(s.log[Len(s.log) + 1 - n], after[n - 1])
    IN  after
Rollback(s, savepoint) ==
    [UndoRounds(s)[Len(s.log) - savepoint] EXCEPT !.log = SubSeq(@, 1, savepoint)]

(***************************************************************************)
(* removeEmptyAccounts and eth::commit: what the trie becomes.             *)
(***************************************************************************)
RemoveEmptyAccounts(s) ==
    LET empty(c) == ~ c.unchanged /\ IsEmpty(c) IN
    [s EXCEPT !.cache = [a \in DOMAIN s.cache |->
        IF empty(s.cache[a]) THEN Killed(s.cache[a]) ELSE s.cache[a]]]
Committed(s) ==
    [a \in Addresses |->
        IF a \notin DOMAIN s.cache \/ s.cache[a].unchanged THEN s.trie[a]
        ELSE IF ~ s.cache[a].alive THEN NoAccount
        ELSE [nonce |-> s.cache[a].nonce, balance |-> s.cache[a].balance,
              root |-> StorageOf(s.cache[a]), code |-> s.cache[a].code]]
=============================================================================
