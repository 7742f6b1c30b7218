---------------------------- MODULE ExecutionProofs ----------------------------
(***************************************************************************)
(* What is proved of Execution: the change log undoes what was done.  The  *)
(* state a rollback would reach is a level of the present state; every     *)
(* operation keeps the levels below it as they were seen, and so a frame   *)
(* that fails is back at the copy the reference keeps.                     *)
(***************************************************************************)
EXTENDS Execution, QueueOpsProofs

(***************************************************************************)
(* What is known of one state: the shape of its accounts, and what the     *)
(* cache says of the trie.                                                 *)
(***************************************************************************)
StateMembers == {"cache", "log", "absent", "clean", "trie"}
Fields == {"alive", "unchanged", "nonce", "balance", "root", "overlay", "code"}
IsStorage(r) == r = [k \in Keys |-> r[k]]
Formed(c) ==
    /\ DOMAIN c = Fields /\ c.alive = TRUE /\ c.unchanged \in BOOLEAN
    /\ c.nonce \in Nat /\ c.balance \in Int /\ IsStorage(c.root)

\* The account is the one in the trie, whether marked unchanged or not.
Equals(c, t) ==
    /\ t # NoAccount /\ c.nonce = t.nonce /\ c.balance = t.balance
    /\ c.code = t.code /\ c.root = t.root /\ StorageOf(c) = t.root
AsCommitted(s, a) == Equals(s.cache[a], s.trie[a])
FitAt(s, a) ==
    /\ s.trie[a] # NoAccount =>
          s.trie[a].nonce \in Nat /\ s.trie[a].balance \in Nat /\ IsStorage(s.trie[a].root)
    /\ a \in DOMAIN s.cache => Formed(s.cache[a])
    /\ a \in DOMAIN s.cache /\ s.cache[a].unchanged => AsCommitted(s, a)
    /\ a \in s.absent => a \notin DOMAIN s.cache /\ s.trie[a] = NoAccount
IsState(s) ==
    /\ s = [cache |-> s.cache, log |-> s.log, absent |-> s.absent, clean |-> s.clean,
            trie |-> s.trie]
    /\ s.log \in Seq(RangeOf(s.log))
    /\ DOMAIN s.cache \subseteq Addresses /\ s.absent \subseteq Addresses
Basic(s) == IsState(s) /\ \A a \in Addresses : FitAt(s, a)

\* An account without code and nonce, whose storage a creation may clear,
\* has no storage written.
Unwritten(c) ==
    c.code = EmptyCode /\ c.nonce = 0 /\ c.root # EmptyTrie => StorageOf(c) = c.root
UnwrittenAt(s, a) == HasAccount(s, a) => Unwritten(AccountAt(s, a))
AllUnwritten(s) == \A a \in Addresses : UnwrittenAt(s, a)
Sound(s) == Basic(s) /\ AllUnwritten(s)

(***************************************************************************)
(* Two states in which the accounts are seen to hold the same, and what    *)
(* one holds for changed the other does.                                   *)
(***************************************************************************)
Dirty(s, a) == a \in DOMAIN s.cache /\ ~ s.cache[a].unchanged
Touched(c) == ~ c.unchanged /\ IsEmpty(c)
Same(c, d) ==
    /\ c.alive = d.alive /\ c.nonce = d.nonce /\ c.balance = d.balance /\ c.code = d.code
    /\ c.root = d.root /\ StorageOf(c) = StorageOf(d) /\ (Touched(c) <=> Touched(d))
CoversAt(s, t, a) ==
    /\ Dirty(s, a) => Dirty(t, a)
    /\ HasAccount(s, a) <=> HasAccount(t, a)
    /\ HasAccount(s, a) => Same(AccountAt(s, a), AccountAt(t, a))
Covers(s, t) == s.trie = t.trie /\ \A a \in Addresses : CoversAt(s, t, a)

(***************************************************************************)
(* The log from base on can be undone: the accounts it is about are in the *)
(* cache and changed, a creation or a touch is the first entry of its      *)
(* account, and the touched account was as the trie has it.  Level(s, k)   *)
(* is the state when all but the first k entries are undone.               *)
(***************************************************************************)
Kinds == {"Storage", "StorageRoot", "Balance", "Nonce", "Create", "Code", "Touch"}
Entry(e, tr) ==
    /\ e.kind \in Kinds /\ e.address \in Addresses
    /\ e.kind = "Balance" => e.value \in Int
    /\ e.kind = "Nonce" => e.value \in Nat
    /\ e.kind = "StorageRoot" => IsStorage(e.value)
    /\ e.kind = "Create" => tr[e.address] = NoAccount
First(e) == e.kind \in {"Create", "Touch"}
Level(s, k) == UndoRounds(s)[Len(s.log) - k]
Logs(s, base) ==
    \A i \in base + 1..Len(s.log) :
        /\ Entry(s.log[i], s.trie) /\ Dirty(s, s.log[i].address)
        /\ First(s.log[i]) =>
              \A j \in base + 1..i - 1 : s.log[j].address # s.log[i].address
        /\ s.log[i].kind = "Touch" => AsCommitted(Level(s, i), s.log[i].address)
Kept(s, base) ==
    /\ Sound(s) /\ base \in 0..Len(s.log)
    /\ Logs(s, base)
    /\ \A k \in base..Len(s.log) : AllUnwritten(Level(s, k))

(***************************************************************************)
(* The frames in progress: the account of each is changed, so that its log *)
(* entries can be undone, and one being created has no storage below.      *)
(* Funded: no ether was created at a state.  The trie, which a transaction *)
(* that is dropped leaves, holds no more than the first one did.           *)
(***************************************************************************)
TrieBalance(tr, a) == IF tr[a] = NoAccount THEN 0 ELSE tr[a].balance
TrieHeld(tr) == SumOf([a \in Addresses |-> TrieBalance(tr, a)], AddressOrder)
Safe(s, f) ==
    LET c == s.cache[f.addr] IN
    /\ Dirty(s, f.addr)
    /\ f.create \/ c.code = EmptyCode => c.root = EmptyTrie /\ (EIP158 => c.nonce # 0)
Funded(s, gas) ==
    /\ \A a \in Addresses : Balance(s, a) >= 0
    /\ Held(s) + gas <= Supply
FrameRecord == [addr : Addresses, caller : Addresses, create : BOOLEAN, savepoint : Nat,
                suicides : SUBSET Addresses, halted : BOOLEAN]
Pending(fs, n) == UNION {fs[i].suicides : i \in 1..n}
BaseOf(s, fs) == IF fs = <<>> THEN Len(s.log) ELSE fs[1].savepoint
FrameOK(s, fs, sv, j) ==
    LET below == Level(s, fs[j].savepoint) IN
    /\ fs[j].savepoint \in BaseOf(s, fs)..Len(s.log)
    /\ \A i \in 1..j - 1 : fs[i].savepoint <= fs[j].savepoint /\ Safe(below, fs[i])
    /\ Safe(s, fs[j])
    /\ Funded(below, TxGas * GasPrice)
    /\ sv[j] = [world |-> World(below), effects |-> Pending(fs, j - 1)]
FramesOK(s, fs, sv) ==
    /\ fs \in Seq(FrameRecord) /\ sv \in Seq(RangeOf(sv)) /\ Len(sv) = Len(fs)
    /\ \A j \in 1..Len(fs) : FrameOK(s, fs, sv, j)
Ready(s, fs, sv) ==
    /\ Kept(s, BaseOf(s, fs)) /\ FramesOK(s, fs, sv)
    /\ Funded(s, TxGas * GasPrice)
FrameInv ==
    /\ Kept(Now, BaseOf(Now, frames))
    /\ FramesOK(Now, frames, saved)
    /\ Funded(Now, IF tx = NoTx THEN 0 ELSE TxGas * GasPrice)
    /\ TrieHeld(trie) <= Supply
    /\ tx = [sender |-> tx.sender, phase |-> tx.phase]
    /\ tx.phase = "running" <=> frames # <<>>
    /\ tx # NoTx => tx.sender \in Addresses
    /\ tx.phase = "over" => tx # NoTx
    /\ tx = NoTx \/ frames # <<>> => suicides = {}
    /\ suicides \subseteq Addresses

-----------------------------------------------------------------------------
(***************************************************************************)
(* The loop of rollback: the function of its rounds exists.                *)
(***************************************************************************)
LEMMA UndoRoundsDef ==
    ASSUME NEW s, Len(s.log) \in Nat
    PROVE  /\ UndoRounds(s)[0] = s
           /\ \A n \in Nat : n + 1 <= Len(s.log) =>
                 UndoRounds(s)[n + 1] = Undo(s.log[Len(s.log) - n], UndoRounds(s)[n])
<1> DEFINE f(g, n) == IF n = 0 THEN s ELSE Undo(s.log[Len(s.log) + 1 - n], g[n - 1])
           Upto(k, g) == g = [n \in 0..k |-> f(g, n)]
           I == {k \in Nat : \E g : Upto(k, g)}
<1>1. 0 \in I
  <2> DEFINE g == [n \in 0..0 |-> s]
  <2>1. Upto(0, g)
    OBVIOUS
  <2> QED BY <2>1
<1>2. ASSUME NEW k \in I PROVE k + 1 \in I
  <2>1. PICK g : Upto(k, g)
    OBVIOUS
  <2> DEFINE h == [n \in 0..(k + 1) |-> IF n <= k THEN g[n] ELSE f(g, k + 1)]
  <2>2. ASSUME NEW n \in 0..(k + 1) PROVE h[n] = f(h, n)
    <3>1. CASE n = k + 1
      <4>1. h[n] = f(g, k + 1) /\ h[n - 1] = g[n - 1] /\ n # 0
        BY <3>1
      <4> QED BY <3>1, <4>1
    <3>2. CASE n # k + 1
      <4>1. n \in 0..k /\ h[n] = g[n] /\ (n # 0 => h[n - 1] = g[n - 1])
        BY <3>2
      <4>2. g[n] = f(g, n)
        BY <2>1, <4>1
      <4> QED BY <4>1, <4>2
    <3> QED BY <3>1, <3>2
  <2>3. Upto(k + 1, h)
    BY <2>2
  <2> HIDE DEF h, Upto
  <2> QED BY <2>3
<1>3. I = Nat
  <2> HIDE DEF I
  <2>1. I \in SUBSET Nat
    BY DEF I
  <2> QED BY <1>1, <1>2, <2>1, SetInduction
<1>4. PICK g : Upto(Len(s.log), g)
  <2> HIDE DEF Upto
  <2> QED BY <1>3
<1> DEFINE p == UndoRounds(s)
<1>5. Upto(Len(s.log), p)
  BY <1>4 DEF UndoRounds
<1> HIDE DEF p
<1>6. \A n \in 0..Len(s.log) : p[n] = f(p, n)
  BY <1>5
<1>7. ASSUME NEW n \in Nat, n + 1 <= Len(s.log)
      PROVE  p[n + 1] = Undo(s.log[Len(s.log) - n], p[n])
  <2>0. \A N \in Nat : N + 1 - (n + 1) = N - n
    OBVIOUS
  <2>1. Len(s.log) + 1 - (n + 1) = Len(s.log) - n
    BY <2>0, Zenon
  <2>3. (n + 1) - 1 = n /\ n + 1 # 0
    OBVIOUS
  <2>2. p[n + 1] = f(p, n + 1)
    BY <1>6, <1>7
  <2> QED BY <2>1, <2>2, <2>3
<1>8. p[0] = s
  BY <1>6
<1>9. \A n \in Nat : n + 1 <= Len(s.log) => p[n + 1] = Undo(s.log[Len(s.log) - n], p[n])
  BY <1>7
<1> QED BY <1>8, <1>9, Zenon DEF p

LEMMA LevelDef ==
    ASSUME NEW s, Len(s.log) \in Nat
    PROVE  /\ Level(s, Len(s.log)) = s
           /\ \A k \in 1..Len(s.log) : Level(s, k - 1) = Undo(s.log[k], Level(s, k))
<1> DEFINE p == UndoRounds(s)
           N == Len(s.log)
<1>1. /\ p[0] = s
      /\ \A n \in Nat : n + 1 <= N => p[n + 1] = Undo(s.log[N - n], p[n])
  BY UndoRoundsDef
<1> HIDE DEF p
<1>2. ASSUME NEW k \in 1..N PROVE p[N - (k - 1)] = Undo(s.log[k], p[N - k])
  <2>1. N - k \in Nat /\ N - k + 1 <= N /\ N - (N - k) = k /\ N - (k - 1) = N - k + 1
    OBVIOUS
  <2> QED BY <1>1, <2>1
<1>3. N - N = 0
  OBVIOUS
<1> QED BY <1>1, <1>2, <1>3 DEF Level, p

\* Induction from m down to base.
LEMMA Downwards ==
    ASSUME NEW base \in Nat, NEW m \in Nat, base <= m, NEW S, m \in S,
           \A k \in base + 1..m : k \in S => k - 1 \in S
    PROVE  \A k \in base..m : k \in S
<1> DEFINE I == {n \in Nat : n <= m - base => m - n \in S}
<1>1. 0 \in I
  OBVIOUS
<1>2. ASSUME NEW n \in I PROVE n + 1 \in I
  <2> SUFFICES ASSUME n + 1 <= m - base PROVE m - (n + 1) \in S
    OBVIOUS
  <2>1. m - n \in S /\ m - n \in base + 1..m /\ m - (n + 1) = (m - n) - 1
    OBVIOUS
  <2> QED BY <2>1
<1>3. I = Nat
  <2> HIDE DEF I
  <2>1. I \in SUBSET Nat
    BY DEF I
  <2> QED BY <1>1, <1>2, <2>1, SetInduction
<1>4. ASSUME NEW k \in base..m PROVE k \in S
  <2>1. m - k \in Nat /\ m - k <= m - base /\ m - (m - k) = k
    OBVIOUS
  <2> QED BY <1>3, <2>1
<1> QED BY <1>4

-----------------------------------------------------------------------------
(***************************************************************************)
(* Functions, accounts and states with one member replaced.                *)
(***************************************************************************)
LEMMA PutDef ==
    ASSUME NEW f, NEW x, NEW v
    PROVE  /\ DOMAIN Put(f, x, v) = DOMAIN f \cup {x} /\ Put(f, x, v)[x] = v
           /\ \A y \in DOMAIN f : y # x => Put(f, x, v)[y] = f[y]
BY DEF Put

LEMMA CachedDef ==
    ASSUME NEW s, IsState(s), NEW a \in Addresses, NEW c
    PROVE  LET t == Cached(s, a, c) IN
           /\ IsState(t) /\ t.cache = Put(s.cache, a, c) /\ t.log = s.log
           /\ t.absent = s.absent /\ t.trie = s.trie /\ t.clean = s.clean
<1> DEFINE t == Cached(s, a, c)
<1>1. /\ t = [cache |-> t.cache, log |-> t.log, absent |-> t.absent, clean |-> t.clean,
              trie |-> t.trie]
      /\ t.cache = Put(s.cache, a, c) /\ t.log = s.log
      /\ t.absent = s.absent /\ t.trie = s.trie /\ t.clean = s.clean
  BY DEF Cached, IsState
<1>2. DOMAIN t.cache \subseteq Addresses
  BY <1>1 DEF IsState, Put
<1> HIDE DEF t
<1>3. IsState(t)
  BY <1>1, <1>2 DEF IsState
<1> QED BY <1>1, <1>3 DEF t

\* The states agree on every address but one.
Elsewhere(s, t, a) ==
    /\ t.trie = s.trie
    /\ \A b \in Addresses \ {a} :
          /\ b \in DOMAIN t.cache <=> b \in DOMAIN s.cache
          /\ b \in DOMAIN s.cache => t.cache[b] = s.cache[b]
          /\ b \in t.absent <=> b \in s.absent

LEMMA SameReflexive ==
    ASSUME NEW c
    PROVE  Same(c, c)
BY DEF Same

LEMMA Local ==
    ASSUME NEW s, NEW t, NEW a \in Addresses, Basic(s), IsState(t), Elsewhere(s, t, a)
    PROVE  /\ FitAt(t, a) => Basic(t)
           /\ CoversAt(s, t, a) => Covers(s, t)
           /\ \A b \in Addresses \ {a} :
                 /\ HasAccount(t, b) <=> HasAccount(s, b)
                 /\ HasAccount(s, b) => AccountAt(t, b) = AccountAt(s, b)
                 /\ Dirty(s, b) <=> Dirty(t, b)
           /\ AllUnwritten(s) /\ UnwrittenAt(t, a) => AllUnwritten(t)
           /\ \A b \in Addresses \ {a} : Balance(t, b) = Balance(s, b)
<1>1. ASSUME NEW b \in Addresses \ {a}
      PROVE  /\ HasAccount(t, b) <=> HasAccount(s, b)
             /\ HasAccount(s, b) => AccountAt(t, b) = AccountAt(s, b)
             /\ Dirty(s, b) <=> Dirty(t, b)
  BY DEF Elsewhere, HasAccount, AccountAt, Dirty
<1>2. ASSUME NEW b \in Addresses \ {a} PROVE FitAt(t, b)
  <2>1. FitAt(s, b)
    BY DEF Basic
  <2> QED BY <2>1 DEF Elsewhere, FitAt, AsCommitted
<1>3. ASSUME NEW b \in Addresses \ {a} PROVE CoversAt(s, t, b)
  BY <1>1, SameReflexive DEF CoversAt
<1>4. ASSUME NEW b \in Addresses \ {a} PROVE Balance(t, b) = Balance(s, b)
  BY <1>1 DEF Balance
<1>5. ASSUME NEW b \in Addresses \ {a}, UnwrittenAt(s, b) PROVE UnwrittenAt(t, b)
  BY <1>1, <1>5 DEF UnwrittenAt
<1>6. t.trie = s.trie
  BY DEF Elsewhere
<1>7. FitAt(t, a) => Basic(t)
  BY <1>2 DEF Basic
<1>8. CoversAt(s, t, a) => Covers(s, t)
  BY <1>3, <1>6 DEF Covers
<1>9. AllUnwritten(s) /\ UnwrittenAt(t, a) => AllUnwritten(t)
  BY <1>5 DEF AllUnwritten
<1> QED BY <1>1, <1>4, <1>7, <1>8, <1>9

(***************************************************************************)
(* One pass of the loop, on a changed account.                             *)
(***************************************************************************)
Undone(e, c) ==
    CASE e.kind = "Storage" ->
             [c EXCEPT !.overlay = Put(@, e.key, e.value), !.unchanged = FALSE]
      [] e.kind = "StorageRoot" ->
             [c EXCEPT !.overlay = <<>>, !.root = e.value, !.unchanged = FALSE]
      [] e.kind = "Balance" -> [c EXCEPT !.balance = @ - e.value, !.unchanged = FALSE]
      [] e.kind = "Nonce" -> [c EXCEPT !.nonce = e.value, !.unchanged = FALSE]
      [] e.kind = "Code" -> [c EXCEPT !.code = e.value]
      [] e.kind = "Touch" -> [c EXCEPT !.unchanged = TRUE]

UndoneAs(e, c, d) ==
    /\ DOMAIN d = Fields /\ d.alive = c.alive
    /\ e.kind = "Nonce" => d.nonce = e.value
    /\ e.kind # "Nonce" => d.nonce = c.nonce
    /\ e.kind = "Balance" => d.balance = c.balance - e.value
    /\ e.kind # "Balance" => d.balance = c.balance
    /\ e.kind = "Code" => d.code = e.value /\ d.unchanged = c.unchanged
    /\ e.kind # "Code" => d.code = c.code
    /\ e.kind = "StorageRoot" => d.root = e.value /\ d.overlay = <<>>
    /\ e.kind # "StorageRoot" => d.root = c.root
    /\ e.kind = "Storage" => d.overlay = Put(c.overlay, e.key, e.value)
    /\ e.kind \notin {"StorageRoot", "Storage"} => d.overlay = c.overlay
    /\ e.kind = "Touch" => d.unchanged = TRUE
    /\ e.kind \notin {"Touch", "Code"} => d.unchanged = FALSE

LEMMA UndoneFields ==
    ASSUME NEW e, NEW c, DOMAIN c = Fields, e.kind \in Kinds \ {"Create"}
    PROVE  UndoneAs(e, c, Undone(e, c))
BY DEF Undone, Fields, Kinds, UndoneAs

Stored(f, k, v) == [x \in Keys |-> IF x = k THEN v ELSE f[x]]
LEMMA OverlayPut ==
    ASSUME NEW c, NEW d, NEW k, NEW v, d.root = c.root, d.overlay = Put(c.overlay, k, v)
    PROVE  StorageOf(d) = Stored(StorageOf(c), k, v)
BY DEF StorageOf, Put, Stored

LEMMA OverlayNone ==
    ASSUME NEW d, d.overlay = <<>>
    PROVE  StorageOf(d) = [k \in Keys |-> d.root[k]] /\ (IsStorage(d.root) => StorageOf(d) = d.root)
BY DEF StorageOf, IsStorage

LEMMA StorageSame ==
    ASSUME NEW c, NEW d, d.root = c.root, d.overlay = c.overlay
    PROVE  StorageOf(d) = StorageOf(c)
BY DEF StorageOf

LEMMA UndoDef ==
    ASSUME NEW s, NEW e, Basic(s), e.kind \in Kinds, e.address \in Addresses,
           Dirty(s, e.address)
    PROVE  LET u == Undo(e, s)
               a == e.address
           IN  /\ IsState(u) /\ u.log = s.log /\ u.absent = s.absent /\ u.trie = s.trie
               /\ Elsewhere(s, u, a)
               /\ e.kind = "Create" => a \notin DOMAIN u.cache
               /\ e.kind # "Create" => a \in DOMAIN u.cache /\ u.cache[a] = Undone(e, s.cache[a])
<1> DEFINE u == Undo(e, s)
           a == e.address
           c == s.cache[a]
           t == Cached(s, a, Undone(e, c))
<1>1. a \in DOMAIN s.cache /\ CacheEntry(s, a) = c /\ IsState(s)
  BY DEF Dirty, CacheEntry, Basic
<1>2. CASE e.kind = "Create"
  <2>1. u = [s EXCEPT !.cache = [b \in DOMAIN s.cache \ {a} |-> s.cache[b]]]
    BY <1>2 DEF Undo
  <2>2. /\ u = [cache |-> u.cache, log |-> u.log, absent |-> u.absent, clean |-> u.clean,
                trie |-> u.trie]
        /\ u.cache = [b \in DOMAIN s.cache \ {a} |-> s.cache[b]]
        /\ u.log = s.log /\ u.absent = s.absent /\ u.trie = s.trie
    BY <2>1, <1>1 DEF IsState
  <2> HIDE DEF u
  <2>3. IsState(u)
    BY <2>2, <1>1 DEF IsState
  <2> QED BY <2>2, <2>3, <1>2 DEF u, Elsewhere
<1>3. CASE e.kind # "Create"
  <2>1. /\ IsState(t) /\ t.cache = Put(s.cache, a, Undone(e, c)) /\ t.log = s.log
        /\ t.absent = s.absent /\ t.trie = s.trie
    BY <1>1, CachedDef
  <2>2. u = t \/ u = [t EXCEPT !.clean = @ \cup {a}]
    BY <1>1, <1>3 DEF Undo, Undone, Kinds
  <2> HIDE DEF t, u
  <2>3. /\ u = [cache |-> u.cache, log |-> u.log, absent |-> u.absent, clean |-> u.clean,
                trie |-> u.trie]
        /\ u.cache = Put(s.cache, a, Undone(e, c))
        /\ u.log = s.log /\ u.absent = s.absent /\ u.trie = s.trie
    BY <2>1, <2>2 DEF IsState
  <2>4. IsState(u)
    BY <2>3, <1>1 DEF IsState, Put
  <2>5. Elsewhere(s, u, a) /\ a \in DOMAIN u.cache /\ u.cache[a] = Undone(e, c)
    BY <2>3, <1>1 DEF Elsewhere, Put
  <2> QED BY <2>3, <2>4, <2>5, <1>3 DEF u
<1> QED BY <1>2, <1>3

LEMMA SameCommitted ==
    ASSUME NEW c, NEW d, NEW t, Same(c, d), Equals(c, t)
    PROVE  Equals(d, t)
BY DEF Same, Equals

LEMMA UndoBasic ==
    ASSUME NEW s, NEW e, Basic(s), Entry(e, s.trie), Dirty(s, e.address),
           e.kind = "Touch" => AsCommitted(s, e.address)
    PROVE  Basic(Undo(e, s))
<1> DEFINE u == Undo(e, s)
           a == e.address
           c == s.cache[a]
<1>1. a \in Addresses /\ e.kind \in Kinds
  BY DEF Entry
<1>2. /\ IsState(u) /\ u.absent = s.absent /\ u.trie = s.trie /\ Elsewhere(s, u, a)
      /\ e.kind = "Create" => a \notin DOMAIN u.cache
      /\ e.kind # "Create" => a \in DOMAIN u.cache /\ u.cache[a] = Undone(e, c)
  BY <1>1, UndoDef
<1>3. FitAt(s, a) /\ a \in DOMAIN s.cache /\ Formed(c) /\ a \notin s.absent /\ ~ c.unchanged
  BY <1>1 DEF Basic, FitAt, Dirty
<1> HIDE DEF u
<1>4. FitAt(u, a)
  <2>1. CASE e.kind = "Create"
    BY <2>1, <1>2, <1>3 DEF FitAt, Entry
  <2>2. CASE e.kind # "Create"
    <3> DEFINE d == Undone(e, c)
    <3>1. UndoneAs(e, c, d)
      BY <1>1, <1>3, <2>2, UndoneFields DEF Formed
    <3> HIDE DEF d
    <3>2. Formed(d)
      <4>1. d.unchanged \in BOOLEAN
        BY <1>1, <2>2, <3>1, <1>3 DEF Formed, UndoneAs
      <4>2. d.nonce \in Nat /\ d.balance \in Int
        BY <1>1, <2>2, <3>1, <1>3 DEF Formed, Entry, UndoneAs
      <4>3. IsStorage(d.root)
        BY <1>1, <2>2, <3>1, <1>3 DEF Formed, Entry, UndoneAs
      <4> QED BY <3>1, <1>3, <4>1, <4>2, <4>3 DEF Formed, UndoneAs
    <3>3. ASSUME d.unchanged PROVE Equals(d, s.trie[a])
      <4>1. e.kind = "Touch"
        BY <1>1, <2>2, <3>1, <3>3, <1>3 DEF UndoneAs, Kinds
      <4>2. StorageOf(d) = StorageOf(c)
        BY <4>1, <3>1, StorageSame DEF UndoneAs
      <4>3. Equals(c, s.trie[a])
        BY <4>1 DEF AsCommitted
      <4> QED BY <4>1, <4>2, <4>3, <3>1 DEF Equals, UndoneAs
    <3> QED BY <1>2, <1>3, <2>2, <3>2, <3>3 DEF FitAt, AsCommitted, d
  <2> QED BY <2>1, <2>2
<1> QED BY <1>1, <1>2, <1>4, Local DEF u

LEMMA UndoDirty ==
    ASSUME NEW s, NEW e, Basic(s), e.kind \in Kinds, e.address \in Addresses,
           Dirty(s, e.address), NEW b \in Addresses, Dirty(s, b),
           First(e) => e.address # b
    PROVE  Dirty(Undo(e, s), b)
<1> DEFINE u == Undo(e, s)
           a == e.address
           c == s.cache[a]
<1>1. /\ IsState(u) /\ Elsewhere(s, u, a)
      /\ e.kind # "Create" => a \in DOMAIN u.cache /\ u.cache[a] = Undone(e, c)
  BY UndoDef
<1> HIDE DEF u
<1>2. CASE a # b
  BY <1>1, <1>2 DEF Elsewhere, Dirty, u
<1>3. CASE a = b
  <2>1. e.kind # "Create" /\ e.kind # "Touch" /\ ~ c.unchanged
    BY <1>3 DEF First, Dirty
  <2>2. DOMAIN c = Fields
    BY <1>3 DEF Basic, FitAt, Formed, Dirty
  <2>3. ~ Undone(e, c).unchanged
    BY <2>1, <2>2, UndoneFields DEF UndoneAs
  <2> QED BY <1>1, <1>3, <2>1, <2>3 DEF Dirty, u
<1> QED BY <1>2, <1>3 DEF u

LEMMA UndoSame ==
    ASSUME NEW e, NEW c, NEW d, Formed(c), Formed(d), ~ c.unchanged, ~ d.unchanged,
           e.kind \in Kinds \ {"Create"}, Same(c, d)
    PROVE  Same(Undone(e, c), Undone(e, d))
<1> DEFINE x == Undone(e, c)
           y == Undone(e, d)
<1>1. UndoneAs(e, c, x) /\ UndoneAs(e, d, y)
  BY UndoneFields DEF Formed
<1> HIDE DEF x, y
<1>3. /\ x.alive = y.alive /\ x.nonce = y.nonce /\ x.balance = y.balance /\ x.code = y.code
      /\ x.root = y.root /\ (x.unchanged <=> y.unchanged)
  BY <1>1 DEF Same, UndoneAs
<1>4. StorageOf(x) = StorageOf(y)
  <2>1. CASE e.kind = "StorageRoot"
    BY <1>1, <1>3, <2>1, OverlayNone DEF UndoneAs
  <2>2. CASE e.kind = "Storage"
    <3>1. /\ x.root = c.root /\ x.overlay = Put(c.overlay, e.key, e.value)
          /\ y.root = d.root /\ y.overlay = Put(d.overlay, e.key, e.value)
      BY <1>1, <2>2 DEF UndoneAs
    <3>2. StorageOf(x) = Stored(StorageOf(c), e.key, e.value)
      BY <3>1, OverlayPut
    <3>3. StorageOf(y) = Stored(StorageOf(d), e.key, e.value)
      BY <3>1, OverlayPut
    <3> QED BY <3>2, <3>3 DEF Same
  <2>3. CASE e.kind # "StorageRoot" /\ e.kind # "Storage"
    <3>1. StorageOf(x) = StorageOf(c) /\ StorageOf(y) = StorageOf(d)
      BY <1>1, <2>3, StorageSame DEF UndoneAs
    <3> QED BY <3>1 DEF Same
  <2> QED BY <2>1, <2>2, <2>3
<1>5. Same(x, y)
  BY <1>3, <1>4 DEF Same, Touched, IsEmpty
<1> QED BY <1>5 DEF x, y

\* Undoing the same entry keeps two states alike.
LEMMA UndoCovers ==
    ASSUME NEW s, NEW t, NEW e, Basic(s), Basic(t), Covers(s, t), Entry(e, s.trie),
           Dirty(s, e.address)
    PROVE  Covers(Undo(e, s), Undo(e, t))
<1> DEFINE u == Undo(e, s)
           w == Undo(e, t)
           a == e.address
<1>1. a \in Addresses /\ e.kind \in Kinds /\ Dirty(t, a) /\ s.trie = t.trie
  BY DEF Entry, Covers, CoversAt
<1>2. /\ IsState(u) /\ u.absent = s.absent /\ u.trie = s.trie /\ Elsewhere(s, u, a)
      /\ e.kind = "Create" => a \notin DOMAIN u.cache
      /\ e.kind # "Create" => a \in DOMAIN u.cache /\ u.cache[a] = Undone(e, s.cache[a])
  BY <1>1, UndoDef
<1>3. /\ IsState(w) /\ w.absent = t.absent /\ w.trie = t.trie /\ Elsewhere(t, w, a)
      /\ e.kind = "Create" => a \notin DOMAIN w.cache
      /\ e.kind # "Create" => a \in DOMAIN w.cache /\ w.cache[a] = Undone(e, t.cache[a])
  BY <1>1, UndoDef
<1> HIDE DEF u, w
<1>4. ASSUME NEW b \in Addresses, b # a PROVE CoversAt(u, w, b)
  <2>1. CoversAt(s, t, b)
    BY DEF Covers
  <2>2. /\ HasAccount(u, b) <=> HasAccount(s, b)
        /\ HasAccount(s, b) => AccountAt(u, b) = AccountAt(s, b)
        /\ Dirty(s, b) <=> Dirty(u, b)
    BY <1>1, <1>2, <1>4, Local
  <2>3. /\ HasAccount(w, b) <=> HasAccount(t, b)
        /\ HasAccount(t, b) => AccountAt(w, b) = AccountAt(t, b)
        /\ Dirty(t, b) <=> Dirty(w, b)
    BY <1>1, <1>3, <1>4, Local
  <2> QED BY <2>1, <2>2, <2>3 DEF CoversAt
<1>5. CoversAt(u, w, a)
  <2> DEFINE c == s.cache[a]
             d == t.cache[a]
  <2>1. /\ a \in DOMAIN s.cache /\ a \in DOMAIN t.cache /\ ~ c.unchanged /\ ~ d.unchanged
        /\ Formed(c) /\ Formed(d)
    BY <1>1 DEF Dirty, Basic, FitAt
  <2>2. Same(c, d)
    BY <1>1, <2>1 DEF Covers, CoversAt, HasAccount, AccountAt
  <2>3. CASE e.kind = "Create"
    <3>1. ~ HasAccount(u, a) /\ ~ HasAccount(w, a) /\ ~ Dirty(u, a)
      BY <1>1, <1>2, <1>3, <2>3 DEF Entry, HasAccount, Dirty
    <3> QED BY <3>1 DEF CoversAt
  <2>4. CASE e.kind # "Create"
    <3>1. Same(Undone(e, c), Undone(e, d))
      BY <1>1, <2>1, <2>2, <2>4, UndoSame
    <3>2. UndoneAs(e, c, Undone(e, c)) /\ UndoneAs(e, d, Undone(e, d))
      BY <1>1, <2>1, <2>4, UndoneFields DEF Formed
    <3>3. Undone(e, d).unchanged => Undone(e, c).unchanged
      BY <2>1, <3>2 DEF UndoneAs
    <3> QED BY <1>2, <1>3, <2>4, <3>1, <3>3 DEF CoversAt, HasAccount, AccountAt, Dirty
  <2> QED BY <2>3, <2>4
<1> QED BY <1>1, <1>2, <1>3, <1>4, <1>5 DEF Covers, u, w

-----------------------------------------------------------------------------
(***************************************************************************)
(* The levels of a state whose log can be undone, and two states with the  *)
(* same entries: alike at one level, they are alike at every one below.    *)
(***************************************************************************)
LEMMA CoversReflexive ==
    ASSUME NEW s
    PROVE  Covers(s, s)
BY SameReflexive DEF Covers, CoversAt

LEMMA CoversTransitive ==
    ASSUME NEW s, NEW t, NEW u, Covers(s, t), Covers(t, u)
    PROVE  Covers(s, u)
<1>1. ASSUME NEW a \in Addresses PROVE CoversAt(s, u, a)
  <2>1. CoversAt(s, t, a) /\ CoversAt(t, u, a)
    BY DEF Covers
  <2>2. ASSUME HasAccount(s, a) PROVE Same(AccountAt(s, a), AccountAt(u, a))
    BY <2>1, <2>2 DEF CoversAt, Same
  <2> QED BY <2>1, <2>2 DEF CoversAt
<1> QED BY <1>1 DEF Covers

LEMMA CoversUnwritten ==
    ASSUME NEW s, NEW t, Covers(s, t), AllUnwritten(s)
    PROVE  AllUnwritten(t)
<1>1. ASSUME NEW a \in Addresses, HasAccount(t, a) PROVE Unwritten(AccountAt(t, a))
  <2>1. HasAccount(s, a) /\ Same(AccountAt(s, a), AccountAt(t, a))
    BY <1>1 DEF Covers, CoversAt
  <2>2. Unwritten(AccountAt(s, a))
    BY <2>1 DEF AllUnwritten, UnwrittenAt
  <2> QED BY <2>1, <2>2 DEF Same, Unwritten
<1> QED BY <1>1 DEF AllUnwritten, UnwrittenAt

LEMMA LogLength ==
    ASSUME NEW s, Basic(s)
    PROVE  Len(s.log) \in Nat
BY DEF Basic, IsState

LEMMA Levels ==
    ASSUME NEW s, NEW base, Kept(s, base)
    PROVE  /\ base \in Nat /\ Len(s.log) \in Nat /\ base <= Len(s.log)
           /\ \A k \in base..Len(s.log) :
                 /\ Basic(Level(s, k)) /\ Level(s, k).trie = s.trie /\ Level(s, k).log = s.log
                 /\ \A i \in base + 1..k : Dirty(Level(s, k), s.log[i].address)
<1> DEFINE N == Len(s.log)
           P(k) == /\ Basic(Level(s, k)) /\ Level(s, k).trie = s.trie /\ Level(s, k).log = s.log
                   /\ \A i \in base + 1..k : Dirty(Level(s, k), s.log[i].address)
           S == {k \in base..N : P(k)}
<1>1. N \in Nat /\ base \in 0..N /\ Basic(s) /\ Logs(s, base)
  BY LogLength DEF Kept, Sound
<1>2. /\ Level(s, N) = s
      /\ \A k \in 1..N : Level(s, k - 1) = Undo(s.log[k], Level(s, k))
  BY <1>1, LevelDef
<1> HIDE DEF N
<1>3. N \in S
  <2>1. P(N)
    BY <1>1, <1>2 DEF Logs, N
  <2> QED BY <1>1, <2>1
<1>4. ASSUME NEW k \in base + 1..N, k \in S PROVE k - 1 \in S
  <2> DEFINE e == s.log[k]
             l == Level(s, k)
  <2>1. P(k)
    BY <1>4
  <2>2. /\ Entry(e, s.trie)
        /\ First(e) => \A j \in base + 1..k - 1 : s.log[j].address # e.address
        /\ e.kind = "Touch" => AsCommitted(l, e.address)
    BY <1>1, <1>4 DEF Logs, N
  <2>3. k \in 1..N /\ k \in base + 1..k /\ k - 1 \in base..N /\ k \in Int /\ base \in Int
    BY <1>1, <1>4
  <2>4. Level(s, k - 1) = Undo(e, l)
    BY <1>2, <2>3
  <2>5. /\ Basic(l) /\ l.trie = s.trie /\ Dirty(l, e.address)
        /\ \A i \in base + 1..k : Dirty(l, s.log[i].address)
    BY <2>1, <2>3
  <2>6. e.kind \in Kinds /\ e.address \in Addresses
    BY <2>2 DEF Entry
  <2> HIDE DEF e, l
  <2>7. Basic(Undo(e, l))
    BY <2>2, <2>5, UndoBasic
  <2>8. Undo(e, l).trie = s.trie /\ Undo(e, l).log = l.log
    BY <2>5, <2>6, UndoDef
  <2>9. ASSUME NEW i \in base + 1..k - 1 PROVE Dirty(Undo(e, l), s.log[i].address)
    <3>1. i \in base + 1..k /\ i \in base + 1..N
      BY <1>1, <2>3, <2>9
    <3>2. s.log[i].address \in Addresses
      BY <1>1, <3>1 DEF Logs, Entry, N
    <3>3. First(e) => e.address # s.log[i].address
      BY <2>2, <2>9
    <3> QED BY <2>5, <2>6, <3>1, <3>2, <3>3, UndoDirty
  <2>10. l.log = s.log
    BY <2>1 DEF l
  <2> QED BY <2>3, <2>4, <2>7, <2>8, <2>9, <2>10
<1>5. \A k \in base..N : k \in S
  <2> HIDE DEF S
  <2> QED BY <1>1, <1>3, <1>4, Downwards
<1> QED BY <1>1, <1>5 DEF N

LEMMA Simulation ==
    ASSUME NEW s, NEW t, NEW base, Kept(s, base), NEW m \in base..Len(s.log),
           Len(t.log) \in Nat, m <= Len(t.log),
           \A i \in base + 1..m : t.log[i] = s.log[i],
           Basic(Level(t, m)), Covers(Level(s, m), Level(t, m))
    PROVE  \A k \in base..m : Basic(Level(t, k)) /\ Covers(Level(s, k), Level(t, k))
<1> DEFINE P(k) == Basic(Level(t, k)) /\ Covers(Level(s, k), Level(t, k))
           S == {k \in base..m : P(k)}
<1>1. /\ base \in Nat /\ Len(s.log) \in Nat /\ base <= Len(s.log)
      /\ \A k \in base..Len(s.log) :
            /\ Basic(Level(s, k)) /\ Level(s, k).trie = s.trie
            /\ \A i \in base + 1..k : Dirty(Level(s, k), s.log[i].address)
  BY Levels
<1>2. m \in Nat /\ base <= m /\ m <= Len(s.log)
  BY <1>1
<1>3. \A k \in 1..Len(s.log) : Level(s, k - 1) = Undo(s.log[k], Level(s, k))
  BY <1>1, LevelDef
<1>4. \A k \in 1..Len(t.log) : Level(t, k - 1) = Undo(t.log[k], Level(t, k))
  BY LevelDef
<1>5. m \in S
  BY <1>2
<1>6. ASSUME NEW k \in base + 1..m, k \in S PROVE k - 1 \in S
  <2> DEFINE e == s.log[k]
             l == Level(s, k)
             r == Level(t, k)
  <2>1. /\ k \in 1..Len(s.log) /\ k \in 1..Len(t.log) /\ k - 1 \in base..m
        /\ k \in base..Len(s.log) /\ k \in base + 1..Len(s.log) /\ k \in base + 1..k
    BY <1>1, <1>2, <1>6
  <2>2. Level(s, k - 1) = Undo(e, l) /\ Level(t, k - 1) = Undo(e, r)
    BY <1>3, <1>4, <1>6, <2>1
  <2>3. /\ Basic(l) /\ l.trie = s.trie /\ Dirty(l, e.address)
    BY <1>1, <2>1
  <2>4. Basic(r) /\ Covers(l, r)
    BY <1>6
  <2>5. Entry(e, s.trie) /\ (e.kind = "Touch" => AsCommitted(l, e.address))
    BY <2>1 DEF Kept, Logs
  <2> HIDE DEF e, l, r
  <2>6. Covers(Undo(e, l), Undo(e, r))
    BY <2>3, <2>4, <2>5, UndoCovers
  <2>7. Basic(Undo(e, r))
    <3>1. e.address \in Addresses
      BY <2>5 DEF Entry
    <3>2. Dirty(r, e.address) /\ r.trie = l.trie
      BY <2>3, <2>4, <3>1 DEF Covers, CoversAt
    <3>3. ASSUME e.kind = "Touch" PROVE AsCommitted(r, e.address)
      <4>1. Same(l.cache[e.address], r.cache[e.address])
        BY <2>3, <2>4, <3>1, <3>2 DEF Covers, CoversAt, Dirty, HasAccount, AccountAt
      <4>2. Equals(l.cache[e.address], l.trie[e.address])
        BY <2>5, <3>3 DEF AsCommitted
      <4> QED BY <3>2, <4>1, <4>2, SameCommitted DEF AsCommitted
    <3> QED BY <2>3, <2>4, <2>5, <3>2, <3>3, UndoBasic
  <2> QED BY <2>1, <2>2, <2>6, <2>7
<1>7. \A k \in base..m : k \in S
  <2> HIDE DEF S
  <2> QED BY <1>1, <1>2, <1>5, <1>6, Downwards
<1> QED BY <1>7

(***************************************************************************)
(* A step of the machine: what it did can be undone too, and every level   *)
(* below is seen to be the same.                                           *)
(***************************************************************************)
Extends(s, t, base) ==
    /\ Kept(t, base) /\ Len(s.log) <= Len(t.log) /\ t.trie = s.trie
    /\ \A k \in base..Len(s.log) : Covers(Level(s, k), Level(t, k))

LEMMA ExtendsReflexive ==
    ASSUME NEW s, NEW base, Kept(s, base)
    PROVE  Extends(s, s, base)
BY Levels, CoversReflexive DEF Extends

LEMMA ExtendsTransitive ==
    ASSUME NEW s, NEW t, NEW u, NEW base, Kept(s, base), Extends(s, t, base), Extends(t, u, base)
    PROVE  Extends(s, u, base)
<1>1. Len(s.log) \in Nat /\ Len(t.log) \in Nat /\ Len(u.log) \in Nat /\ base \in Nat
  BY Levels DEF Extends
<1>2. Len(s.log) <= Len(t.log) /\ Len(t.log) <= Len(u.log)
  BY DEF Extends
<1>3. ASSUME NEW k \in base..Len(s.log) PROVE Covers(Level(s, k), Level(u, k))
  <2>1. k \in base..Len(t.log)
    BY <1>1, <1>2
  <2> QED BY <2>1, CoversTransitive DEF Extends
<1>4. Len(s.log) <= Len(u.log)
  BY <1>1, <1>2
<1> QED BY <1>3, <1>4 DEF Extends

\* Nothing before the state is to be undone.
LEMMA FreshKept ==
    ASSUME NEW s, Sound(s)
    PROVE  Kept(s, Len(s.log))
<1> DEFINE N == Len(s.log)
<1>1. N \in Nat
  BY LogLength DEF Sound
<1>2. Level(s, N) = s
  BY <1>1, LevelDef
<1>3. Logs(s, N)
  <2>1. \A i \in N + 1..N : FALSE
    <3> HIDE DEF N
    <3> QED BY <1>1
  <2> QED BY <2>1 DEF Logs
<1>4. \A k \in N..N : k = N
  <2> HIDE DEF N
  <2> QED BY <1>1
<1>5. N \in 0..N
  <2> HIDE DEF N
  <2> QED BY <1>1
<1> QED BY <1>2, <1>3, <1>4, <1>5 DEF Kept, Sound

\* The log is kept from a later entry on.
LEMMA KeptLater ==
    ASSUME NEW s, NEW base, Kept(s, base), NEW later \in base..Len(s.log)
    PROVE  Kept(s, later)
<1>1. Len(s.log) \in Nat /\ base \in Nat /\ later \in Nat /\ base <= later /\ later <= Len(s.log)
  BY Levels
<1>2. /\ \A i \in later + 1..Len(s.log) : i \in base + 1..Len(s.log)
      /\ \A i \in later..Len(s.log) : i \in base..Len(s.log)
      /\ \A i \in later + 1..Len(s.log) :
            \A j \in later + 1..i - 1 : j \in base + 1..i - 1
  BY <1>1
<1>3. Logs(s, later)
  BY <1>2 DEF Kept, Logs
<1> QED BY <1>1, <1>2, <1>3 DEF Kept

LEMMA QuietExtends ==
    ASSUME NEW s, NEW t, NEW base, Kept(s, base), Sound(t), t.log = s.log, Covers(s, t)
    PROVE  Extends(s, t, base)
<1> DEFINE N == Len(s.log)
<1>1. N \in Nat /\ base \in Nat /\ base <= N /\ N \in base..N
  BY Levels
<1>2. Level(s, N) = s /\ Level(t, N) = t
  BY <1>1, LevelDef
<1>3. \A k \in base..N : Basic(Level(t, k)) /\ Covers(Level(s, k), Level(t, k))
  <2>1. /\ \A i \in base + 1..N : t.log[i] = s.log[i]
        /\ N <= N /\ N \in base..Len(s.log) /\ Len(t.log) = N
    BY <1>1
  <2>2. Basic(Level(t, N)) /\ Covers(Level(s, N), Level(t, N))
    BY <1>2 DEF Sound
  <2> HIDE DEF N
  <2> QED BY <1>1, <2>1, <2>2, Simulation
<1>4. \A k \in base..N : AllUnwritten(Level(t, k))
  BY <1>3, CoversUnwritten DEF Kept
<1>5. Logs(t, base)
  <2> SUFFICES ASSUME NEW i \in base + 1..N
               PROVE  /\ Entry(t.log[i], t.trie) /\ Dirty(t, t.log[i].address)
                      /\ First(t.log[i]) =>
                            \A j \in base + 1..i - 1 : t.log[j].address # t.log[i].address
                      /\ t.log[i].kind = "Touch" => AsCommitted(Level(t, i), t.log[i].address)
    BY DEF Logs
  <2> DEFINE e == s.log[i]
             l == Level(s, i)
             r == Level(t, i)
  <2>1. /\ Entry(e, s.trie) /\ Dirty(s, e.address)
        /\ First(e) => \A j \in base + 1..i - 1 : s.log[j].address # e.address
        /\ e.kind = "Touch" => AsCommitted(l, e.address)
    BY DEF Kept, Logs
  <2>2. e.address \in Addresses /\ s.trie = t.trie
    BY <2>1 DEF Entry, Covers
  <2>3. Dirty(t, e.address)
    BY <2>1, <2>2 DEF Covers, CoversAt
  <2>4. i \in base..N /\ i \in base + 1..i
    BY <1>1
  <2>5. Covers(l, r) /\ Dirty(l, e.address)
    BY <1>3, <2>4, Levels
  <2> HIDE DEF l, r, e
  <2>6. ASSUME e.kind = "Touch" PROVE AsCommitted(r, e.address)
    <3>1. Same(l.cache[e.address], r.cache[e.address]) /\ l.trie = r.trie
      BY <2>2, <2>5 DEF Covers, CoversAt, Dirty, HasAccount, AccountAt
    <3>2. Equals(l.cache[e.address], l.trie[e.address])
      BY <2>1, <2>6 DEF AsCommitted
    <3> QED BY <3>1, <3>2, SameCommitted DEF AsCommitted
  <2> QED BY <2>1, <2>2, <2>3, <2>6 DEF e, r
<1>6. t.trie = s.trie
  BY DEF Covers
<1>7. Kept(t, base)
  BY <1>1, <1>4, <1>5 DEF Kept
<1> QED BY <1>1, <1>3, <1>6, <1>7 DEF Extends

LEMMA LoggedExtends ==
    ASSUME NEW s, NEW t, NEW e, NEW base, Kept(s, base), Sound(t),
           t.log = Append(s.log, e), Entry(e, s.trie), Dirty(t, e.address),
           First(e) => ~ Dirty(s, e.address),
           e.kind = "Touch" => AsCommitted(t, e.address),
           Covers(s, Undo(e, t)), t.trie = s.trie
    PROVE  Extends(s, t, base)
<1> DEFINE N == Len(s.log)
           u == Undo(e, t)
<1>1. N \in Nat /\ base \in Nat /\ base <= N /\ N \in base..N
  BY Levels
<1>2. /\ Len(t.log) = N + 1 /\ t.log[N + 1] = e
      /\ \A i \in 1..N : t.log[i] = s.log[i]
  <2>1. s.log \in Seq(RangeOf(s.log))
    BY DEF Kept, Sound, Basic, IsState
  <2>2. s.log \in Seq(RangeOf(s.log) \cup {e})
    BY <2>1
  <2> QED BY <2>2
<1>3. Level(s, N) = s /\ Level(t, N + 1) = t
  BY <1>1, <1>2, LevelDef
<1>4. Level(t, N) = u
  <2>1. N + 1 \in 1..(N + 1) /\ (N + 1) - 1 = N /\ N + 1 \in Nat
    BY <1>1
  <2> QED BY <1>2, <1>3, <2>1, LevelDef
<1>5. e.address \in Addresses /\ e.kind \in Kinds /\ Basic(t)
  BY DEF Entry, Sound
<1>6. Basic(u)
  BY <1>5, UndoBasic
<1> HIDE DEF u, N
<1>7. /\ \A i \in base + 1..N : t.log[i] = s.log[i]
      /\ N <= N + 1 /\ N + 1 \in Nat
  BY <1>1, <1>2
<1>8. \A k \in base..N : Basic(Level(t, k)) /\ Covers(Level(s, k), Level(t, k))
  <2>1. N \in base..Len(s.log) /\ Len(t.log) \in Nat /\ N <= Len(t.log)
    BY <1>1, <1>2 DEF N
  <2> QED BY <1>3, <1>4, <1>6, <1>7, <2>1, Simulation DEF u
<1>9. \A k \in base..(N + 1) : AllUnwritten(Level(t, k))
  <2>1. ASSUME NEW k \in base..N PROVE AllUnwritten(Level(t, k))
    BY <1>8, CoversUnwritten DEF Kept, N
  <2>2. AllUnwritten(Level(t, N + 1))
    BY <1>3 DEF Sound
  <2>3. \A k \in base..(N + 1) : k \in base..N \/ k = N + 1
    BY <1>1
  <2> QED BY <2>1, <2>2, <2>3
<1>10. \A b \in Addresses : Dirty(s, b) => Dirty(t, b)
  <2> SUFFICES ASSUME NEW b \in Addresses, Dirty(s, b), b # e.address PROVE Dirty(t, b)
    OBVIOUS
  <2>1. Dirty(u, b)
    BY DEF Covers, CoversAt, u
  <2>2. Elsewhere(t, u, e.address)
    BY <1>5, UndoDef DEF u
  <2> QED BY <2>1, <2>2 DEF Elsewhere, Dirty
<1>11. Logs(t, base)
  <2>1. ASSUME NEW i \in base + 1..N
        PROVE  /\ Entry(t.log[i], t.trie) /\ Dirty(t, t.log[i].address)
               /\ First(t.log[i]) =>
                     \A j \in base + 1..i - 1 : t.log[j].address # t.log[i].address
               /\ t.log[i].kind = "Touch" => AsCommitted(Level(t, i), t.log[i].address)
    <3> DEFINE x == s.log[i]
               l == Level(s, i)
               r == Level(t, i)
    <3>1. /\ Entry(x, s.trie) /\ Dirty(s, x.address)
          /\ First(x) => \A j \in base + 1..i - 1 : s.log[j].address # x.address
          /\ x.kind = "Touch" => AsCommitted(l, x.address)
      BY DEF Kept, Logs, N
    <3>2. x.address \in Addresses /\ Dirty(t, x.address)
      BY <1>10, <3>1 DEF Entry
    <3>6. /\ i \in base..N /\ i \in base + 1..i
          /\ \A j \in base + 1..i - 1 : j \in base + 1..N
      BY <1>1
    <3>3. /\ i \in base..N /\ i \in base + 1..i /\ t.log[i] = x
          /\ \A j \in base + 1..i - 1 : t.log[j] = s.log[j]
      BY <1>7, <3>6
    <3>4. Covers(l, r) /\ Dirty(l, x.address)
      BY <1>8, <3>3, Levels DEF N
    <3> HIDE DEF l, r, x
    <3>5. ASSUME x.kind = "Touch" PROVE AsCommitted(r, x.address)
      <4>1. Same(l.cache[x.address], r.cache[x.address]) /\ l.trie = r.trie
        BY <3>2, <3>4 DEF Covers, CoversAt, Dirty, HasAccount, AccountAt
      <4>2. Equals(l.cache[x.address], l.trie[x.address])
        BY <3>1, <3>5 DEF AsCommitted
      <4> QED BY <4>1, <4>2, SameCommitted DEF AsCommitted
    <3> QED BY <3>1, <3>2, <3>3, <3>5 DEF r
  <2>2. ASSUME First(e), NEW j \in base + 1..N PROVE t.log[j].address # e.address
    <3>1. Dirty(s, s.log[j].address) /\ t.log[j] = s.log[j]
      BY <1>7 DEF Kept, Logs, N
    <3> QED BY <2>2, <3>1
  <2>3. \A i \in base + 1..Len(t.log) : i \in base + 1..N \/ i = N + 1
    BY <1>1, <1>2
  <2>4. (N + 1) - 1 = N
    BY <1>1
  <2> QED BY <1>2, <1>3, <2>1, <2>2, <2>3, <2>4 DEF Logs
<1>12. Kept(t, base)
  <2>1. base \in 0..(N + 1)
    BY <1>1
  <2> QED BY <1>2, <1>9, <1>11, <2>1 DEF Kept
<1> QED BY <1>2, <1>7, <1>8, <1>12 DEF Extends, N

\* Undoing the log down to a savepoint.
LEMMA RollbackKept ==
    ASSUME NEW s, NEW base, Kept(s, base), NEW m \in base..Len(s.log)
    PROVE  LET r == Rollback(s, m) IN
           /\ Kept(r, base) /\ Len(r.log) = m /\ r.trie = s.trie
           /\ \A k \in base..m : Covers(Level(s, k), Level(r, k))
           /\ r.cache = Level(s, m).cache /\ r.absent = Level(s, m).absent
<1> DEFINE r == Rollback(s, m)
           l == Level(s, m)
           N == Len(s.log)
<1>1. /\ N \in Nat /\ base \in Nat /\ base <= N /\ m \in Nat /\ base <= m /\ m <= N
      /\ Basic(l) /\ l.trie = s.trie /\ l.log = s.log
      /\ \A i \in base + 1..m : Dirty(l, s.log[i].address)
  BY Levels
<1>2. r = [l EXCEPT !.log = SubSeq(s.log, 1, m)]
  BY <1>1 DEF Rollback, Level
<1>3. IsState(l) /\ s.log \in Seq(RangeOf(s.log))
  BY <1>1 DEF Basic, Kept, Sound, IsState
<1>4. /\ SubSeq(s.log, 1, m) \in Seq(RangeOf(s.log)) /\ Len(SubSeq(s.log, 1, m)) = m
      /\ \A i \in 1..m : SubSeq(s.log, 1, m)[i] = s.log[i]
  BY <1>1, <1>3
<1> HIDE DEF l, r
<1>5. /\ r = [cache |-> r.cache, log |-> r.log, absent |-> r.absent, clean |-> r.clean,
              trie |-> r.trie]
      /\ r.log = SubSeq(s.log, 1, m) /\ r.cache = l.cache /\ r.absent = l.absent
      /\ r.trie = s.trie
  BY <1>1, <1>2, <1>3 DEF IsState
<1>6. r.log \in Seq(RangeOf(r.log)) /\ Len(r.log) = m /\ \A i \in 1..m : r.log[i] = s.log[i]
  <2>1. r.log \in Seq(RangeOf(s.log)) /\ Len(r.log) = m
    BY <1>4, <1>5
  <2>2. DOMAIN r.log = 1..m /\ \A i \in 1..m : r.log[i] \in RangeOf(r.log)
    BY <2>1 DEF RangeOf
  <2>3. r.log \in Seq(RangeOf(r.log))
    BY <2>1, <2>2
  <2> QED BY <1>4, <1>5, <2>3
<1>7. Basic(r)
  <2>1. IsState(r)
    BY <1>3, <1>5, <1>6 DEF IsState
  <2>2. ASSUME NEW a \in Addresses PROVE FitAt(r, a)
    BY <1>1, <1>5 DEF Basic, FitAt, AsCommitted
  <2> QED BY <2>1, <2>2 DEF Basic
<1>8. Covers(l, r)
  <2>1. ASSUME NEW a \in Addresses PROVE CoversAt(l, r, a)
    BY <1>1, <1>5, SameReflexive DEF CoversAt, HasAccount, AccountAt, Dirty
  <2> QED BY <1>1, <1>5, <2>1 DEF Covers
<1>9. Level(r, m) = r
  BY <1>1, <1>6, LevelDef
<1>10. \A k \in base..m : Basic(Level(r, k)) /\ Covers(Level(s, k), Level(r, k))
  <2>1. \A i \in base + 1..m : r.log[i] = s.log[i]
    BY <1>1, <1>6
  <2>2. m \in base..Len(s.log) /\ Len(r.log) \in Nat /\ m <= Len(r.log)
    BY <1>1, <1>6
  <2> QED BY <1>7, <1>8, <1>9, <2>1, <2>2, Simulation DEF l
<1>11. \A k \in base..m : AllUnwritten(Level(r, k))
  <2>1. ASSUME NEW k \in base..m PROVE AllUnwritten(Level(r, k))
    <3>1. k \in base..Len(s.log)
      BY <1>1
    <3> QED BY <1>10, <3>1, CoversUnwritten DEF Kept
  <2> QED BY <2>1
<1>12. Logs(r, base)
  <2> SUFFICES ASSUME NEW i \in base + 1..m
               PROVE  /\ Entry(r.log[i], r.trie) /\ Dirty(r, r.log[i].address)
                      /\ First(r.log[i]) =>
                            \A j \in base + 1..i - 1 : r.log[j].address # r.log[i].address
                      /\ r.log[i].kind = "Touch" => AsCommitted(Level(r, i), r.log[i].address)
    BY <1>6 DEF Logs
  <2> DEFINE x == s.log[i]
             d == Level(s, i)
             w == Level(r, i)
  <2>0. /\ i \in base + 1..Len(s.log) /\ i \in base..m /\ i \in base..Len(s.log)
        /\ i \in base + 1..i
    BY <1>1
  <2>1. /\ Entry(x, s.trie)
        /\ First(x) => \A j \in base + 1..i - 1 : s.log[j].address # x.address
        /\ x.kind = "Touch" => AsCommitted(d, x.address)
    BY <2>0 DEF Kept, Logs
  <2>2. x.address \in Addresses /\ Dirty(r, x.address)
    BY <1>1, <1>5, <2>1 DEF Entry, Dirty
  <2>3. r.log[i] = x /\ \A j \in base + 1..i - 1 : r.log[j] = s.log[j]
    BY <1>1, <1>6
  <2>4. Covers(d, w) /\ Dirty(d, x.address)
    BY <1>10, <2>0, Levels
  <2> HIDE DEF d, w, x
  <2>5. ASSUME x.kind = "Touch" PROVE AsCommitted(w, x.address)
    <3>1. Same(d.cache[x.address], w.cache[x.address]) /\ d.trie = w.trie
      BY <2>2, <2>4 DEF Covers, CoversAt, Dirty, HasAccount, AccountAt
    <3>2. Equals(d.cache[x.address], d.trie[x.address])
      BY <2>1, <2>5 DEF AsCommitted
    <3> QED BY <3>1, <3>2, SameCommitted DEF AsCommitted
  <2> QED BY <1>5, <2>1, <2>2, <2>3, <2>5 DEF w
<1>13. Sound(r)
  <2>1. m \in base..m
    BY <1>1
  <2> QED BY <1>7, <1>9, <1>11, <2>1 DEF Sound
<1>14. Kept(r, base)
  <2>1. base \in 0..m
    BY <1>1
  <2> QED BY <1>6, <1>11, <1>12, <1>13, <2>1 DEF Kept
<1> QED BY <1>5, <1>6, <1>10, <1>14 DEF r, l

-----------------------------------------------------------------------------
(***************************************************************************)
(* The operations of State, in terms of the account they are about.        *)
(***************************************************************************)
Line(kind, a, value, key) == [kind |-> kind, address |-> a, value |-> value, key |-> key]

LEMMA LogAppend ==
    ASSUME NEW l, l \in Seq(RangeOf(l)), NEW e
    PROVE  Append(l, e) \in Seq(RangeOf(Append(l, e))) /\ Len(Append(l, e)) = Len(l) + 1
<1>1. l \in Seq(RangeOf(l) \cup {e})
  OBVIOUS
<1> DEFINE m == Append(l, e)
<1>2. m \in Seq(RangeOf(l) \cup {e}) /\ Len(m) = Len(l) + 1
  BY <1>1
<1> HIDE DEF m
<1>3. DOMAIN m = 1..Len(m) /\ \A i \in 1..Len(m) : m[i] \in RangeOf(m)
  BY <1>2 DEF RangeOf
<1>4. m \in Seq(RangeOf(m))
  BY <1>2, <1>3
<1> QED BY <1>2, <1>4 DEF m

LEMMA LoggedDef ==
    ASSUME NEW s, IsState(s), NEW kind, NEW a, NEW value, NEW key
    PROVE  LET t == Logged(s, kind, a, value, key) IN
           /\ IsState(t) /\ t.cache = s.cache /\ t.log = Append(s.log, Line(kind, a, value, key))
           /\ t.absent = s.absent /\ t.trie = s.trie /\ t.clean = s.clean
<1> DEFINE t == Logged(s, kind, a, value, key)
           l == Append(s.log, Line(kind, a, value, key))
<1>0. t = [s EXCEPT !.log = l]
  BY DEF Logged, Line
<1> HIDE DEF t, l
<1>1. /\ t = [cache |-> t.cache, log |-> t.log, absent |-> t.absent, clean |-> t.clean,
              trie |-> t.trie]
      /\ t.cache = s.cache /\ t.log = l
      /\ t.absent = s.absent /\ t.trie = s.trie /\ t.clean = s.clean
  BY <1>0 DEF IsState
<1>2. t.log \in Seq(RangeOf(t.log))
  BY <1>1, LogAppend DEF IsState, l
<1>3. IsState(t)
  BY <1>1, <1>2 DEF IsState
<1> QED BY <1>1, <1>3 DEF t, l

LEMMA LineDef ==
    ASSUME NEW kind, NEW a, NEW value, NEW key
    PROVE  LET e == Line(kind, a, value, key) IN
           e.kind = kind /\ e.address = a /\ e.value = value /\ e.key = key
BY DEF Line

LEMMA ElsewhereTransitive ==
    ASSUME NEW s, NEW t, NEW u, NEW a, Elsewhere(s, t, a), Elsewhere(t, u, a)
    PROVE  Elsewhere(s, u, a)
BY DEF Elsewhere

LEMMA CachedElsewhere ==
    ASSUME NEW s, IsState(s), NEW a \in Addresses, NEW c
    PROVE  LET t == Cached(s, a, c) IN
           Elsewhere(s, t, a) /\ a \in DOMAIN t.cache /\ t.cache[a] = c
<1> DEFINE t == Cached(s, a, c)
<1>1. t.cache = Put(s.cache, a, c) /\ t.absent = s.absent /\ t.trie = s.trie
  BY CachedDef
<1> HIDE DEF t
<1>2. Elsewhere(s, t, a) /\ a \in DOMAIN t.cache /\ t.cache[a] = c
  BY <1>1 DEF Elsewhere, Put
<1> QED BY <1>2 DEF t

\* An account of the trie, as it is read.
LEMMA FromTrieDef ==
    ASSUME NEW t, t # NoAccount, t.nonce \in Nat, t.balance \in Nat, IsStorage(t.root)
    PROVE  LET c == FromTrie(t) IN
           /\ Formed(c) /\ c.unchanged = TRUE /\ Equals(c, t) /\ Unwritten(c)
           /\ StorageOf(c) = c.root
<1> DEFINE c == FromTrie(t)
<1>1. /\ DOMAIN c = Fields /\ c.alive = TRUE /\ c.unchanged = TRUE /\ c.nonce = t.nonce
      /\ c.balance = t.balance /\ c.root = t.root /\ c.overlay = <<>> /\ c.code = t.code
  BY DEF FromTrie, Fields
<1> HIDE DEF c
<1>2. StorageOf(c) = c.root
  BY <1>1, OverlayNone
<1>5. c.unchanged = TRUE /\ c.balance = t.balance
  BY <1>1
<1>6. c.unchanged \in BOOLEAN
  BY <1>5, Zenon
<1>4. c.unchanged \in BOOLEAN /\ c.balance \in Int
  BY <1>5, <1>6
<1>3. Formed(c)
  BY <1>1, <1>4 DEF Formed
<1> QED BY <1>1, <1>2, <1>3 DEF c, Equals, Unwritten

LEMMA AccountFormed ==
    ASSUME NEW s, Sound(s), NEW a \in Addresses, HasAccount(s, a)
    PROVE  Formed(AccountAt(s, a)) /\ Unwritten(AccountAt(s, a))
<1>1. FitAt(s, a) /\ UnwrittenAt(s, a)
  BY DEF Sound, Basic, AllUnwritten
<1>2. Unwritten(AccountAt(s, a))
  BY <1>1 DEF UnwrittenAt
<1>3. CASE a \in DOMAIN s.cache
  BY <1>1, <1>2, <1>3 DEF FitAt, AccountAt
<1>4. CASE a \notin DOMAIN s.cache
  BY <1>1, <1>2, <1>4, FromTrieDef DEF FitAt, AccountAt, HasAccount
<1> QED BY <1>3, <1>4

\* Two states that hold the same accounts.
Alike(s, t) ==
    /\ t.log = s.log /\ t.trie = s.trie
    /\ \A b \in Addresses :
          /\ HasAccount(t, b) <=> HasAccount(s, b)
          /\ HasAccount(s, b) => AccountAt(t, b) = AccountAt(s, b)
          /\ Dirty(s, b) <=> Dirty(t, b)

LEMMA AlikeCovers ==
    ASSUME NEW s, NEW t, Alike(s, t)
    PROVE  Covers(s, t)
BY SameReflexive DEF Alike, Covers, CoversAt

LEMMA LoadedDef ==
    ASSUME NEW s, Sound(s), NEW a \in Addresses
    PROVE  LET t == Loaded(s, a) IN
           /\ Sound(t) /\ Alike(s, t) /\ Elsewhere(s, t, a)
           /\ HasAccount(s, a) =>
                 a \in DOMAIN t.cache /\ t.cache[a] = AccountAt(s, a) /\ a \notin t.absent
           /\ ~ HasAccount(s, a) => a \notin DOMAIN t.cache /\ t.trie[a] = NoAccount
<1> DEFINE t == Loaded(s, a)
           c == FromTrie(s.trie[a])
<1>0. IsState(s) /\ FitAt(s, a) /\ Basic(s) /\ UnwrittenAt(s, a) /\ AllUnwritten(s)
  BY DEF Sound, Basic, AllUnwritten
<1>1. CASE a \in DOMAIN s.cache \/ a \in s.absent
  <2>1. t = s
    BY <1>1 DEF Loaded
  <2>2. Alike(s, s) /\ Elsewhere(s, s, a)
    BY DEF Alike, Elsewhere
  <2> QED BY <1>0, <1>1, <2>1, <2>2 DEF FitAt, HasAccount, AccountAt
<1>2. CASE ~ (a \in DOMAIN s.cache \/ a \in s.absent) /\ s.trie[a] = NoAccount
  <2>1. t = [s EXCEPT !.absent = @ \cup {a}]
    BY <1>2 DEF Loaded
  <2>2. /\ t = [cache |-> t.cache, log |-> t.log, absent |-> t.absent, clean |-> t.clean,
                trie |-> t.trie]
        /\ t.cache = s.cache /\ t.log = s.log /\ t.trie = s.trie /\ t.absent = s.absent \cup {a}
    BY <2>1, <1>0 DEF IsState
  <2> HIDE DEF t
  <2>3. IsState(t) /\ Elsewhere(s, t, a)
    BY <2>2, <1>0 DEF IsState, Elsewhere
  <2>4. FitAt(t, a) /\ ~ HasAccount(t, a) /\ ~ HasAccount(s, a) /\ UnwrittenAt(t, a)
    BY <1>0, <1>2, <2>2 DEF FitAt, HasAccount, UnwrittenAt
  <2>5. Basic(t) /\ AllUnwritten(t)
    BY <1>0, <2>3, <2>4, Local
  <2>6. Alike(s, t)
    <3>1. \A b \in Addresses \ {a} :
             /\ HasAccount(t, b) <=> HasAccount(s, b)
             /\ HasAccount(s, b) => AccountAt(t, b) = AccountAt(s, b)
             /\ Dirty(s, b) <=> Dirty(t, b)
      BY <1>0, <2>3, Local
    <3>2. ~ Dirty(s, a) /\ ~ Dirty(t, a)
      BY <1>2, <2>2 DEF Dirty
    <3> QED BY <2>2, <2>4, <3>1, <3>2 DEF Alike
  <2> QED BY <1>2, <2>2, <2>3, <2>4, <2>5, <2>6 DEF Sound, t
<1>3. CASE ~ (a \in DOMAIN s.cache \/ a \in s.absent) /\ s.trie[a] # NoAccount
  <2>1. t = [s EXCEPT !.cache = Put(@, a, c), !.clean = @ \cup {a}]
    BY <1>3 DEF Loaded
  <2>2. /\ t = [cache |-> t.cache, log |-> t.log, absent |-> t.absent, clean |-> t.clean,
                trie |-> t.trie]
        /\ t.cache = Put(s.cache, a, c) /\ t.log = s.log /\ t.trie = s.trie
        /\ t.absent = s.absent
    BY <2>1, <1>0 DEF IsState
  <2>3. Formed(c) /\ c.unchanged = TRUE /\ Equals(c, s.trie[a]) /\ Unwritten(c)
    BY <1>0, <1>3, FromTrieDef DEF FitAt
  <2> HIDE DEF t, c
  <2>4. IsState(t) /\ Elsewhere(s, t, a) /\ a \in DOMAIN t.cache /\ t.cache[a] = c
    BY <2>2, <1>0 DEF IsState, Elsewhere, Put
  <2>5. /\ HasAccount(t, a) /\ AccountAt(t, a) = c
        /\ HasAccount(s, a) /\ AccountAt(s, a) = c
    BY <1>3, <2>4 DEF HasAccount, AccountAt, c
  <2>6. FitAt(t, a) /\ UnwrittenAt(t, a)
    BY <1>0, <1>3, <2>2, <2>3, <2>4, <2>5 DEF FitAt, AsCommitted, UnwrittenAt
  <2>7. Basic(t) /\ AllUnwritten(t)
    BY <1>0, <2>4, <2>6, Local
  <2>8. Alike(s, t)
    <3>1. \A b \in Addresses \ {a} :
             /\ HasAccount(t, b) <=> HasAccount(s, b)
             /\ HasAccount(s, b) => AccountAt(t, b) = AccountAt(s, b)
             /\ Dirty(s, b) <=> Dirty(t, b)
      BY <1>0, <2>4, Local
    <3>2. ~ Dirty(s, a) /\ ~ Dirty(t, a)
      BY <1>3, <2>3, <2>4 DEF Dirty
    <3> QED BY <2>2, <2>5, <3>1, <3>2 DEF Alike
  <2> QED BY <1>3, <2>2, <2>4, <2>5, <2>7, <2>8 DEF Sound, t
<1> QED BY <1>1, <1>2, <1>3

\* An account is replaced by a changed one.
LEMMA ChangeSound ==
    ASSUME NEW s, Sound(s), NEW t, IsState(t), NEW a \in Addresses, Elsewhere(s, t, a),
           a \in DOMAIN t.cache, a \notin t.absent, Formed(t.cache[a]),
           ~ t.cache[a].unchanged, Unwritten(t.cache[a])
    PROVE  /\ Sound(t) /\ Dirty(t, a) /\ HasAccount(t, a) /\ AccountAt(t, a) = t.cache[a]
           /\ \A b \in Addresses \ {a} :
                 /\ HasAccount(t, b) <=> HasAccount(s, b)
                 /\ HasAccount(s, b) => AccountAt(t, b) = AccountAt(s, b)
                 /\ Dirty(s, b) <=> Dirty(t, b)
                 /\ Balance(t, b) = Balance(s, b)
<1>1. Basic(s) /\ AllUnwritten(s) /\ FitAt(s, a) /\ t.trie = s.trie
  BY DEF Sound, Basic, Elsewhere
<1>2. HasAccount(t, a) /\ AccountAt(t, a) = t.cache[a] /\ Dirty(t, a)
  BY DEF HasAccount, AccountAt, Dirty
<1>3. FitAt(t, a) /\ UnwrittenAt(t, a)
  BY <1>1, <1>2 DEF FitAt, UnwrittenAt
<1>4. Basic(t) /\ AllUnwritten(t)
  BY <1>1, <1>3, Local
<1> QED BY <1>1, <1>2, <1>4, Local DEF Sound

(***************************************************************************)
(* What addBalance leaves alone.                                           *)
(***************************************************************************)
Mild(s, t) ==
    \A b \in Addresses :
        LET c == AccountAt(s, b)
            d == AccountAt(t, b)
        IN  /\ Dirty(s, b) => Dirty(t, b)
            /\ HasAccount(s, b) =>
                  /\ HasAccount(t, b) /\ d.nonce = c.nonce /\ d.code = c.code
                  /\ d.root = c.root /\ StorageOf(d) = StorageOf(c)
            /\ ~ HasAccount(s, b) /\ HasAccount(t, b) =>
                  d.nonce = AccountStartNonce /\ d.code = EmptyCode /\ d.root = EmptyTrie

LEMMA MildReflexive ==
    ASSUME NEW s
    PROVE  Mild(s, s)
BY DEF Mild

LEMMA MildTransitive ==
    ASSUME NEW s, NEW t, NEW u, Mild(s, t), Mild(t, u)
    PROVE  Mild(s, u)
<1> SUFFICES ASSUME NEW b \in Addresses
             PROVE  LET c == AccountAt(s, b)
                        d == AccountAt(u, b)
                    IN  /\ Dirty(s, b) => Dirty(u, b)
                        /\ HasAccount(s, b) =>
                              /\ HasAccount(u, b) /\ d.nonce = c.nonce /\ d.code = c.code
                              /\ d.root = c.root /\ StorageOf(d) = StorageOf(c)
                        /\ ~ HasAccount(s, b) /\ HasAccount(u, b) =>
                              d.nonce = AccountStartNonce /\ d.code = EmptyCode /\ d.root = EmptyTrie
  BY DEF Mild
<1> QED BY DEF Mild

LEMMA NewAccountDef ==
    ASSUME NEW n \in Nat, NEW x \in Int
    PROVE  LET c == NewAccount(n, x) IN
           /\ Formed(c) /\ ~ c.unchanged /\ Unwritten(c) /\ c.nonce = n /\ c.balance = x
           /\ c.root = EmptyTrie /\ c.code = EmptyCode /\ c.overlay = <<>>
<1> DEFINE c == NewAccount(n, x)
<1>1. /\ DOMAIN c = Fields /\ c.alive = TRUE /\ c.unchanged = FALSE /\ c.nonce = n
      /\ c.balance = x /\ c.root = EmptyTrie /\ c.code = EmptyCode /\ c.overlay = <<>>
  BY DEF NewAccount, DeadAccount, Fields
<1>2. IsStorage(EmptyTrie)
  BY DEF IsStorage, EmptyTrie
<1> HIDE DEF c
<1>3. c.unchanged \in BOOLEAN
  BY <1>1, Zenon
<1> QED BY <1>1, <1>2, <1>3 DEF Formed, Unwritten, c

\* The log before the entry of the amount.
FirstLog(s, a) ==
    IF ~ HasAccount(s, a) THEN Append(s.log, Line("Create", a, 0, NoKey))
    ELSE IF AccountAt(s, a).unchanged /\ IsEmpty(AccountAt(s, a))
    THEN Append(s.log, Line("Touch", a, 0, NoKey))
    ELSE s.log
Added(s, t, a, x) ==
    LET c == AccountAt(s, a)
        d == t.cache[a]
    IN  /\ IsState(t) /\ Elsewhere(s, t, a) /\ a \in DOMAIN t.cache /\ a \notin t.absent
        /\ DOMAIN d = Fields /\ d.unchanged = FALSE
        /\ HasAccount(s, a) =>
              /\ d.alive = c.alive /\ d.nonce = c.nonce /\ d.balance = c.balance + x
              /\ d.code = c.code /\ d.root = c.root /\ d.overlay = c.overlay
        /\ ~ HasAccount(s, a) => d = NewAccount(AccountStartNonce, x)
        /\ t.log = IF x = 0 THEN FirstLog(s, a)
                   ELSE Append(FirstLog(s, a), Line("Balance", a, x, NoKey))

LEMMA CreateAccountDef ==
    ASSUME NEW s, IsState(s), NEW a \in Addresses, NEW c
    PROVE  LET t == CreateAccount(s, a, c) IN
           /\ IsState(t) /\ Elsewhere(s, t, a) /\ a \in DOMAIN t.cache /\ t.cache[a] = c
           /\ a \notin t.absent /\ t.log = Append(s.log, Line("Create", a, 0, NoKey))
<1> DEFINE t1 == Cached(s, a, c)
           t2 == [t1 EXCEPT !.absent = @ \ {a}]
           t == Logged(t2, "Create", a, 0, NoKey)
<1>1. /\ IsState(t1) /\ t1.cache = Put(s.cache, a, c) /\ t1.log = s.log
      /\ t1.absent = s.absent /\ t1.trie = s.trie
  BY CachedDef
<1> DEFINE r == t1.absent \ {a}
<1>7. t2 = [t1 EXCEPT !.absent = r]
  OBVIOUS
<1> HIDE DEF t1, t2, r
<1>2. /\ t2 = [cache |-> t2.cache, log |-> t2.log, absent |-> t2.absent, clean |-> t2.clean,
               trie |-> t2.trie]
      /\ t2.cache = t1.cache /\ t2.log = s.log /\ t2.absent = r
      /\ t2.trie = s.trie
  BY <1>1, <1>7 DEF IsState
<1>3. IsState(t2)
  BY <1>1, <1>2 DEF IsState, r
<1>4. /\ IsState(t) /\ t.cache = t2.cache /\ t.log = Append(s.log, Line("Create", a, 0, NoKey))
      /\ t.absent = t2.absent /\ t.trie = t2.trie
  BY <1>2, <1>3, LoggedDef
<1> HIDE DEF t
<1>5. Elsewhere(s, t, a) /\ a \in DOMAIN t.cache /\ t.cache[a] = c /\ a \notin t.absent
  BY <1>1, <1>2, <1>4 DEF Elsewhere, Put, r
<1> QED BY <1>4, <1>5 DEF t, t2, t1, CreateAccount

LEMMA AddBalanceDef ==
    ASSUME NEW s, Sound(s), NEW a \in Addresses, NEW x \in Int
    PROVE  Added(s, AddBalance(s, a, x), a, x)
<1> DEFINE l == Loaded(s, a)
           c == AccountAt(s, a)
           w == [c EXCEPT !.balance = @ + x, !.unchanged = FALSE]
           touch == IF l.cache[a].unchanged /\ IsEmpty(l.cache[a])
                    THEN Logged(l, "Touch", a, 0, NoKey) ELSE l
           added == IF HasAccount(l, a)
                    THEN Cached(touch, a, [l.cache[a] EXCEPT !.balance = @ + x, !.unchanged = FALSE])
                    ELSE CreateAccount(l, a, NewAccount(AccountStartNonce, x))
           t == IF x = 0 THEN added ELSE Logged(added, "Balance", a, x, NoKey)
<1>1. t = AddBalance(s, a, x)
  BY DEF AddBalance
<1>2. /\ Sound(l) /\ Alike(s, l) /\ Elsewhere(s, l, a)
      /\ HasAccount(s, a) =>
            a \in DOMAIN l.cache /\ l.cache[a] = c /\ a \notin l.absent
      /\ ~ HasAccount(s, a) => a \notin DOMAIN l.cache /\ l.trie[a] = NoAccount
  BY LoadedDef
<1>3. IsState(l) /\ l.log = s.log /\ (HasAccount(l, a) <=> HasAccount(s, a))
  BY <1>2 DEF Sound, Basic, Alike
<1> HIDE DEF l
<1>4. /\ IsState(added) /\ Elsewhere(s, added, a) /\ a \in DOMAIN added.cache
      /\ a \notin added.absent /\ added.log = FirstLog(s, a)
      /\ added.cache[a] = IF HasAccount(s, a) THEN w ELSE NewAccount(AccountStartNonce, x)
  <2>1. CASE HasAccount(s, a)
    <3>1. /\ IsState(touch) /\ touch.log = FirstLog(s, a) /\ touch.absent = l.absent
          /\ touch.cache = l.cache /\ touch.trie = l.trie
      <4>1. CASE c.unchanged /\ IsEmpty(c)
        BY <1>2, <1>3, <2>1, <4>1, LoggedDef DEF FirstLog
      <4>2. CASE ~ (c.unchanged /\ IsEmpty(c))
        BY <1>2, <1>3, <2>1, <4>2 DEF FirstLog
      <4> QED BY <4>1, <4>2
    <3> HIDE DEF touch
    <3>2. Elsewhere(s, touch, a)
      BY <1>2, <3>1 DEF Elsewhere
    <3>3. added = Cached(touch, a, w)
      BY <1>2, <1>3, <2>1
    <3> HIDE DEF w, added
    <3>4. /\ IsState(added) /\ added.log = touch.log /\ added.absent = touch.absent
          /\ Elsewhere(touch, added, a) /\ a \in DOMAIN added.cache /\ added.cache[a] = w
      BY <3>1, <3>3, CachedDef, CachedElsewhere
    <3>5. Elsewhere(s, added, a)
      BY <3>2, <3>4, ElsewhereTransitive
    <3> QED BY <1>2, <2>1, <3>1, <3>4, <3>5
  <2>2. CASE ~ HasAccount(s, a)
    <3> DEFINE n == NewAccount(AccountStartNonce, x)
    <3>1. added = CreateAccount(l, a, n)
      BY <1>3, <2>2
    <3> HIDE DEF added, n
    <3>2. /\ IsState(added) /\ Elsewhere(l, added, a) /\ a \in DOMAIN added.cache
          /\ added.cache[a] = n
          /\ a \notin added.absent /\ added.log = Append(s.log, Line("Create", a, 0, NoKey))
      BY <1>3, <3>1, CreateAccountDef
    <3>3. Elsewhere(s, added, a)
      BY <1>2, <3>2, ElsewhereTransitive
    <3> QED BY <2>2, <3>2, <3>3 DEF FirstLog, n
  <2> QED BY <2>1, <2>2
<1> HIDE DEF added
<1>5. /\ IsState(t) /\ Elsewhere(s, t, a) /\ a \in DOMAIN t.cache /\ a \notin t.absent
      /\ t.cache[a] = added.cache[a]
      /\ t.log = IF x = 0 THEN FirstLog(s, a)
                 ELSE Append(FirstLog(s, a), Line("Balance", a, x, NoKey))
  <2>1. CASE x = 0
    BY <1>4, <2>1
  <2>2. CASE x # 0
    <3>1. /\ IsState(t) /\ t.cache = added.cache /\ t.absent = added.absent
          /\ t.trie = added.trie
          /\ t.log = Append(FirstLog(s, a), Line("Balance", a, x, NoKey))
      BY <1>4, <2>2, LoggedDef
    <3>2. Elsewhere(s, t, a)
      BY <1>4, <3>1 DEF Elsewhere
    <3> QED BY <1>4, <2>2, <3>1, <3>2
  <2> QED BY <2>1, <2>2
<1> HIDE DEF t
<1>6. CASE HasAccount(s, a)
  <2>1. Formed(c)
    BY <1>6, AccountFormed
  <2>2. t.cache[a] = w
    BY <1>4, <1>5, <1>6
  <2>3. /\ DOMAIN w = Fields /\ w.unchanged = FALSE /\ w.alive = c.alive /\ w.nonce = c.nonce
        /\ w.balance = c.balance + x /\ w.code = c.code /\ w.root = c.root
        /\ w.overlay = c.overlay
    BY <2>1 DEF Formed, Fields
  <2> HIDE DEF w
  <2> QED BY <1>1, <1>5, <1>6, <2>2, <2>3 DEF Added
<1>7. CASE ~ HasAccount(s, a)
  <2>1. t.cache[a] = NewAccount(AccountStartNonce, x)
    BY <1>4, <1>5, <1>7
  <2>2. DOMAIN t.cache[a] = Fields /\ t.cache[a].unchanged = FALSE
    BY <2>1 DEF NewAccount, DeadAccount, Fields
  <2> QED BY <1>1, <1>5, <1>7, <2>1, <2>2 DEF Added
<1> QED BY <1>6, <1>7

LEMMA UnchangedEquals ==
    ASSUME NEW s, Sound(s), NEW a \in Addresses, HasAccount(s, a), AccountAt(s, a).unchanged
    PROVE  Equals(AccountAt(s, a), s.trie[a])
<1>1. FitAt(s, a)
  BY DEF Sound, Basic
<1>2. CASE a \in DOMAIN s.cache
  BY <1>1, <1>2 DEF FitAt, AccountAt, AsCommitted
<1>3. CASE a \notin DOMAIN s.cache
  BY <1>1, <1>3, FromTrieDef DEF FitAt, AccountAt, HasAccount
<1> QED BY <1>2, <1>3

\* What addBalance makes of the account.
LEMMA AddedSound ==
    ASSUME NEW s, Sound(s), NEW t, NEW a \in Addresses, NEW x \in Int, Added(s, t, a, x)
    PROVE  /\ Sound(t) /\ Mild(s, t) /\ Dirty(t, a) /\ Formed(t.cache[a])
           /\ HasAccount(t, a) /\ AccountAt(t, a) = t.cache[a]
           /\ Balance(t, a) = Balance(s, a) + x
           /\ \A b \in Addresses \ {a} : Balance(t, b) = Balance(s, b)
<1> DEFINE c == AccountAt(s, a)
           d == t.cache[a]
<1>1. AccountStartNonce \in Nat
  BY StateAssumption
<1>2. /\ IsState(t) /\ Elsewhere(s, t, a) /\ a \in DOMAIN t.cache /\ a \notin t.absent
      /\ DOMAIN d = Fields /\ d.unchanged = FALSE
  BY DEF Added
<1>3. CASE HasAccount(s, a)
  <2>1. Formed(c) /\ Unwritten(c)
    BY <1>3, AccountFormed
  <2>2. /\ d.alive = c.alive /\ d.nonce = c.nonce /\ d.balance = c.balance + x
        /\ d.code = c.code /\ d.root = c.root /\ d.overlay = c.overlay
    BY <1>3 DEF Added
  <2>3. StorageOf(d) = StorageOf(c)
    BY <2>2, StorageSame
  <2> HIDE DEF c, d
  <2>4. Formed(d) /\ Unwritten(d)
    <3>1. d.unchanged \in BOOLEAN
      BY <1>2, Zenon
    <3> QED BY <1>2, <2>1, <2>2, <2>3, <3>1 DEF Formed, Unwritten
  <2>5. /\ Sound(t) /\ Dirty(t, a) /\ HasAccount(t, a) /\ AccountAt(t, a) = d
        /\ \A b \in Addresses \ {a} :
              /\ HasAccount(t, b) <=> HasAccount(s, b)
              /\ HasAccount(s, b) => AccountAt(t, b) = AccountAt(s, b)
              /\ Dirty(s, b) <=> Dirty(t, b)
              /\ Balance(t, b) = Balance(s, b)
    BY <1>2, <2>4, ChangeSound DEF d
  <2>6. Mild(s, t)
    BY <1>3, <2>2, <2>3, <2>5 DEF Mild, c
  <2>7. Balance(t, a) = Balance(s, a) + x
    BY <1>3, <2>2, <2>5 DEF Balance, c
  <2> QED BY <2>4, <2>5, <2>6, <2>7 DEF d
<1>4. CASE ~ HasAccount(s, a)
  <2>1. d = NewAccount(AccountStartNonce, x)
    BY <1>4 DEF Added
  <2>2. /\ Formed(d) /\ Unwritten(d) /\ d.nonce = AccountStartNonce /\ d.balance = x
        /\ d.root = EmptyTrie /\ d.code = EmptyCode
    BY <1>1, <2>1, NewAccountDef
  <2> HIDE DEF d
  <2>5. /\ Sound(t) /\ Dirty(t, a) /\ HasAccount(t, a) /\ AccountAt(t, a) = d
        /\ \A b \in Addresses \ {a} :
              /\ HasAccount(t, b) <=> HasAccount(s, b)
              /\ HasAccount(s, b) => AccountAt(t, b) = AccountAt(s, b)
              /\ Dirty(s, b) <=> Dirty(t, b)
              /\ Balance(t, b) = Balance(s, b)
    BY <1>2, <2>2, ChangeSound DEF d
  <2>6. Mild(s, t)
    BY <1>4, <2>2, <2>5 DEF Mild
  <2>7. Balance(t, a) = Balance(s, a) + x
    BY <1>4, <2>2, <2>5 DEF Balance
  <2> QED BY <2>2, <2>5, <2>6, <2>7 DEF d
<1> QED BY <1>3, <1>4

\* The account is touched or created.
LEMMA AddNothing ==
    ASSUME NEW s, NEW base, Kept(s, base), NEW a \in Addresses, NEW t, Added(s, t, a, 0)
    PROVE  Extends(s, t, base)
<1> DEFINE c == AccountAt(s, a)
           d == t.cache[a]
<1>1. Sound(s) /\ Basic(s) /\ FitAt(s, a)
  BY DEF Kept, Sound, Basic
<1>2. /\ Sound(t) /\ Dirty(t, a) /\ Formed(d) /\ HasAccount(t, a) /\ AccountAt(t, a) = d
  BY <1>1, AddedSound
<1>3. /\ IsState(t) /\ Elsewhere(s, t, a) /\ a \in DOMAIN t.cache /\ a \notin t.absent
      /\ DOMAIN d = Fields /\ d.unchanged = FALSE /\ t.log = FirstLog(s, a)
      /\ t.trie = s.trie /\ Basic(t)
  BY <1>2 DEF Added, Elsewhere, Sound
<1>4. CASE ~ HasAccount(s, a)
  <2> DEFINE e == Line("Create", a, 0, NoKey)
             u == Undo(e, t)
  <2>1. e.kind = "Create" /\ e.address = a /\ e.kind \in Kinds
    BY LineDef DEF Kinds
  <2>2. s.trie[a] = NoAccount /\ ~ Dirty(s, a)
    BY <1>1, <1>4 DEF HasAccount, FitAt, Dirty
  <2>3. Entry(e, s.trie)
    BY <2>1, <2>2 DEF Entry
  <2>4. t.log = Append(s.log, e)
    BY <1>3, <1>4 DEF FirstLog
  <2> HIDE DEF e
  <2>5. IsState(u) /\ Elsewhere(t, u, a) /\ a \notin DOMAIN u.cache /\ u.trie = s.trie
    BY <1>2, <1>3, <2>1, UndoDef
  <2> HIDE DEF u
  <2>6. Elsewhere(s, u, a)
    BY <1>3, <2>5, ElsewhereTransitive
  <2>7. CoversAt(s, u, a)
    BY <1>4, <2>2, <2>5 DEF CoversAt, HasAccount
  <2>8. Covers(s, u)
    BY <1>1, <2>5, <2>6, <2>7, Local
  <2> QED BY <1>2, <1>3, <2>1, <2>2, <2>3, <2>4, <2>8, LoggedExtends DEF u
<1>5. CASE HasAccount(s, a) /\ c.unchanged /\ IsEmpty(c)
  <2> DEFINE e == Line("Touch", a, 0, NoKey)
             u == Undo(e, t)
             f == Undone(e, d)
  <2>1. e.kind = "Touch" /\ e.address = a /\ e.kind \in Kinds /\ e.kind \in Kinds \ {"Create"}
    BY LineDef DEF Kinds
  <2>2. Entry(e, s.trie) /\ ~ Dirty(s, a)
    BY <1>5, <2>1 DEF Entry, Dirty, AccountAt
  <2>3. t.log = Append(s.log, e)
    BY <1>3, <1>5 DEF FirstLog
  <2>4. /\ d.alive = c.alive /\ d.nonce = c.nonce /\ d.balance = c.balance + 0
        /\ d.code = c.code /\ d.root = c.root /\ d.overlay = c.overlay
    BY <1>5 DEF Added
  <2>5. Formed(c) /\ Equals(c, s.trie[a])
    BY <1>1, <1>5, AccountFormed, UnchangedEquals
  <2>6. d.balance = c.balance
    BY <2>4, <2>5 DEF Formed
  <2>7. StorageOf(d) = StorageOf(c)
    BY <2>4, StorageSame
  <2> HIDE DEF e
  <2>8. UndoneAs(e, d, f)
    BY <1>2, <2>1, UndoneFields DEF Formed
  <2>9. IsState(u) /\ Elsewhere(t, u, a) /\ a \in DOMAIN u.cache /\ u.cache[a] = f
    BY <1>2, <1>3, <2>1, UndoDef
  <2> HIDE DEF u, f, c, d
  <2>10. /\ f.alive = d.alive /\ f.nonce = d.nonce /\ f.balance = d.balance /\ f.code = d.code
         /\ f.root = d.root /\ f.overlay = d.overlay /\ f.unchanged = TRUE
    BY <2>1, <2>8 DEF UndoneAs
  <2>11. StorageOf(f) = StorageOf(d)
    BY <2>10, StorageSame
  <2>12. Same(c, f)
    BY <1>5, <2>4, <2>6, <2>7, <2>10, <2>11 DEF Same, Touched
  <2>13. CoversAt(s, u, a)
    BY <1>5, <2>2, <2>9, <2>12 DEF CoversAt, HasAccount, AccountAt, c
  <2>14. Elsewhere(s, u, a)
    BY <1>3, <2>9, ElsewhereTransitive
  <2>15. Covers(s, u)
    BY <1>1, <2>9, <2>13, <2>14, Local
  <2>16. AsCommitted(t, a)
    BY <1>3, <2>4, <2>5, <2>6, <2>7 DEF AsCommitted, Equals, d
  <2> QED BY <1>2, <1>3, <2>1, <2>2, <2>3, <2>15, <2>16, LoggedExtends DEF u
<1>6. CASE HasAccount(s, a) /\ ~ (c.unchanged /\ IsEmpty(c))
  <2>1. t.log = s.log
    BY <1>3, <1>6 DEF FirstLog
  <2>2. /\ d.alive = c.alive /\ d.nonce = c.nonce /\ d.balance = c.balance + 0
        /\ d.code = c.code /\ d.root = c.root /\ d.overlay = c.overlay
    BY <1>6 DEF Added
  <2>3. Formed(c)
    BY <1>1, <1>6, AccountFormed
  <2>4. d.balance = c.balance
    BY <2>2, <2>3 DEF Formed
  <2>5. StorageOf(d) = StorageOf(c)
    BY <2>2, StorageSame
  <2> HIDE DEF c, d
  <2>6. Same(c, d)
    BY <1>3, <1>6, <2>2, <2>4, <2>5 DEF Same, Touched, IsEmpty
  <2>7. CoversAt(s, t, a)
    BY <1>2, <1>6, <2>6 DEF CoversAt, c
  <2>8. Covers(s, t)
    BY <1>1, <1>3, <2>7, Local
  <2> QED BY <1>2, <2>1, <2>8, QuietExtends
<1> QED BY <1>4, <1>5, <1>6

LEMMA AddBalanceExtends ==
    ASSUME NEW s, NEW base, Kept(s, base), NEW a \in Addresses, NEW x \in Int
    PROVE  LET t == AddBalance(s, a, x) IN
           /\ Extends(s, t, base) /\ Mild(s, t) /\ Dirty(t, a)
           /\ Balance(t, a) = Balance(s, a) + x
           /\ \A b \in Addresses \ {a} : Balance(t, b) = Balance(s, b)
<1> DEFINE t == AddBalance(s, a, x)
           z == AddBalance(s, a, 0)
           d == t.cache[a]
           o == z.cache[a]
<1>1. Sound(s)
  BY DEF Kept
<1>2. Added(s, t, a, x) /\ Added(s, z, a, 0)
  BY <1>1, AddBalanceDef
<1> HIDE DEF t, z
<1>3. /\ Sound(t) /\ Mild(s, t) /\ Dirty(t, a) /\ Formed(d)
      /\ HasAccount(t, a) /\ AccountAt(t, a) = d
      /\ Balance(t, a) = Balance(s, a) + x
      /\ \A b \in Addresses \ {a} : Balance(t, b) = Balance(s, b)
  BY <1>1, <1>2, AddedSound
<1>4. Extends(s, z, base)
  BY <1>2, AddNothing
<1>5. CASE x = 0
  BY <1>3, <1>4, <1>5 DEF t, z
<1>6. CASE x # 0
  <2> DEFINE e == Line("Balance", a, x, NoKey)
             u == Undo(e, t)
             f == Undone(e, d)
  <2>1. /\ e.kind = "Balance" /\ e.address = a /\ e.value = x
        /\ e.kind \in Kinds /\ e.kind \in Kinds \ {"Create"}
    BY LineDef DEF Kinds
  <2>2. Entry(e, z.trie) /\ ~ First(e)
    BY <2>1 DEF Entry, First
  <2>3. t.log = Append(z.log, e)
    BY <1>2, <1>6 DEF Added
  <2>4. Sound(z) /\ Dirty(z, a) /\ Formed(o) /\ HasAccount(z, a) /\ AccountAt(z, a) = o
    BY <1>1, <1>2, AddedSound
  <2>5. /\ IsState(t) /\ Elsewhere(s, t, a) /\ Elsewhere(s, z, a) /\ Basic(t) /\ Basic(z)
        /\ t.trie = s.trie /\ z.trie = s.trie
    BY <1>2, <1>3, <2>4 DEF Added, Elsewhere, Sound
  <2>6. Elsewhere(z, t, a)
    BY <2>5 DEF Elsewhere
  <2> HIDE DEF e
  <2>7. UndoneAs(e, d, f)
    BY <1>3, <2>1, UndoneFields DEF Formed
  <2>8. IsState(u) /\ Elsewhere(t, u, a) /\ a \in DOMAIN u.cache /\ u.cache[a] = f
    BY <1>3, <2>1, <2>5, UndoDef
  <2> HIDE DEF u, f
  <2>9. /\ f.alive = d.alive /\ f.nonce = d.nonce /\ f.balance = d.balance - x
        /\ f.code = d.code /\ f.root = d.root /\ f.overlay = d.overlay
        /\ f.unchanged = FALSE
    BY <2>1, <2>7 DEF UndoneAs
  <2>10. /\ d.alive = o.alive /\ d.nonce = o.nonce /\ d.balance = o.balance + x
         /\ d.code = o.code /\ d.root = o.root /\ d.overlay = o.overlay /\ ~ o.unchanged
    <3>1. CASE HasAccount(s, a)
      <4>1. Formed(AccountAt(s, a))
        BY <1>1, <3>1, AccountFormed
      <4> DEFINE c == AccountAt(s, a)
      <4>2. /\ d.alive = c.alive /\ d.nonce = c.nonce /\ d.balance = c.balance + x
            /\ d.code = c.code /\ d.root = c.root /\ d.overlay = c.overlay
        BY <1>2, <3>1 DEF Added
      <4>3. /\ o.alive = c.alive /\ o.nonce = c.nonce /\ o.balance = c.balance + 0
            /\ o.code = c.code /\ o.root = c.root /\ o.overlay = c.overlay
            /\ o.unchanged = FALSE
        BY <1>2, <3>1 DEF Added
      <4> HIDE DEF c, d, o
      <4>4. c.balance \in Int
        BY <4>1 DEF Formed, c
      <4>5. d.balance = o.balance + x
        BY <4>2, <4>3, <4>4
      <4> QED BY <4>2, <4>3, <4>5
    <3>2. CASE ~ HasAccount(s, a)
      <4>1. AccountStartNonce \in Nat /\ 0 \in Int
        BY StateAssumption
      <4>2. d = NewAccount(AccountStartNonce, x) /\ o = NewAccount(AccountStartNonce, 0)
        BY <1>2, <3>2 DEF Added
      <4> HIDE DEF d, o
      <4>3. /\ Formed(d) /\ Formed(o) /\ d.nonce = o.nonce /\ d.balance = x /\ o.balance = 0
            /\ d.code = o.code /\ d.root = o.root /\ d.overlay = o.overlay /\ ~ o.unchanged
        BY <4>1, <4>2, NewAccountDef
      <4>4. d.balance = o.balance + x
        BY <4>3
      <4>5. d.alive = o.alive
        BY <4>3 DEF Formed
      <4> QED BY <4>3, <4>4, <4>5
    <3> QED BY <3>1, <3>2
  <2>11. f.balance = o.balance
    BY <2>4, <2>9, <2>10 DEF Formed
  <2>12. StorageOf(f) = StorageOf(o)
    BY <2>9, <2>10, StorageSame
  <2> HIDE DEF d, o
  <2>13. Same(o, f)
    BY <2>9, <2>10, <2>11, <2>12 DEF Same, Touched, IsEmpty
  <2>14. CoversAt(z, u, a)
    BY <2>4, <2>8, <2>9, <2>13 DEF CoversAt, HasAccount, AccountAt, Dirty
  <2>15. Elsewhere(z, u, a)
    BY <2>6, <2>8, ElsewhereTransitive
  <2>16. Covers(z, u)
    BY <2>5, <2>8, <2>14, <2>15, Local
  <2>17. Kept(z, base)
    BY <1>4 DEF Extends
  <2>18. Extends(z, t, base)
    BY <1>3, <2>1, <2>2, <2>3, <2>5, <2>16, <2>17, LoggedExtends DEF u
  <2>19. Extends(s, t, base)
    BY <1>4, <2>18, ExtendsTransitive
  <2> QED BY <1>3, <2>19 DEF t
<1> QED BY <1>5, <1>6

-----------------------------------------------------------------------------
(***************************************************************************)
(* What the accounts hold together.                                        *)
(***************************************************************************)
Solvent(s) == \A a \in Addresses : Balance(s, a) \in Nat

LEMMA SumOfSame ==
    ASSUME NEW S, NEW f \in [S -> Nat], NEW g \in [S -> Nat], NEW s \in Seq(S),
           \A i \in 1..Len(s) : f[s[i]] = g[s[i]]
    PROVE  SumOf(f, s) = SumOf(g, s)
<1> DEFINE I == {k \in Nat : k <= Len(s) => PartialSums(f, s)[k] = PartialSums(g, s)[k]}
<1>1. /\ PartialSums(f, s)[0] = 0
      /\ \A n \in Nat : n + 1 <= Len(s) =>
            PartialSums(f, s)[n + 1] = PartialSums(f, s)[n] + f[s[n + 1]]
  BY PartialSumsStep
<1>2. /\ PartialSums(g, s)[0] = 0
      /\ \A n \in Nat : n + 1 <= Len(s) =>
            PartialSums(g, s)[n + 1] = PartialSums(g, s)[n] + g[s[n + 1]]
  BY PartialSumsStep
<1>3. 0 \in I
  BY <1>1, <1>2
<1>4. ASSUME NEW k \in I PROVE k + 1 \in I
  <2> SUFFICES ASSUME k + 1 <= Len(s)
               PROVE  PartialSums(f, s)[k + 1] = PartialSums(g, s)[k + 1]
    OBVIOUS
  <2>1. k \in Nat /\ Len(s) \in Nat /\ k <= Len(s) /\ k + 1 \in 1..Len(s)
    OBVIOUS
  <2>2. PartialSums(f, s)[k] = PartialSums(g, s)[k] /\ f[s[k + 1]] = g[s[k + 1]]
    BY <2>1
  <2> QED BY <1>1, <1>2, <2>1, <2>2
<1>5. I = Nat
  <2> HIDE DEF I
  <2>1. I \in SUBSET Nat
    BY DEF I
  <2> QED BY <1>3, <1>4, <2>1, SetInduction
<1>6. Len(s) \in I
  BY <1>5
<1> QED BY <1>6 DEF SumOf

LEMMA SumOfChange ==
    ASSUME NEW S, IsFiniteSet(S), NEW o \in Orderings(S), NEW f \in [S -> Nat],
           NEW g \in [S -> Nat], NEW a \in S, \A b \in S \ {a} : f[b] = g[b]
    PROVE  SumOf(g, o) = SumOf(f, o) + g[a] - f[a]
<1>1. o \in Seq(S) /\ RangeOf(o) = S /\ Distinct(o)
  BY OrderingsProperties, OrderingDistinct
<1>2. PICK i \in 1..Len(o) : o[i] = a
  BY <1>1 DEF RangeOf
<1>3. PICK p \in Seq(S), q \in Seq(S) : o = Append(p, a) \o q
  <2>1. \E p, q \in Seq(S) : o = Append(p, o[i]) \o q /\ o[i] \in S
    <3>1. ASSUME NEW v \in Seq(S), NEW n \in 1..Len(v)
          PROVE  \E p, q \in Seq(S) : v = Append(p, v[n]) \o q /\ v[n] \in S
      BY SplitAt
    <3> QED BY <1>1, <3>1, Zenon
  <2> QED BY <1>2, <2>1, Zenon
<1> DEFINE pa == Append(p, a)
<1>4. /\ pa \in Seq(S) /\ Len(pa) = Len(p) + 1 /\ pa[Len(p) + 1] = a
      /\ Len(p) \in Nat /\ DOMAIN pa = 1..(Len(p) + 1)
      /\ \A j \in 1..Len(p) : pa[j] = p[j] /\ p[j] \in S
  OBVIOUS
<1>14. \A m \in Nat : m + 1 \in 1..(m + 1) /\ \A j \in 1..m : j \in 1..(m + 1) /\ j # m + 1
  OBVIOUS
<1>13. /\ Len(p) + 1 \in 1..(Len(p) + 1)
       /\ \A j \in 1..Len(p) : j \in 1..(Len(p) + 1) /\ j # Len(p) + 1
  BY <1>4, <1>14, Zenon
<1> HIDE DEF pa
<1>5. Distinct(pa) /\ RangeOf(pa) \cap RangeOf(q) = {}
  <2>1. Distinct(pa \o q)
    BY <1>1, <1>3, Zenon DEF pa
  <2> QED BY <1>4, <2>1, ConcatSplits, Zenon
<1>6. ASSUME NEW j \in 1..Len(p) PROVE f[p[j]] = g[p[j]]
  <2>1. j \in DOMAIN pa /\ Len(p) + 1 \in DOMAIN pa /\ j # Len(p) + 1
    BY <1>4, <1>13, Zenon
  <2>2. pa[j] # pa[Len(p) + 1]
    BY <1>5, <2>1 DEF Distinct
  <2> QED BY <1>4, <2>2
<1>7. ASSUME NEW j \in 1..Len(q) PROVE f[q[j]] = g[q[j]]
  <2>1. q[j] \in RangeOf(q) /\ q[j] \in S
    BY DEF RangeOf
  <2>2. a \in RangeOf(pa)
    BY <1>4, <1>13, Zenon DEF RangeOf
  <2>3. q[j] # a
    BY <1>5, <2>1, <2>2
  <2> QED BY <2>1, <2>3
<1>8. SumOf(f, p) = SumOf(g, p)
  BY <1>6, SumOfSame, Zenon
<1>9. SumOf(f, q) = SumOf(g, q)
  BY <1>7, SumOfSame, Zenon
<1>10. ASSUME NEW h \in [S -> Nat]
       PROVE  SumOf(h, o) = SumOf(h, p) + h[a] + SumOf(h, q)
  <2>1. SumOf(h, pa \o q) = SumOf(h, pa) + SumOf(h, q)
    BY <1>4, SumOfConcat, Zenon
  <2>2. SumOf(h, pa) = SumOf(h, p) + h[a]
    BY SumOfAppend, Zenon DEF pa
  <2> QED BY <1>3, <2>1, <2>2, Zenon DEF pa
<1>11. /\ SumOf(f, o) = SumOf(f, p) + f[a] + SumOf(f, q)
       /\ SumOf(g, o) = SumOf(g, p) + g[a] + SumOf(g, q)
  BY <1>10, Zenon
<1>12. SumOf(f, p) \in Nat /\ SumOf(f, q) \in Nat /\ f[a] \in Nat /\ g[a] \in Nat
  BY SumOfType
<1> QED BY <1>8, <1>9, <1>11, <1>12

LEMMA AddressOrdered == AddressOrder \in Orderings(Addresses)
<1>1. \E o \in Orderings(Addresses) : TRUE
  BY StateAssumption, OrderingExists
<1> QED BY <1>1 DEF AddressOrder

LEMMA HeldSame ==
    ASSUME NEW s, NEW t, \A b \in Addresses : Balance(t, b) = Balance(s, b)
    PROVE  Held(t) = Held(s)
<1>1. [a \in Addresses |-> Balance(t, a)] = [a \in Addresses |-> Balance(s, a)]
  OBVIOUS
<1> QED BY <1>1 DEF Held

LEMMA HeldChange ==
    ASSUME NEW s, NEW t, Solvent(s), Solvent(t), NEW a \in Addresses,
           \A b \in Addresses \ {a} : Balance(t, b) = Balance(s, b)
    PROVE  Held(t) = Held(s) + Balance(t, a) - Balance(s, a)
<1> DEFINE f == [b \in Addresses |-> Balance(s, b)]
           g == [b \in Addresses |-> Balance(t, b)]
<1>1. /\ f \in [Addresses -> Nat] /\ g \in [Addresses -> Nat]
      /\ f[a] = Balance(s, a) /\ g[a] = Balance(t, a) /\ \A b \in Addresses \ {a} : f[b] = g[b]
  BY DEF Solvent
<1>2. Held(s) = SumOf(f, AddressOrder) /\ Held(t) = SumOf(g, AddressOrder)
  BY DEF Held
<1> HIDE DEF f, g
<1> QED BY <1>1, <1>2, AddressOrdered, StateAssumption, SumOfChange

LEMMA HeldType ==
    ASSUME NEW s, Solvent(s)
    PROVE  Held(s) \in Nat
<1> DEFINE f == [b \in Addresses |-> Balance(s, b)]
<1>1. f \in [Addresses -> Nat]
  BY DEF Solvent
<1>2. AddressOrder \in Seq(Addresses)
  BY AddressOrdered, StateAssumption, OrderingsProperties
<1> HIDE DEF f
<1> QED BY <1>1, <1>2, SumOfType DEF Held, f

-----------------------------------------------------------------------------
(***************************************************************************)
(* What an operation leaves of a changed account: the frames depend on it. *)
(***************************************************************************)
Firm(s, t) ==
    \A b \in Addresses :
        LET c == s.cache[b]
            d == t.cache[b]
        IN  Dirty(s, b) =>
                /\ Dirty(t, b) /\ d.code = c.code
                /\ d.root = c.root \/ d.root = EmptyTrie
                /\ EIP158 /\ c.nonce # 0 => d.nonce # 0

LEMMA FirmTransitive ==
    ASSUME NEW s, NEW t, NEW u, Firm(s, t), Firm(t, u)
    PROVE  Firm(s, u)
BY DEF Firm

LEMMA FirmSafe ==
    ASSUME NEW s, NEW t, NEW f, f.addr \in Addresses, Firm(s, t), Safe(s, f)
    PROVE  Safe(t, f)
BY DEF Firm, Safe

LEMMA CoversFirm ==
    ASSUME NEW s, NEW t, Covers(s, t)
    PROVE  Firm(s, t)
<1> SUFFICES ASSUME NEW b \in Addresses, Dirty(s, b)
             PROVE  /\ Dirty(t, b) /\ t.cache[b].code = s.cache[b].code
                    /\ t.cache[b].root = s.cache[b].root \/ t.cache[b].root = EmptyTrie
                    /\ EIP158 /\ s.cache[b].nonce # 0 => t.cache[b].nonce # 0
  BY DEF Firm
<1>1. Dirty(t, b) /\ Same(AccountAt(s, b), AccountAt(t, b))
  BY DEF Covers, CoversAt, Dirty, HasAccount
<1>2. AccountAt(s, b) = s.cache[b] /\ AccountAt(t, b) = t.cache[b]
  BY <1>1 DEF Dirty, AccountAt
<1> QED BY <1>1, <1>2 DEF Same

LEMMA MildFirm ==
    ASSUME NEW s, NEW t, Mild(s, t)
    PROVE  Firm(s, t)
<1> SUFFICES ASSUME NEW b \in Addresses, Dirty(s, b)
             PROVE  /\ Dirty(t, b) /\ t.cache[b].code = s.cache[b].code
                    /\ t.cache[b].root = s.cache[b].root \/ t.cache[b].root = EmptyTrie
                    /\ EIP158 /\ s.cache[b].nonce # 0 => t.cache[b].nonce # 0
  BY DEF Firm
<1>1. HasAccount(s, b)
  BY DEF Dirty, HasAccount
<1>2. /\ Dirty(t, b) /\ AccountAt(t, b).code = AccountAt(s, b).code
      /\ AccountAt(t, b).root = AccountAt(s, b).root
      /\ AccountAt(t, b).nonce = AccountAt(s, b).nonce
  BY <1>1 DEF Mild
<1>3. AccountAt(s, b) = s.cache[b] /\ AccountAt(t, b) = t.cache[b]
  BY <1>2 DEF Dirty, AccountAt
<1> QED BY <1>2, <1>3

LEMMA CoversReads ==
    ASSUME NEW s, NEW t, Covers(s, t), NEW a \in Addresses
    PROVE  /\ Balance(t, a) = Balance(s, a) /\ GetNonce(t, a) = GetNonce(s, a)
           /\ CodeAt(t, a) = CodeAt(s, a)
<1>1. CoversAt(s, t, a)
  BY DEF Covers
<1> QED BY <1>1 DEF CoversAt, Same, Balance, GetNonce, CodeAt

LEMMA CoversWorld ==
    ASSUME NEW s, NEW t, Covers(s, t)
    PROVE  World(t) = World(s)
<1>1. {b \in Addresses : HasAccount(t, b)} = {b \in Addresses : HasAccount(s, b)}
  BY DEF Covers, CoversAt
<1>2. ASSUME NEW a \in Addresses, HasAccount(s, a)
      PROVE  Seen(AccountAt(t, a)) = Seen(AccountAt(s, a))
  <2> DEFINE c == AccountAt(s, a)
             d == AccountAt(t, a)
  <2>1. Same(c, d)
    BY <1>2 DEF Covers, CoversAt
  <2> HIDE DEF c, d
  <2>2. (EIP158 /\ ~ c.unchanged /\ IsEmpty(c)) = (EIP158 /\ ~ d.unchanged /\ IsEmpty(d))
    BY <2>1 DEF Same, Touched
  <2>3. Seen(d) = Seen(c)
    BY <2>1, <2>2 DEF Same, Seen
  <2> QED BY <2>3 DEF c, d
<1> QED BY <1>1, <1>2 DEF World

LEMMA AlikeMild ==
    ASSUME NEW s, NEW t, Alike(s, t)
    PROVE  Mild(s, t)
BY DEF Alike, Mild

LEMMA LoadedExtends ==
    ASSUME NEW s, NEW base, Kept(s, base), NEW a \in Addresses
    PROVE  /\ Extends(s, Loaded(s, a), base) /\ Mild(s, Loaded(s, a))
           /\ Covers(s, Loaded(s, a))
<1> DEFINE t == Loaded(s, a)
<1>1. Sound(t) /\ Alike(s, t)
  BY LoadedDef DEF Kept
<1> HIDE DEF t
<1>2. Covers(s, t) /\ Mild(s, t) /\ t.log = s.log
  BY <1>1, AlikeCovers, AlikeMild DEF Alike
<1>3. Extends(s, t, base)
  BY <1>1, <1>2, QuietExtends
<1> QED BY <1>2, <1>3 DEF t

LEMMA ClearCacheSound ==
    ASSUME NEW s, Sound(s), NEW picked
    PROVE  LET t == ClearCache(s, picked) IN
           Sound(t) /\ t.log = s.log /\ t.trie = s.trie /\ Covers(s, t)
<1> DEFINE kept == {a \in DOMAIN s.cache : a \notin picked \/ ~ s.cache[a].unchanged}
           m == [a \in kept |-> s.cache[a]]
           w == s.clean \ picked
           t == ClearCache(s, picked)
<1>1. t = [s EXCEPT !.cache = m, !.clean = w]
  BY DEF ClearCache
<1>2. IsState(s) /\ \A a \in Addresses : FitAt(s, a) /\ UnwrittenAt(s, a)
  BY DEF Sound, Basic, AllUnwritten
<1>3. DOMAIN m = kept /\ \A a \in kept : m[a] = s.cache[a]
  OBVIOUS
<1> HIDE DEF t, m, w
<1>4. /\ t = [cache |-> t.cache, log |-> t.log, absent |-> t.absent, clean |-> t.clean,
              trie |-> t.trie]
      /\ t.cache = m /\ t.log = s.log /\ t.absent = s.absent /\ t.trie = s.trie
  BY <1>1, <1>2 DEF IsState
<1>5. IsState(t)
  BY <1>2, <1>3, <1>4 DEF IsState
<1>6. ASSUME NEW a \in Addresses
      PROVE  FitAt(t, a) /\ CoversAt(s, t, a) /\ UnwrittenAt(t, a)
  <2>0. FitAt(s, a) /\ UnwrittenAt(s, a)
    BY <1>2
  <2>1. CASE a \in DOMAIN s.cache /\ a \notin kept
    <3> DEFINE c == s.cache[a]
               d == FromTrie(s.trie[a])
    <3>1. /\ c.unchanged /\ Equals(c, s.trie[a]) /\ Formed(c) /\ a \notin s.absent
          /\ s.trie[a] # NoAccount
      BY <2>0, <2>1 DEF FitAt, AsCommitted, Equals
    <3>2. Formed(d) /\ d.unchanged = TRUE /\ Equals(d, s.trie[a]) /\ Unwritten(d)
      BY <2>0, <3>1, FromTrieDef DEF FitAt
    <3>3. a \notin DOMAIN t.cache /\ HasAccount(t, a) /\ AccountAt(t, a) = d
      BY <1>3, <1>4, <2>1, <3>1 DEF HasAccount, AccountAt
    <3>4. HasAccount(s, a) /\ AccountAt(s, a) = c /\ ~ Dirty(s, a)
      BY <2>1, <3>1 DEF HasAccount, AccountAt, Dirty
    <3> HIDE DEF c, d
    <3>5. Same(c, d)
      BY <3>1, <3>2 DEF Same, Equals, Formed, Touched
    <3> QED BY <1>4, <2>0, <3>1, <3>2, <3>3, <3>4, <3>5 DEF FitAt, CoversAt, UnwrittenAt
  <2>2. CASE a \notin DOMAIN s.cache \/ a \in kept
    <3>1. /\ a \in DOMAIN t.cache <=> a \in DOMAIN s.cache
          /\ a \in DOMAIN s.cache => t.cache[a] = s.cache[a]
      BY <1>3, <1>4, <2>2
    <3>2. FitAt(t, a)
      BY <1>4, <2>0, <3>1 DEF FitAt, AsCommitted
    <3>3. /\ HasAccount(s, a) <=> HasAccount(t, a)
          /\ HasAccount(s, a) => AccountAt(t, a) = AccountAt(s, a)
          /\ Dirty(s, a) <=> Dirty(t, a)
      BY <1>4, <3>1 DEF HasAccount, AccountAt, Dirty
    <3> QED BY <2>0, <3>2, <3>3, SameReflexive DEF CoversAt, UnwrittenAt
  <2> QED BY <2>1, <2>2
<1>7. Sound(t) /\ Covers(s, t)
  BY <1>4, <1>5, <1>6 DEF Sound, Basic, AllUnwritten, Covers
<1> QED BY <1>4, <1>7 DEF t

LEMMA ClearCacheExtends ==
    ASSUME NEW s, NEW base, Kept(s, base), NEW picked
    PROVE  LET t == ClearCache(s, picked) IN
           Extends(s, t, base) /\ t.log = s.log /\ Covers(s, t)
BY ClearCacheSound, QuietExtends DEF Kept

\* A changed account is changed again, and the log tells how to undo it.
LEMMA ReplaceExtends ==
    ASSUME NEW s, NEW base, Kept(s, base), NEW a \in Addresses, Dirty(s, a), NEW t, NEW e,
           IsState(t), Elsewhere(s, t, a), a \in DOMAIN t.cache, t.absent = s.absent,
           Formed(t.cache[a]), ~ t.cache[a].unchanged, Unwritten(t.cache[a]),
           t.log = Append(s.log, e), Entry(e, s.trie), e.address = a, ~ First(e),
           Same(s.cache[a], Undone(e, t.cache[a]))
    PROVE  /\ Extends(s, t, base) /\ Dirty(t, a)
           /\ \A b \in Addresses \ {a} :
                 /\ HasAccount(t, b) <=> HasAccount(s, b)
                 /\ HasAccount(s, b) => AccountAt(t, b) = AccountAt(s, b)
                 /\ Dirty(s, b) <=> Dirty(t, b)
                 /\ Balance(t, b) = Balance(s, b)
<1> DEFINE d == t.cache[a]
           u == Undo(e, t)
           f == Undone(e, d)
<1>1. Sound(s) /\ Basic(s) /\ FitAt(s, a) /\ a \in DOMAIN s.cache
  BY DEF Kept, Sound, Basic, Dirty
<1>2. a \notin t.absent
  BY <1>1 DEF FitAt
<1>3. /\ Sound(t) /\ Dirty(t, a)
      /\ \A b \in Addresses \ {a} :
            /\ HasAccount(t, b) <=> HasAccount(s, b)
            /\ HasAccount(s, b) => AccountAt(t, b) = AccountAt(s, b)
            /\ Dirty(s, b) <=> Dirty(t, b)
            /\ Balance(t, b) = Balance(s, b)
  BY <1>1, <1>2, ChangeSound
<1>4. e.kind \in Kinds /\ e.kind # "Create" /\ e.kind # "Touch" /\ e.kind \in Kinds \ {"Create"}
  BY DEF Entry, First
<1>5. /\ IsState(u) /\ Elsewhere(t, u, a) /\ a \in DOMAIN u.cache /\ u.cache[a] = f
      /\ UndoneAs(e, d, f)
  BY <1>3, <1>4, UndoDef, UndoneFields DEF Sound, Formed
<1>6. ~ f.unchanged
  BY <1>4, <1>5 DEF UndoneAs
<1>7. Elsewhere(s, u, a) /\ t.trie = s.trie
  BY <1>5, ElsewhereTransitive DEF Elsewhere
<1> HIDE DEF u, f, d
<1>8. CoversAt(s, u, a)
  BY <1>1, <1>5, <1>6 DEF CoversAt, HasAccount, AccountAt, Dirty, f, d
<1>9. Covers(s, u)
  BY <1>1, <1>5, <1>7, <1>8, Local
<1>10. Extends(s, t, base)
  BY <1>3, <1>4, <1>7, <1>9, LoggedExtends DEF u
<1> QED BY <1>3, <1>10

(***************************************************************************)
(* Transfers: nothing is created, and no account is overdrawn.             *)
(***************************************************************************)
LEMMA BalanceType ==
    ASSUME NEW s, Sound(s), NEW a \in Addresses
    PROVE  Balance(s, a) \in Int
<1>1. CASE HasAccount(s, a)
  BY <1>1, AccountFormed DEF Balance, Formed
<1>2. CASE ~ HasAccount(s, a)
  BY <1>2 DEF Balance
<1> QED BY <1>1, <1>2

LEMMA HeldAdd ==
    ASSUME NEW s, NEW t, NEW a \in Addresses, NEW x \in Int, Solvent(s),
           Balance(t, a) = Balance(s, a) + x, Balance(s, a) + x >= 0,
           \A b \in Addresses \ {a} : Balance(t, b) = Balance(s, b)
    PROVE  Solvent(t) /\ Held(t) = Held(s) + x
<1>1. Balance(s, a) \in Nat /\ Balance(t, a) \in Nat
  BY DEF Solvent
<1>2. Solvent(t)
  BY <1>1 DEF Solvent
<1>3. Held(t) = Held(s) + Balance(t, a) - Balance(s, a) /\ Held(s) \in Nat
  BY <1>2, HeldChange, HeldType
<1> QED BY <1>1, <1>2, <1>3

LEMMA SubBalanceExtends ==
    ASSUME NEW s, NEW base, Kept(s, base), NEW a \in Addresses, NEW v \in Nat
    PROVE  LET t == SubBalance(s, a, v) IN
           /\ Extends(s, t, base) /\ Mild(s, t)
           /\ Balance(t, a) = Balance(s, a) - v
           /\ \A b \in Addresses \ {a} : Balance(t, b) = Balance(s, b)
<1> DEFINE t == SubBalance(s, a, v)
<1>1. CASE v = 0
  <2>1. t = s
    BY <1>1 DEF SubBalance
  <2>2. Balance(s, a) \in Int
    BY BalanceType DEF Kept
  <2>3. Balance(s, a) = Balance(s, a) - v
    BY <1>1, <2>2
  <2> QED BY <2>1, <2>3, ExtendsReflexive, MildReflexive
<1>2. CASE v # 0
  <2>1. t = AddBalance(s, a, 0 - v) /\ 0 - v \in Int
    BY <1>2 DEF SubBalance
  <2>2. Balance(s, a) \in Int
    BY BalanceType DEF Kept
  <2> HIDE DEF t
  <2>3. /\ Extends(s, t, base) /\ Mild(s, t) /\ Balance(t, a) = Balance(s, a) + (0 - v)
        /\ \A b \in Addresses \ {a} : Balance(t, b) = Balance(s, b)
    BY <2>1, AddBalanceExtends
  <2>4. Balance(t, a) = Balance(s, a) - v
    BY <2>2, <2>3
  <2> QED BY <2>3, <2>4 DEF t
<1> QED BY <1>1, <1>2

LEMMA TransferExtends ==
    ASSUME NEW s, NEW base, Kept(s, base), NEW from \in Addresses, NEW to \in Addresses,
           NEW v \in Nat
    PROVE  LET t == TransferBalance(s, from, to, v) IN
           /\ Extends(s, t, base) /\ Mild(s, t) /\ Dirty(t, to)
           /\ Solvent(s) /\ Balance(s, from) >= v => Solvent(t) /\ Held(t) = Held(s)
<1> DEFINE m == SubBalance(s, from, v)
           t == AddBalance(m, to, v)
<1>1. /\ Extends(s, m, base) /\ Mild(s, m)
      /\ Balance(m, from) = Balance(s, from) - v
      /\ \A b \in Addresses \ {from} : Balance(m, b) = Balance(s, b)
  BY SubBalanceExtends
<1>2. Kept(m, base)
  BY <1>1 DEF Extends
<1> HIDE DEF m
<1>3. /\ Extends(m, t, base) /\ Mild(m, t) /\ Dirty(t, to)
      /\ Balance(t, to) = Balance(m, to) + v
      /\ \A b \in Addresses \ {to} : Balance(t, b) = Balance(m, b)
  BY <1>2, AddBalanceExtends
<1> HIDE DEF t
<1>4. Extends(s, t, base) /\ Mild(s, t)
  BY <1>1, <1>3, ExtendsTransitive, MildTransitive
<1>5. ASSUME Solvent(s), Balance(s, from) >= v
      PROVE  Solvent(t) /\ Held(t) = Held(s)
  <2>1. Balance(s, from) \in Nat /\ 0 - v \in Int /\ Held(s) \in Nat
    BY <1>5, HeldType DEF Solvent
  <2>2. Balance(m, from) = Balance(s, from) + (0 - v) /\ Balance(s, from) + (0 - v) >= 0
    BY <1>1, <1>5, <2>1
  <2>3. Solvent(m) /\ Held(m) = Held(s) + (0 - v)
    BY <1>1, <1>5, <2>1, <2>2, HeldAdd
  <2>4. Balance(m, to) \in Nat /\ Balance(m, to) + v >= 0 /\ v \in Int
    BY <2>3 DEF Solvent
  <2>5. Solvent(t) /\ Held(t) = Held(m) + v
    BY <1>3, <2>3, <2>4, HeldAdd
  <2> QED BY <2>1, <2>3, <2>5
<1> QED BY <1>3, <1>4, <1>5 DEF t, m, TransferBalance

\* ExtVM::suicide.
LEMMA SuicideExtends ==
    ASSUME NEW s, NEW base, Kept(s, base), NEW heir \in Addresses, NEW a \in Addresses,
           Solvent(s)
    PROVE  LET t == SetBalance(AddBalance(s, heir, Balance(s, a)), a, 0) IN
           Extends(s, t, base) /\ Mild(s, t) /\ Solvent(t) /\ Held(t) <= Held(s)
<1> DEFINE x == Balance(s, a)
           m == AddBalance(s, heir, x)
           l == Loaded(m, a)
           y == 0 - Balance(m, a)
           t == AddBalance(l, a, y)
<1>0. x \in Nat /\ x \in Int /\ Balance(s, heir) \in Nat /\ Held(s) \in Nat
  BY HeldType DEF Solvent
<1> HIDE DEF x
<1>1. /\ Extends(s, m, base) /\ Mild(s, m)
      /\ Balance(m, heir) = Balance(s, heir) + x
      /\ \A b \in Addresses \ {heir} : Balance(m, b) = Balance(s, b)
  BY <1>0, AddBalanceExtends
<1>2. Kept(m, base)
  BY <1>1 DEF Extends
<1> HIDE DEF m
<1>3. Extends(m, l, base) /\ Mild(m, l) /\ Covers(m, l)
  BY <1>2, LoadedExtends
<1>4. Kept(l, base) /\ \A b \in Addresses : Balance(l, b) = Balance(m, b)
  BY <1>3, CoversReads DEF Extends
<1> HIDE DEF l
<1>5. Balance(s, heir) + x >= 0
  BY <1>0
<1>6. Solvent(m) /\ Held(m) = Held(s) + x
  BY <1>0, <1>1, <1>5, HeldAdd
<1>7. Solvent(l) /\ Held(l) = Held(s) + x
  BY <1>4, <1>6, HeldSame DEF Solvent
<1>8. y \in Int /\ Balance(l, a) + y = 0 /\ y <= 0 - x
  <2>1. Balance(m, a) \in Nat
    BY <1>6 DEF Solvent
  <2>2. Balance(m, a) >= x
    <3>1. CASE a = heir
      BY <1>0, <1>1, <3>1
    <3>2. CASE a # heir
      BY <1>0, <1>1, <3>2 DEF x
    <3> QED BY <3>1, <3>2
  <2> QED BY <1>0, <1>4, <2>1, <2>2
<1> HIDE DEF y
<1>9. /\ Extends(l, t, base) /\ Mild(l, t) /\ Balance(t, a) = Balance(l, a) + y
      /\ \A b \in Addresses \ {a} : Balance(t, b) = Balance(l, b)
  BY <1>4, <1>8, AddBalanceExtends
<1> HIDE DEF t
<1>10. Balance(l, a) + y >= 0
  BY <1>8
<1>11. Solvent(t) /\ Held(t) = Held(l) + y
  BY <1>7, <1>8, <1>9, <1>10, HeldAdd
<1>12. Held(t) <= Held(s)
  BY <1>0, <1>7, <1>8, <1>11
<1>13. Extends(s, l, base) /\ Mild(s, l)
  BY <1>1, <1>3, ExtendsTransitive, MildTransitive
<1>14. Extends(s, t, base) /\ Mild(s, t)
  BY <1>9, <1>13, ExtendsTransitive, MildTransitive
<1> QED BY <1>11, <1>12, <1>14 DEF t, l, m, x, y, SetBalance

(***************************************************************************)
(* Nonces.                                                                 *)
(***************************************************************************)
Renonced(s, a, n) ==
    LET l == Loaded(s, a) IN
    Logged(Cached(l, a, [l.cache[a] EXCEPT !.nonce = n, !.unchanged = FALSE]),
           "Nonce", a, l.cache[a].nonce, NoKey)

LEMMA RenoncedDef ==
    ASSUME NEW s, Sound(s), NEW a \in Addresses, HasAccount(s, a), NEW n \in Nat,
           n # 0 \/ AccountAt(s, a).root = EmptyTrie
              \/ StorageOf(AccountAt(s, a)) = AccountAt(s, a).root
    PROVE  LET t == Renonced(s, a, n)
               c == AccountAt(s, a)
               d == t.cache[a]
           IN  /\ Sound(t) /\ IsState(t) /\ Elsewhere(s, t, a) /\ a \in DOMAIN t.cache
               /\ a \notin t.absent /\ Formed(d) /\ ~ d.unchanged /\ Unwritten(d)
               /\ d.nonce = n /\ d.balance = c.balance /\ d.code = c.code /\ d.root = c.root
               /\ d.overlay = c.overlay /\ d.alive = c.alive
               /\ t.log = Append(s.log, Line("Nonce", a, c.nonce, NoKey))
               /\ Dirty(t, a) /\ t.trie = s.trie
               /\ \A b \in Addresses : Balance(t, b) = Balance(s, b)
               /\ \A b \in Addresses \ {a} :
                     /\ HasAccount(t, b) <=> HasAccount(s, b)
                     /\ HasAccount(s, b) => AccountAt(t, b) = AccountAt(s, b)
                     /\ Dirty(s, b) <=> Dirty(t, b)
<1> DEFINE l == Loaded(s, a)
           c == AccountAt(s, a)
           w == [c EXCEPT !.nonce = n, !.unchanged = FALSE]
           m == Cached(l, a, w)
           t == Logged(m, "Nonce", a, c.nonce, NoKey)
<1>1. /\ Sound(l) /\ Alike(s, l) /\ Elsewhere(s, l, a) /\ l.cache[a] = c /\ a \notin l.absent
  BY LoadedDef
<1>2. t = Renonced(s, a, n)
  BY <1>1 DEF Renonced
<1>3. IsState(l) /\ l.log = s.log /\ l.trie = s.trie
  BY <1>1 DEF Alike, Sound, Basic
<1> HIDE DEF l
<1>4. Formed(c)
  BY AccountFormed
<1>5. /\ DOMAIN w = Fields /\ w.unchanged = FALSE /\ w.alive = c.alive /\ w.nonce = n
      /\ w.balance = c.balance /\ w.code = c.code /\ w.root = c.root
      /\ w.overlay = c.overlay
  BY <1>4 DEF Formed, Fields
<1> HIDE DEF w
<1>6. /\ IsState(m) /\ m.log = s.log /\ m.absent = l.absent /\ m.trie = s.trie
      /\ Elsewhere(l, m, a) /\ a \in DOMAIN m.cache /\ m.cache[a] = w
  BY <1>3, CachedDef, CachedElsewhere
<1> HIDE DEF m
<1>7. /\ IsState(t) /\ t.cache = m.cache /\ t.absent = m.absent /\ t.trie = m.trie
      /\ t.log = Append(s.log, Line("Nonce", a, c.nonce, NoKey))
  BY <1>6, LoggedDef
<1> HIDE DEF t, c
<1>8. Elsewhere(s, t, a) /\ a \in DOMAIN t.cache /\ t.cache[a] = w /\ a \notin t.absent
  BY <1>1, <1>6, <1>7 DEF Elsewhere
<1>9. StorageOf(w) = StorageOf(c)
  BY <1>5, StorageSame
<1>10. Formed(w) /\ Unwritten(w)
  <2>1. w.unchanged \in BOOLEAN
    BY <1>5, Zenon
  <2>2. Formed(w)
    BY <1>4, <1>5, <2>1 DEF Formed
  <2>3. Unwritten(w)
    BY <1>5, <1>9 DEF Unwritten, c
  <2> QED BY <2>2, <2>3
<1>11. /\ Sound(t) /\ Dirty(t, a) /\ HasAccount(t, a) /\ AccountAt(t, a) = w
       /\ \A b \in Addresses \ {a} :
             /\ HasAccount(t, b) <=> HasAccount(s, b)
             /\ HasAccount(s, b) => AccountAt(t, b) = AccountAt(s, b)
             /\ Dirty(s, b) <=> Dirty(t, b)
             /\ Balance(t, b) = Balance(s, b)
  BY <1>5, <1>7, <1>8, <1>10, ChangeSound
<1>12. Balance(t, a) = Balance(s, a)
  BY <1>5, <1>11 DEF Balance, c
<1>13. t.trie = s.trie /\ \A b \in Addresses : Balance(t, b) = Balance(s, b)
  BY <1>6, <1>7, <1>11, <1>12
<1> QED BY <1>2, <1>5, <1>7, <1>8, <1>10, <1>11, <1>13 DEF c

LEMMA RenoncedExtends ==
    ASSUME NEW s, NEW base, Kept(s, base), NEW a \in Addresses, Dirty(s, a), NEW n \in Nat,
           n # 0 \/ s.cache[a].root = EmptyTrie
              \/ StorageOf(s.cache[a]) = s.cache[a].root,
           EIP158 => n # 0
    PROVE  LET t == Renonced(s, a, n) IN
           /\ Extends(s, t, base) /\ Firm(s, t) /\ Dirty(t, a)
           /\ t.cache[a].nonce = n /\ t.cache[a].code = s.cache[a].code
           /\ t.cache[a].root = s.cache[a].root
           /\ StorageOf(t.cache[a]) = StorageOf(s.cache[a])
           /\ t.cache[a].balance = s.cache[a].balance /\ t.cache[a].alive = s.cache[a].alive
           /\ \A b \in Addresses : Balance(t, b) = Balance(s, b)
           /\ \A b \in Addresses \ {a} :
                 /\ HasAccount(t, b) <=> HasAccount(s, b)
                 /\ HasAccount(s, b) => AccountAt(t, b) = AccountAt(s, b)
<1> DEFINE t == Renonced(s, a, n)
           c == s.cache[a]
           d == t.cache[a]
           e == Line("Nonce", a, c.nonce, NoKey)
           f == Undone(e, d)
<1>1. Sound(s) /\ HasAccount(s, a) /\ AccountAt(s, a) = c /\ ~ c.unchanged /\ Formed(c)
  BY AccountFormed DEF Kept, Dirty, HasAccount, AccountAt
<1>2. /\ Sound(t) /\ IsState(t) /\ Elsewhere(s, t, a) /\ a \in DOMAIN t.cache
      /\ a \notin t.absent /\ Formed(d) /\ ~ d.unchanged /\ Unwritten(d)
      /\ d.nonce = n /\ d.balance = c.balance /\ d.code = c.code /\ d.root = c.root
      /\ d.overlay = c.overlay /\ d.alive = c.alive
      /\ t.log = Append(s.log, e)
      /\ Dirty(t, a) /\ t.trie = s.trie
      /\ \A b \in Addresses : Balance(t, b) = Balance(s, b)
      /\ \A b \in Addresses \ {a} :
            /\ HasAccount(t, b) <=> HasAccount(s, b)
            /\ HasAccount(s, b) => AccountAt(t, b) = AccountAt(s, b)
            /\ Dirty(s, b) <=> Dirty(t, b)
  BY <1>1, RenoncedDef
<1>3. e.kind = "Nonce" /\ e.address = a /\ e.value = c.nonce /\ e.kind \in Kinds \ {"Create"}
  BY LineDef DEF Kinds
<1>4. Entry(e, s.trie) /\ ~ First(e)
  BY <1>1, <1>3 DEF Entry, First, Formed, Kinds
<1> HIDE DEF e, t
<1>5. UndoneAs(e, d, f)
  BY <1>2, <1>3, UndoneFields DEF Formed
<1> HIDE DEF f
<1>6. /\ f.alive = c.alive /\ f.nonce = c.nonce /\ f.balance = c.balance /\ f.code = c.code
      /\ f.root = c.root /\ f.overlay = c.overlay /\ f.unchanged = FALSE
  BY <1>2, <1>3, <1>5 DEF UndoneAs
<1>7. StorageOf(f) = StorageOf(c) /\ StorageOf(d) = StorageOf(c)
  BY <1>2, <1>6, StorageSame
<1>8. Same(c, f)
  BY <1>1, <1>6, <1>7 DEF Same, Touched, IsEmpty
<1>9. Covers(s, Undo(e, t))
  <2> DEFINE u == Undo(e, t)
  <2>1. IsState(u) /\ Elsewhere(t, u, a) /\ a \in DOMAIN u.cache /\ u.cache[a] = f
    BY <1>2, <1>3, UndoDef DEF Sound, f
  <2>2. Elsewhere(s, u, a)
    BY <1>2, <2>1, ElsewhereTransitive
  <2> HIDE DEF u
  <2>3. CoversAt(s, u, a)
    BY <1>1, <1>6, <1>8, <2>1 DEF CoversAt, HasAccount, AccountAt, Dirty
  <2>4. Covers(s, u)
    BY <1>1, <2>1, <2>2, <2>3, Local DEF Sound
  <2> QED BY <2>4 DEF u
<1>10. Extends(s, t, base)
  <2>1. e.kind # "Touch" /\ Dirty(t, e.address)
    BY <1>2, <1>3
  <2> QED BY <1>2, <1>4, <1>9, <2>1, LoggedExtends
<1>11. Firm(s, t)
  <2> SUFFICES ASSUME NEW b \in Addresses, Dirty(s, b)
               PROVE  /\ Dirty(t, b) /\ t.cache[b].code = s.cache[b].code
                      /\ t.cache[b].root = s.cache[b].root \/ t.cache[b].root = EmptyTrie
                      /\ EIP158 /\ s.cache[b].nonce # 0 => t.cache[b].nonce # 0
    BY DEF Firm
  <2>1. CASE b = a
    BY <1>2, <2>1
  <2>2. CASE b # a
    BY <1>2, <2>2 DEF Elsewhere, Dirty
  <2> QED BY <2>1, <2>2
<1> QED BY <1>2, <1>7, <1>10, <1>11 DEF t

LEMMA NonceIs ==
    ASSUME NEW s, Sound(s), NEW a \in Addresses, HasAccount(s, a)
    PROVE  /\ IncNonce(s, a) = Renonced(s, a, AccountAt(s, a).nonce + 1)
           /\ \A n : SetNonce(s, a, n) = Renonced(s, a, n)
<1> DEFINE l == Loaded(s, a)
           c == AccountAt(s, a)
           m == l.cache[a]
<1>1. HasAccount(l, a) /\ m = c /\ Formed(c)
  BY LoadedDef, AccountFormed DEF Alike
<1>2. [m EXCEPT !.nonce = @ + 1, !.unchanged = FALSE]
         = [m EXCEPT !.nonce = c.nonce + 1, !.unchanged = FALSE]
  BY <1>1
<1> HIDE DEF l
<1>3. IncNonce(s, a) = Renonced(s, a, c.nonce + 1)
  BY <1>1, <1>2 DEF IncNonce, Renonced, l
<1>4. ASSUME NEW n PROVE SetNonce(s, a, n) = Renonced(s, a, n)
  BY <1>1 DEF SetNonce, Renonced, l
<1> QED BY <1>3, <1>4

\* The nonce of a sender, whatever is known of its account.
LEMMA IncNonceSound ==
    ASSUME NEW s, Sound(s), NEW a \in Addresses
    PROVE  LET t == IncNonce(s, a) IN
           Sound(t) /\ t.trie = s.trie /\ \A b \in Addresses : Balance(t, b) = Balance(s, b)
<1> DEFINE t == IncNonce(s, a)
<1>1. CASE HasAccount(s, a)
  <2>1. AccountAt(s, a).nonce \in Nat
    BY <1>1, AccountFormed DEF Formed
  <2>2. AccountAt(s, a).nonce + 1 \in Nat /\ AccountAt(s, a).nonce + 1 # 0
    BY <2>1
  <2> QED BY <1>1, <2>2, NonceIs, RenoncedDef
<1>2. CASE ~ HasAccount(s, a)
  <2> DEFINE l == Loaded(s, a)
             n == NewAccount(AccountStartNonce + 1, 0)
  <2>1. Sound(l) /\ Alike(s, l) /\ Elsewhere(s, l, a)
    BY LoadedDef
  <2>2. ~ HasAccount(l, a) /\ IsState(l)
    BY <1>2, <2>1 DEF Alike, Sound, Basic
  <2>3. t = CreateAccount(l, a, n)
    BY <2>2 DEF IncNonce
  <2>4. AccountStartNonce + 1 \in Nat /\ 0 \in Int
    BY StateAssumption
  <2>5. Formed(n) /\ ~ n.unchanged /\ Unwritten(n) /\ n.balance = 0
    BY <2>4, NewAccountDef
  <2> HIDE DEF l, n, t
  <2>6. /\ IsState(t) /\ Elsewhere(l, t, a) /\ a \in DOMAIN t.cache /\ t.cache[a] = n
        /\ a \notin t.absent
    BY <2>2, <2>3, CreateAccountDef
  <2>7. Elsewhere(s, t, a) /\ t.trie = s.trie
    BY <2>1, <2>6, ElsewhereTransitive DEF Elsewhere
  <2>8. /\ Sound(t) /\ HasAccount(t, a) /\ AccountAt(t, a) = n
        /\ \A b \in Addresses \ {a} : Balance(t, b) = Balance(s, b)
    BY <2>5, <2>6, <2>7, ChangeSound
  <2>9. Balance(t, a) = Balance(s, a)
    BY <1>2, <2>5, <2>8 DEF Balance
  <2> QED BY <2>7, <2>8, <2>9 DEF t
<1> QED BY <1>1, <1>2

(***************************************************************************)
(* Storage and code.                                                       *)
(***************************************************************************)
LEMMA StorageReadExtends ==
    ASSUME NEW s, NEW base, Kept(s, base), NEW a \in Addresses, NEW k \in Keys
    PROVE  LET t == StorageRead(s, a, k) IN
           /\ Extends(s, t, base) /\ Covers(s, t)
           /\ Dirty(s, a) => k \in DOMAIN t.cache[a].overlay
<1> DEFINE l == Loaded(s, a)
           c == AccountAt(s, a)
           v == StorageOf(c)[k]
           p == Put(c.overlay, k, v)
           w == [c EXCEPT !.overlay = p]
           t == StorageRead(s, a, k)
<1>1. /\ Sound(l) /\ Alike(s, l) /\ Elsewhere(s, l, a)
      /\ HasAccount(s, a) => l.cache[a] = c /\ a \in DOMAIN l.cache /\ a \notin l.absent
      /\ Sound(s)
  BY LoadedDef DEF Kept
<1>2. /\ IsState(l) /\ l.log = s.log /\ l.trie = s.trie /\ Basic(l) /\ Covers(s, l)
      /\ HasAccount(l, a) <=> HasAccount(s, a)
  BY <1>1, AlikeCovers DEF Alike, Sound, Basic
<1>3. CASE ~ HasAccount(s, a)
  <2>1. t = l
    BY <1>2, <1>3 DEF StorageRead
  <2>2. ~ Dirty(s, a)
    BY <1>3 DEF Dirty, HasAccount
  <2> QED BY <1>1, <1>2, <2>1, <2>2, QuietExtends
<1>4. CASE HasAccount(s, a)
  <2>1. t = Cached(l, a, w)
    BY <1>1, <1>2, <1>4 DEF StorageRead
  <2>2. Formed(c) /\ Unwritten(c)
    BY <1>1, <1>4, AccountFormed
  <2> HIDE DEF p
  <2>3. /\ DOMAIN w = Fields /\ w.unchanged = c.unchanged /\ w.alive = c.alive
        /\ w.nonce = c.nonce /\ w.balance = c.balance /\ w.code = c.code /\ w.root = c.root
        /\ w.overlay = p
    BY <2>2 DEF Formed, Fields
  <2> HIDE DEF w, v
  <2>4. StorageOf(w) = Stored(StorageOf(c), k, v)
    BY <2>3, OverlayPut DEF p
  <2>5. StorageOf(w) = StorageOf(c)
    BY <2>4 DEF Stored, v, StorageOf
  <2>6. k \in DOMAIN w.overlay
    BY <2>3 DEF p, Put
  <2> HIDE DEF t, l, c
  <2>7. /\ IsState(t) /\ t.log = s.log /\ t.absent = l.absent /\ t.trie = s.trie
        /\ Elsewhere(l, t, a) /\ a \in DOMAIN t.cache /\ t.cache[a] = w
    BY <1>2, <2>1, CachedDef, CachedElsewhere
  <2>8. Formed(w) /\ Unwritten(w) /\ Same(c, w)
    BY <2>2, <2>3, <2>5 DEF Formed, Unwritten, Same, Touched, IsEmpty
  <2>9. /\ a \in DOMAIN l.cache /\ l.cache[a] = c /\ FitAt(l, a) /\ a \notin l.absent
    BY <1>1, <1>2, <1>4 DEF Basic
  <2>10. HasAccount(t, a) /\ AccountAt(t, a) = w /\ HasAccount(l, a) /\ AccountAt(l, a) = c
    BY <2>7, <2>9 DEF HasAccount, AccountAt
  <2>11. FitAt(t, a) /\ UnwrittenAt(t, a)
    BY <1>2, <2>3, <2>5, <2>7, <2>8, <2>9, <2>10 DEF FitAt, UnwrittenAt, AsCommitted, Equals
  <2>12. CoversAt(l, t, a)
    BY <2>3, <2>7, <2>8, <2>9, <2>10 DEF CoversAt, Dirty
  <2>13. Sound(t) /\ Covers(l, t)
    BY <1>1, <1>2, <2>7, <2>11, <2>12, Local DEF Sound
  <2>14. Covers(s, t)
    BY <1>2, <2>13, CoversTransitive
  <2>15. Extends(s, t, base)
    BY <2>7, <2>13, <2>14, QuietExtends
  <2> QED BY <2>6, <2>7, <2>14, <2>15 DEF t
<1> QED BY <1>3, <1>4

LEMMA SetStorageExtends ==
    ASSUME NEW s0, NEW base, Kept(s0, base), NEW a \in Addresses, NEW k \in Keys, NEW v,
           Dirty(s0, a), s0.cache[a].code = EmptyCode => s0.cache[a].root = EmptyTrie
    PROVE  LET t == SetStorage(s0, a, k, v) IN
           /\ Extends(s0, t, base) /\ Firm(s0, t)
           /\ \A b \in Addresses : Balance(t, b) = Balance(s0, b)
<1> DEFINE s == StorageRead(s0, a, k)
           c == s.cache[a]
           old == c.overlay[k]
           e == Line("Storage", a, old, k)
           g == Logged(s, "Storage", a, old, k)
           p == Put(c.overlay, k, v)
           d == [c EXCEPT !.overlay = p, !.unchanged = FALSE]
           t == Cached(g, a, d)
           f == Undone(e, d)
<1>1. Extends(s0, s, base) /\ Covers(s0, s) /\ k \in DOMAIN c.overlay
  BY StorageReadExtends
<1>2. Kept(s, base) /\ Firm(s0, s) /\ \A b \in Addresses : Balance(s, b) = Balance(s0, b)
  BY <1>1, CoversFirm, CoversReads DEF Extends
<1>3. Dirty(s, a) /\ (c.code = EmptyCode => c.root = EmptyTrie)
  BY <1>2 DEF Firm
<1>4. /\ HasAccount(s, a) /\ CacheEntry(s, a) = c /\ AccountAt(s, a) = c
      /\ ~ c.unchanged /\ a \in DOMAIN s.cache
  BY <1>3 DEF Dirty, HasAccount, CacheEntry, AccountAt
<1>5. t = SetStorage(s0, a, k, v)
  BY <1>4 DEF SetStorage
<1>6. IsState(s) /\ Sound(s) /\ Formed(c) /\ FitAt(s, a)
  BY <1>2, <1>4, AccountFormed DEF Kept, Sound, Basic
<1> HIDE DEF s, p
<1>7. /\ DOMAIN d = Fields /\ d.unchanged = FALSE /\ d.alive = c.alive
      /\ d.nonce = c.nonce /\ d.balance = c.balance /\ d.code = c.code /\ d.root = c.root
      /\ d.overlay = p
  BY <1>6 DEF Formed, Fields
<1>8. e.kind = "Storage" /\ e.address = a /\ e.value = old /\ e.key = k
      /\ e.kind \in Kinds \ {"Create"}
  BY LineDef DEF Kinds
<1> HIDE DEF d, e, old
<1>9. /\ IsState(g) /\ g.cache = s.cache /\ g.log = Append(s.log, e) /\ g.absent = s.absent
      /\ g.trie = s.trie
  BY <1>6, LoggedDef DEF e
<1> HIDE DEF g
<1>10. /\ IsState(t) /\ t.log = Append(s.log, e) /\ t.absent = s.absent /\ t.trie = s.trie
       /\ Elsewhere(g, t, a) /\ a \in DOMAIN t.cache /\ t.cache[a] = d
  BY <1>9, CachedDef, CachedElsewhere
<1> HIDE DEF t
<1>11. Elsewhere(s, t, a)
  BY <1>9, <1>10 DEF Elsewhere
<1>12. Formed(d) /\ Unwritten(d)
  <2>1. d.unchanged \in BOOLEAN
    BY <1>7, Zenon
  <2> QED BY <1>3, <1>6, <1>7, <2>1 DEF Formed, Unwritten
<1>13. UndoneAs(e, d, f)
  BY <1>7, <1>8, UndoneFields
<1> HIDE DEF f
<1>14. /\ f.alive = c.alive /\ f.nonce = c.nonce /\ f.balance = c.balance /\ f.code = c.code
       /\ f.root = c.root /\ f.overlay = Put(d.overlay, k, old) /\ f.unchanged = FALSE
       /\ f.root = d.root
  BY <1>7, <1>8, <1>13 DEF UndoneAs
<1>15. StorageOf(f) = StorageOf(c)
  <2>1. StorageOf(d) = Stored(StorageOf(c), k, v)
    BY <1>7, OverlayPut DEF p
  <2>2. StorageOf(f) = Stored(StorageOf(d), k, old)
    BY <1>14, OverlayPut
  <2>3. StorageOf(c) = [x \in Keys |-> StorageOf(c)[x]] /\ StorageOf(c)[k] = old
    BY <1>1 DEF StorageOf, old
  <2>4. Stored(Stored(StorageOf(c), k, v), k, old) = [x \in Keys |-> StorageOf(c)[x]]
    BY <2>3 DEF Stored
  <2> QED BY <2>1, <2>2, <2>3, <2>4
<1>16. Same(c, f)
  BY <1>4, <1>14, <1>15 DEF Same, Touched, IsEmpty
<1>17. Entry(e, s.trie) /\ ~ First(e)
  BY <1>8 DEF Entry, First
<1>18. /\ Extends(s, t, base) /\ Dirty(t, a)
       /\ \A b \in Addresses \ {a} : Balance(t, b) = Balance(s, b)
  BY <1>2, <1>3, <1>7, <1>8, <1>10, <1>11, <1>12, <1>16, <1>17, ReplaceExtends DEF f
<1>19. Balance(t, a) = Balance(s, a)
  BY <1>4, <1>7, <1>10 DEF Balance, HasAccount, AccountAt
<1>20. Firm(s, t)
  <2> SUFFICES ASSUME NEW b \in Addresses, Dirty(s, b)
               PROVE  /\ Dirty(t, b) /\ t.cache[b].code = s.cache[b].code
                      /\ t.cache[b].root = s.cache[b].root \/ t.cache[b].root = EmptyTrie
                      /\ EIP158 /\ s.cache[b].nonce # 0 => t.cache[b].nonce # 0
    BY DEF Firm
  <2>1. CASE b = a
    BY <1>7, <1>10, <1>18, <2>1
  <2>2. CASE b # a
    BY <1>11, <2>2 DEF Elsewhere, Dirty
  <2> QED BY <2>1, <2>2
<1>21. Extends(s0, t, base) /\ Firm(s0, t)
  BY <1>1, <1>2, <1>18, <1>20, ExtendsTransitive, FirmTransitive
<1> QED BY <1>2, <1>5, <1>18, <1>19, <1>21

LEMMA DirtyDef ==
    ASSUME NEW s, Sound(s), NEW a \in Addresses, Dirty(s, a)
    PROVE  /\ IsState(s) /\ a \in DOMAIN s.cache /\ ~ s.cache[a].unchanged /\ a \notin s.absent
           /\ HasAccount(s, a) /\ AccountAt(s, a) = s.cache[a] /\ CacheEntry(s, a) = s.cache[a]
           /\ Loaded(s, a) = s /\ Formed(s.cache[a]) /\ Unwritten(s.cache[a])
           /\ Balance(s, a) = s.cache[a].balance
<1>1. IsState(s) /\ a \in DOMAIN s.cache /\ ~ s.cache[a].unchanged /\ FitAt(s, a)
  BY DEF Sound, Basic, Dirty
<1>2. HasAccount(s, a) /\ AccountAt(s, a) = s.cache[a]
  BY <1>1 DEF HasAccount, AccountAt
<1> QED BY <1>1, <1>2, AccountFormed DEF FitAt, CacheEntry, Loaded, Balance

LEMMA SetCodeExtends ==
    ASSUME NEW s, NEW base, Kept(s, base), NEW a \in Addresses, NEW code,
           Dirty(s, a), s.cache[a].root = EmptyTrie
    PROVE  LET t == SetCode(s, a, code)
               c == s.cache[a]
               d == t.cache[a]
           IN  /\ Extends(s, t, base) /\ Elsewhere(s, t, a) /\ Dirty(t, a)
               /\ d.alive = c.alive /\ d.nonce = c.nonce /\ d.balance = c.balance
               /\ d.root = c.root /\ StorageOf(d) = StorageOf(c)
               /\ \A b \in Addresses : Balance(t, b) = Balance(s, b)
<1> DEFINE c == s.cache[a]
           old == CodeAt(s, a)
           e == Line("Code", a, old, NoKey)
           g == Logged(s, "Code", a, old, NoKey)
           d == [c EXCEPT !.code = code]
           t == Cached(g, a, d)
           f == Undone(e, d)
<1>1. /\ Sound(s) /\ IsState(s) /\ Formed(c) /\ HasAccount(s, a) /\ AccountAt(s, a) = c
      /\ ~ c.unchanged
  BY DirtyDef DEF Kept
<1>2. t = SetCode(s, a, code) /\ old = c.code
  BY <1>1, DirtyDef DEF SetCode, CodeAt
<1>3. /\ DOMAIN d = Fields /\ d.unchanged = c.unchanged /\ d.alive = c.alive
      /\ d.nonce = c.nonce /\ d.balance = c.balance /\ d.code = code /\ d.root = c.root
      /\ d.overlay = c.overlay
  BY <1>1 DEF Formed, Fields
<1>4. e.kind = "Code" /\ e.address = a /\ e.value = old /\ e.kind \in Kinds \ {"Create"}
  BY LineDef DEF Kinds
<1> HIDE DEF d, e, old
<1>5. /\ IsState(g) /\ g.cache = s.cache /\ g.log = Append(s.log, e) /\ g.absent = s.absent
      /\ g.trie = s.trie
  BY <1>1, LoggedDef DEF e
<1> HIDE DEF g
<1>6. /\ IsState(t) /\ t.log = Append(s.log, e) /\ t.absent = s.absent /\ t.trie = s.trie
      /\ Elsewhere(g, t, a) /\ a \in DOMAIN t.cache /\ t.cache[a] = d
  BY <1>5, CachedDef, CachedElsewhere
<1> HIDE DEF t
<1>7. Elsewhere(s, t, a)
  BY <1>5, <1>6 DEF Elsewhere
<1>8. Formed(d) /\ Unwritten(d) /\ ~ d.unchanged
  BY <1>1, <1>3 DEF Formed, Unwritten
<1>9. UndoneAs(e, d, f)
  BY <1>3, <1>4, UndoneFields
<1> HIDE DEF f
<1>10. /\ f.alive = c.alive /\ f.nonce = c.nonce /\ f.balance = c.balance /\ f.code = c.code
       /\ f.root = c.root /\ f.overlay = c.overlay /\ f.unchanged = c.unchanged
  BY <1>2, <1>3, <1>4, <1>9 DEF UndoneAs
<1>11. StorageOf(f) = StorageOf(c) /\ StorageOf(d) = StorageOf(c)
  BY <1>3, <1>10, StorageSame
<1>12. Same(c, f)
  BY <1>10, <1>11 DEF Same, Touched, IsEmpty
<1>13. Entry(e, s.trie) /\ ~ First(e)
  BY <1>4 DEF Entry, First
<1>14. /\ Extends(s, t, base) /\ Dirty(t, a)
       /\ \A b \in Addresses \ {a} : Balance(t, b) = Balance(s, b)
  BY <1>4, <1>6, <1>7, <1>8, <1>12, <1>13, ReplaceExtends DEF f
<1>15. Balance(t, a) = Balance(s, a)
  BY <1>1, <1>3, <1>6 DEF Balance, HasAccount, AccountAt
<1> QED BY <1>2, <1>3, <1>6, <1>7, <1>11, <1>14, <1>15

\* The start of go() on a new contract.
LEMMA ClearStorageExtends ==
    ASSUME NEW s, NEW base, Kept(s, base), NEW a \in Addresses, Dirty(s, a),
           s.cache[a].root = EmptyTrie \/ StorageOf(s.cache[a]) = s.cache[a].root
    PROVE  LET t == ClearStorage(s, a) IN
           /\ Extends(s, t, base) /\ Firm(s, t) /\ Dirty(t, a)
           /\ t.cache[a].root = EmptyTrie /\ t.cache[a].nonce = s.cache[a].nonce
           /\ \A b \in Addresses : Balance(t, b) = Balance(s, b)
<1> DEFINE c == s.cache[a]
           t == ClearStorage(s, a)
<1>1. /\ Sound(s) /\ IsState(s) /\ Formed(c) /\ HasAccount(s, a) /\ AccountAt(s, a) = c
      /\ ~ c.unchanged /\ CacheEntry(s, a) = c /\ a \notin s.absent /\ Unwritten(c)
      /\ a \in DOMAIN s.cache
  BY DirtyDef DEF Kept
<1>2. CASE c.root = EmptyTrie
  <2>1. t = Cached(s, a, c)
    BY <1>1, <1>2 DEF ClearStorage
  <2> HIDE DEF t
  <2>2. /\ IsState(t) /\ t.log = s.log /\ t.absent = s.absent /\ t.trie = s.trie
        /\ Elsewhere(s, t, a) /\ a \in DOMAIN t.cache /\ t.cache[a] = c
    BY <1>1, <2>1, CachedDef, CachedElsewhere
  <2>3. /\ Sound(t) /\ Dirty(t, a) /\ HasAccount(t, a) /\ AccountAt(t, a) = c
        /\ \A b \in Addresses \ {a} :
              /\ HasAccount(t, b) <=> HasAccount(s, b)
              /\ HasAccount(s, b) => AccountAt(t, b) = AccountAt(s, b)
              /\ Dirty(s, b) <=> Dirty(t, b)
    BY <1>1, <2>2, ChangeSound
  <2>4. Alike(s, t)
    BY <1>1, <2>2, <2>3 DEF Alike
  <2>5. Covers(s, t)
    BY <2>4, AlikeCovers
  <2> QED BY <1>2, <2>2, <2>3, <2>5, QuietExtends, CoversFirm, CoversReads DEF t
<1>3. CASE c.root # EmptyTrie
  <2> DEFINE e == Line("StorageRoot", a, c.root, NoKey)
             g == Logged(s, "StorageRoot", a, c.root, NoKey)
             d == [c EXCEPT !.overlay = <<>>, !.root = EmptyTrie, !.unchanged = FALSE]
             f == Undone(e, d)
  <2>2. t = Cached(g, a, d)
    BY <1>1, <1>3 DEF ClearStorage
  <2>3. /\ DOMAIN d = Fields /\ d.unchanged = FALSE /\ d.alive = c.alive
        /\ d.nonce = c.nonce /\ d.balance = c.balance /\ d.code = c.code
        /\ d.root = EmptyTrie /\ d.overlay = <<>>
    BY <1>1 DEF Formed, Fields
  <2>4. /\ e.kind = "StorageRoot" /\ e.address = a /\ e.value = c.root
        /\ e.kind \in Kinds \ {"Create"}
    BY LineDef DEF Kinds
  <2> HIDE DEF d, e
  <2>5. /\ IsState(g) /\ g.cache = s.cache /\ g.log = Append(s.log, e) /\ g.absent = s.absent
        /\ g.trie = s.trie
    BY <1>1, LoggedDef DEF e
  <2> HIDE DEF g, t
  <2>6. /\ IsState(t) /\ t.log = Append(s.log, e) /\ t.absent = s.absent /\ t.trie = s.trie
        /\ Elsewhere(g, t, a) /\ a \in DOMAIN t.cache /\ t.cache[a] = d
    BY <2>2, <2>5, CachedDef, CachedElsewhere
  <2>7. Elsewhere(s, t, a)
    BY <2>5, <2>6 DEF Elsewhere
  <2>8. Formed(d) /\ Unwritten(d) /\ ~ d.unchanged
    <3>1. d.unchanged \in BOOLEAN
      BY <2>3, Zenon
    <3>2. IsStorage(EmptyTrie)
      BY DEF IsStorage, EmptyTrie
    <3> QED BY <1>1, <2>3, <3>1, <3>2 DEF Formed, Unwritten
  <2>9. UndoneAs(e, d, f)
    BY <2>3, <2>4, UndoneFields
  <2> HIDE DEF f
  <2>10. /\ f.alive = c.alive /\ f.nonce = c.nonce /\ f.balance = c.balance
         /\ f.code = c.code /\ f.root = c.root /\ f.overlay = <<>> /\ f.unchanged = FALSE
    BY <2>3, <2>4, <2>9 DEF UndoneAs
  <2>11. StorageOf(f) = StorageOf(c)
    BY <1>1, <1>3, <2>10, OverlayNone DEF Formed
  <2>12. Same(c, f)
    BY <1>1, <2>10, <2>11 DEF Same, Touched, IsEmpty
  <2>13. Entry(e, s.trie) /\ ~ First(e)
    BY <1>1, <2>4 DEF Entry, First, Formed
  <2>14. /\ Extends(s, t, base) /\ Dirty(t, a)
         /\ \A b \in Addresses \ {a} : Balance(t, b) = Balance(s, b)
    BY <2>4, <2>6, <2>7, <2>8, <2>12, <2>13, ReplaceExtends DEF f
  <2>15. Balance(t, a) = Balance(s, a)
    BY <1>1, <2>3, <2>6 DEF Balance, HasAccount, AccountAt
  <2>16. Firm(s, t)
    <3> SUFFICES ASSUME NEW b \in Addresses, Dirty(s, b)
                 PROVE  /\ Dirty(t, b) /\ t.cache[b].code = s.cache[b].code
                        /\ t.cache[b].root = s.cache[b].root \/ t.cache[b].root = EmptyTrie
                        /\ EIP158 /\ s.cache[b].nonce # 0 => t.cache[b].nonce # 0
      BY DEF Firm
    <3>1. CASE b = a
      BY <2>3, <2>6, <2>14, <3>1
    <3>2. CASE b # a
      BY <2>7, <3>2 DEF Elsewhere, Dirty
    <3> QED BY <3>1, <3>2
  <2> QED BY <2>3, <2>6, <2>14, <2>15, <2>16 DEF t
<1> QED BY <1>2, <1>3

(***************************************************************************)
(* Executive::executeCreate at an address not in use.                      *)
(***************************************************************************)
LEMMA EndowedExtends ==
    ASSUME NEW s, NEW base, Kept(s, base), NEW from \in Addresses, NEW a \in Addresses,
           NEW v \in Nat, ~ AlreadyUsed(s, a)
    PROVE  LET t == Endowed(s, from, a, v) IN
           /\ Extends(s, t, base) /\ Firm(s, t) /\ Dirty(t, a)
           /\ EIP158 => t.cache[a].nonce # 0
           /\ t.cache[a].root = EmptyTrie \/ StorageOf(t.cache[a]) = t.cache[a].root
           /\ Solvent(s) /\ Balance(s, from) >= v => Solvent(t) /\ Held(t) = Held(s)
<1> DEFINE m == TransferBalance(s, from, a, v)
           n == AccountStartNonce + IF EIP158 THEN 1 ELSE 0
           t == SetNonce(m, a, n)
           c == m.cache[a]
<1>1. /\ Extends(s, m, base) /\ Mild(s, m) /\ Dirty(m, a)
      /\ Solvent(s) /\ Balance(s, from) >= v => Solvent(m) /\ Held(m) = Held(s)
  BY TransferExtends
<1>2. n \in Nat /\ (EIP158 => n # 0)
  BY StateAssumption, ExecutionAssumption
<1> HIDE DEF m, n
<1>3. Kept(m, base) /\ Sound(m) /\ Firm(s, m) /\ Sound(s)
  BY <1>1, MildFirm DEF Extends, Kept
<1>4. HasAccount(m, a) /\ AccountAt(m, a) = c
  BY <1>1, <1>3, DirtyDef
<1>5. c.root = EmptyTrie \/ StorageOf(c) = c.root
  <2>1. CASE ~ HasAccount(s, a)
    BY <1>1, <1>4, <2>1 DEF Mild
  <2>2. CASE HasAccount(s, a)
    <3> DEFINE b == AccountAt(s, a)
    <3>1. b.code = EmptyCode /\ ~ b.nonce > 0
      BY <2>2 DEF AlreadyUsed, AddressHasCode, CodeAt, GetNonce
    <3>2. Formed(b) /\ Unwritten(b)
      BY <1>3, <2>2, AccountFormed
    <3>3. b.nonce = 0
      BY <3>1, <3>2 DEF Formed
    <3>4. c.root = b.root /\ StorageOf(c) = StorageOf(b)
      BY <1>1, <1>4, <2>2 DEF Mild
    <3> QED BY <3>1, <3>2, <3>3, <3>4 DEF Unwritten
  <2> QED BY <2>1, <2>2
<1>6. t = Renonced(m, a, n)
  BY <1>3, <1>4, NonceIs
<1> HIDE DEF t
<1>7. /\ Extends(m, t, base) /\ Firm(m, t) /\ Dirty(t, a) /\ t.cache[a].nonce = n
      /\ t.cache[a].root = c.root /\ StorageOf(t.cache[a]) = StorageOf(c)
      /\ \A b \in Addresses : Balance(t, b) = Balance(m, b)
  BY <1>1, <1>2, <1>3, <1>5, <1>6, RenoncedExtends
<1>8. Extends(s, t, base) /\ Firm(s, t)
  BY <1>1, <1>3, <1>7, ExtendsTransitive, FirmTransitive
<1>9. Solvent(m) => Solvent(t) /\ Held(t) = Held(m)
  BY <1>7, HeldSame DEF Solvent
<1> QED BY <1>1, <1>2, <1>5, <1>7, <1>8, <1>9 DEF t, m, n, Endowed

LEMMA CreatedExtends ==
    ASSUME NEW s, NEW base, Kept(s, base), NEW from \in Addresses, NEW a \in Addresses,
           NEW v \in Nat, ~ AlreadyUsed(s, a)
    PROVE  LET t == ClearStorage(Endowed(s, from, a, v), a) IN
           /\ Extends(s, t, base) /\ Firm(s, t) /\ Dirty(t, a)
           /\ t.cache[a].root = EmptyTrie /\ (EIP158 => t.cache[a].nonce # 0)
           /\ Solvent(s) /\ Balance(s, from) >= v => Solvent(t) /\ Held(t) = Held(s)
<1> DEFINE m == Endowed(s, from, a, v)
           t == ClearStorage(m, a)
<1>1. /\ Extends(s, m, base) /\ Firm(s, m) /\ Dirty(m, a)
      /\ EIP158 => m.cache[a].nonce # 0
      /\ m.cache[a].root = EmptyTrie \/ StorageOf(m.cache[a]) = m.cache[a].root
      /\ Solvent(s) /\ Balance(s, from) >= v => Solvent(m) /\ Held(m) = Held(s)
  BY EndowedExtends
<1> HIDE DEF m
<1>2. Kept(m, base)
  BY <1>1 DEF Extends
<1>3. /\ Extends(m, t, base) /\ Firm(m, t) /\ Dirty(t, a)
      /\ t.cache[a].root = EmptyTrie /\ t.cache[a].nonce = m.cache[a].nonce
      /\ \A b \in Addresses : Balance(t, b) = Balance(m, b)
  BY <1>1, <1>2, ClearStorageExtends
<1> HIDE DEF t
<1>4. Extends(s, t, base) /\ Firm(s, t)
  BY <1>1, <1>3, ExtendsTransitive, FirmTransitive
<1>5. Solvent(m) => Solvent(t) /\ Held(t) = Held(m)
  BY <1>3, HeldSame DEF Solvent
<1> QED BY <1>1, <1>3, <1>4, <1>5 DEF t, m

(***************************************************************************)
(* The frames, as the state moves on under them.                           *)
(***************************************************************************)
LEMMA GasPaid == TxGas * GasPrice \in Nat
BY ExecutionAssumption

LEMMA FundedSolvent ==
    ASSUME NEW s, Sound(s), NEW gas, Funded(s, gas)
    PROVE  Solvent(s) /\ Held(s) \in Nat
BY BalanceType, HeldType DEF Funded, Solvent

LEMMA SolventFunded ==
    ASSUME NEW s, NEW gas, Solvent(s), Held(s) + gas <= Supply
    PROVE  Funded(s, gas)
BY DEF Funded, Solvent

LEMMA CoversFunded ==
    ASSUME NEW s, NEW t, Covers(s, t), NEW gas, Funded(s, gas)
    PROVE  Funded(t, gas)
<1>1. \A b \in Addresses : Balance(t, b) = Balance(s, b)
  BY CoversReads
<1>2. Held(t) = Held(s)
  BY <1>1, HeldSame
<1> QED BY <1>1, <1>2 DEF Funded

\* Of the frames fs over s, those gs that are left over t.
Carried(s, t, fs, gs, j) ==
    /\ gs[j].addr = fs[j].addr /\ gs[j].create = fs[j].create
    /\ gs[j].savepoint = fs[j].savepoint /\ gs[j].savepoint <= Len(t.log)
    /\ Covers(Level(s, gs[j].savepoint), Level(t, gs[j].savepoint))
    /\ Safe(t, gs[j])

LEMMA FramesCarried ==
    ASSUME NEW s, NEW t, NEW fs, NEW sv, FramesOK(s, fs, sv), Len(t.log) \in Nat,
           NEW gs \in Seq(FrameRecord), NEW tv, tv \in Seq(RangeOf(tv)), Len(tv) = Len(gs),
           gs # <<>>, Len(gs) <= Len(fs),
           \A j \in 1..Len(gs) : Carried(s, t, fs, gs, j) /\ tv[j] = sv[j],
           \A j \in 1..Len(gs) - 1 : gs[j].suicides = fs[j].suicides
    PROVE  FramesOK(t, gs, tv) /\ BaseOf(t, gs) = BaseOf(s, fs)
<1>1. Len(gs) \in Nat /\ Len(fs) \in Nat /\ Len(gs) >= 1 /\ fs # <<>>
  BY DEF FramesOK
<1>2. BaseOf(t, gs) = BaseOf(s, fs)
  <2>1. 1 \in 1..Len(gs)
    BY <1>1
  <2> QED BY <1>1, <2>1 DEF BaseOf, Carried
<1>3. ASSUME NEW j \in 1..Len(gs)
      PROVE  FrameOK(t, gs, tv, j)
  <2> DEFINE p == gs[j].savepoint
             ls == Level(s, p)
             lt == Level(t, p)
  <2>1. j \in 1..Len(fs) /\ FrameOK(s, fs, sv, j) /\ Carried(s, t, fs, gs, j)
    BY <1>1 DEF FramesOK
  <2>2. p = fs[j].savepoint /\ Covers(ls, lt) /\ Safe(t, gs[j]) /\ p <= Len(t.log)
    BY <2>1 DEF Carried
  <2>3. /\ p \in BaseOf(s, fs)..Len(s.log)
        /\ \A i \in 1..j - 1 : fs[i].savepoint <= p /\ Safe(ls, fs[i])
        /\ Funded(ls, TxGas * GasPrice)
        /\ sv[j] = [world |-> World(ls), effects |-> Pending(fs, j - 1)]
    BY <2>1, <2>2 DEF FrameOK
  <2> HIDE DEF ls, lt
  <2>4. p \in BaseOf(t, gs)..Len(t.log)
    BY <1>2, <2>2, <2>3
  <2>5. ASSUME NEW i \in 1..j - 1
        PROVE  gs[i].savepoint <= p /\ Safe(lt, gs[i])
    <3>1. i \in 1..Len(gs) /\ i \in 1..Len(fs)
      BY <1>1
    <3>2. Carried(s, t, fs, gs, i) /\ fs[i] \in FrameRecord
      BY <3>1 DEF FramesOK
    <3>3. fs[i].addr \in Addresses
      BY <3>2 DEF FrameRecord
    <3>4. Safe(lt, fs[i]) /\ fs[i].savepoint <= p
      BY <2>2, <2>3, <3>3, CoversFirm, FirmSafe
    <3> QED BY <3>2, <3>4 DEF Carried, Safe
  <2>6. Funded(lt, TxGas * GasPrice) /\ World(lt) = World(ls)
    BY <2>2, <2>3, CoversFunded, CoversWorld
  <2>7. Pending(gs, j - 1) = Pending(fs, j - 1)
    <3>1. \A i \in 1..j - 1 : gs[i].suicides = fs[i].suicides
      BY <1>1
    <3> QED BY <3>1 DEF Pending
  <2>8. tv[j] = [world |-> World(lt), effects |-> Pending(gs, j - 1)]
    BY <2>3, <2>6, <2>7
  <2> QED BY <2>2, <2>4, <2>5, <2>6, <2>8 DEF FrameOK, lt
<1> QED BY <1>2, <1>3 DEF FramesOK

Safer(s, t, fs) == \A j \in 1..Len(fs) : Safe(s, fs[j]) => Safe(t, fs[j])

LEMMA FirmSafer ==
    ASSUME NEW s, NEW t, Firm(s, t), NEW fs \in Seq(FrameRecord)
    PROVE  Safer(s, t, fs)
<1> SUFFICES ASSUME NEW j \in 1..Len(fs), Safe(s, fs[j]) PROVE Safe(t, fs[j])
  BY DEF Safer
<1>1. fs[j] \in FrameRecord
  OBVIOUS
<1>2. fs[j].addr \in Addresses
  BY <1>1 DEF FrameRecord
<1> QED BY <1>2, FirmSafe

LEMMA FramesExtend ==
    ASSUME NEW s, NEW t, NEW fs, NEW sv, fs # <<>>, FramesOK(s, fs, sv),
           Kept(s, BaseOf(s, fs)), Extends(s, t, BaseOf(s, fs)), Safer(s, t, fs)
    PROVE  FramesOK(t, fs, sv) /\ BaseOf(t, fs) = BaseOf(s, fs)
<1>1. Len(t.log) \in Nat /\ Len(s.log) \in Nat /\ Len(s.log) <= Len(t.log)
  BY Levels DEF Extends
<1>2. ASSUME NEW j \in 1..Len(fs) PROVE Carried(s, t, fs, fs, j)
  <2>1. fs[j].savepoint \in BaseOf(s, fs)..Len(s.log) /\ Safe(s, fs[j])
    BY DEF FramesOK, FrameOK
  <2>2. BaseOf(s, fs) \in Nat
    BY Levels
  <2>3. Covers(Level(s, fs[j].savepoint), Level(t, fs[j].savepoint))
    BY <2>1 DEF Extends
  <2>4. fs[j].savepoint <= Len(t.log)
    BY <1>1, <2>1, <2>2
  <2> QED BY <2>1, <2>3, <2>4 DEF Carried, Safer
<1>3. fs \in Seq(FrameRecord) /\ sv \in Seq(RangeOf(sv)) /\ Len(sv) = Len(fs)
      /\ Len(fs) \in Nat
  BY DEF FramesOK
<1>4. Len(fs) <= Len(fs)
  BY <1>3
<1> QED BY <1>1, <1>2, <1>3, <1>4, FramesCarried

(***************************************************************************)
(* A frame begins over cs, and its code over t.                            *)
(***************************************************************************)
LEMMA FramesOpen ==
    ASSUME NEW cs, NEW t, NEW fs, NEW sv, NEW f \in FrameRecord, NEW x,
           FramesOK(cs, fs, sv), Kept(cs, BaseOf(cs, fs)), Extends(cs, t, BaseOf(cs, fs)),
           Firm(cs, t), Funded(cs, TxGas * GasPrice), Safe(t, f),
           f.savepoint = Len(cs.log), x = [world |-> World(cs), effects |-> Pending(fs, Len(fs))]
    PROVE  /\ FramesOK(t, Append(fs, f), Append(sv, x))
           /\ BaseOf(t, Append(fs, f)) = BaseOf(cs, fs)
<1> DEFINE gs == Append(fs, f)
           tv == Append(sv, x)
           n == Len(fs)
           base == BaseOf(cs, fs)
<1>1. /\ fs \in Seq(FrameRecord) /\ sv \in Seq(RangeOf(sv)) /\ Len(sv) = n /\ n \in Nat
      /\ Len(cs.log) \in Nat /\ Len(t.log) \in Nat /\ Len(cs.log) <= Len(t.log) /\ base \in Nat
      /\ base <= Len(cs.log)
  BY Levels DEF FramesOK, Extends
<1>2. /\ gs \in Seq(FrameRecord) /\ Len(gs) = n + 1 /\ gs[n + 1] = f
      /\ \A j \in 1..n : gs[j] = fs[j]
  BY <1>1
<1>3. /\ tv \in Seq(RangeOf(tv)) /\ Len(tv) = n + 1
  BY <1>1, LogAppend
<1>4. /\ tv[n + 1] = x /\ \A j \in 1..n : tv[j] = sv[j]
  BY <1>1
<1> HIDE DEF gs, tv, n
<1>5. gs # <<>>
  BY <1>1, <1>2
<1>6. BaseOf(t, gs) = base
  <2>1. CASE fs = <<>>
    <3>1. n = 0
      BY <2>1 DEF n
    <3> QED BY <1>2, <1>5, <2>1, <3>1 DEF BaseOf
  <2>2. CASE fs # <<>>
    <3>1. 1 \in 1..n
      BY <1>1, <2>2 DEF n
    <3> QED BY <1>2, <1>5, <2>2, <3>1 DEF BaseOf
  <2> QED BY <2>1, <2>2
<1>8. ASSUME NEW k \in 0..n PROVE Pending(gs, k) = Pending(fs, k)
  <2>1. \A i \in 1..k : gs[i] = fs[i]
    BY <1>1, <1>2
  <2> QED BY <2>1 DEF Pending
<1>9. ASSUME NEW j \in 1..n PROVE FrameOK(t, gs, tv, j)
  <2>1. fs # <<>>
    BY <1>1 DEF n
  <2>2. Safer(cs, t, fs)
    BY <1>1, FirmSafer
  <2>3. FramesOK(t, fs, sv) /\ BaseOf(t, fs) = base
    BY <2>1, <2>2, FramesExtend
  <2>4. FrameOK(t, fs, sv, j)
    BY <2>3 DEF FramesOK, n
  <2>5. Pending(gs, j - 1) = Pending(fs, j - 1)
    <3>1. j - 1 \in 0..n
      BY <1>1
    <3> QED BY <1>8, <3>1
  <2>6. gs[j] = fs[j] /\ tv[j] = sv[j] /\ \A i \in 1..j - 1 : gs[i] = fs[i]
    BY <1>1, <1>2, <1>4
  <2> QED BY <1>6, <2>3, <2>4, <2>5, <2>6 DEF FrameOK
<1>10. FrameOK(t, gs, tv, n + 1)
  <2> DEFINE p == Len(cs.log)
             lt == Level(t, p)
  <2>1. gs[n + 1].savepoint = p /\ n + 1 \in 1..n + 1 /\ n + 1 - 1 = n /\ n \in 0..n
    BY <1>1, <1>2
  <2>2. p \in base..Len(t.log) /\ p \in base..Len(cs.log)
    BY <1>1
  <2>3. Covers(cs, lt)
    <3>1. Level(cs, p) = cs
      BY <1>1, LevelDef
    <3> QED BY <2>2, <3>1 DEF Extends
  <2> HIDE DEF lt
  <2>4. ASSUME NEW i \in 1..n PROVE gs[i].savepoint <= p /\ Safe(lt, gs[i])
    <3>1. FrameOK(cs, fs, sv, i) /\ fs[i] \in FrameRecord
      BY <1>1 DEF FramesOK, n
    <3>2. fs[i].addr \in Addresses /\ Safe(cs, fs[i]) /\ fs[i].savepoint \in base..p
      BY <3>1 DEF FrameRecord, FrameOK
    <3>3. Safe(lt, fs[i])
      BY <2>3, <3>2, CoversFirm, FirmSafe
    <3> QED BY <1>1, <1>2, <3>2, <3>3
  <2>5. Funded(lt, TxGas * GasPrice) /\ World(lt) = World(cs)
    BY <2>3, CoversFunded, CoversWorld
  <2>6. Pending(gs, n) = Pending(fs, n)
    BY <1>8, <2>1
  <2>7. tv[n + 1] = [world |-> World(lt), effects |-> Pending(gs, n)]
    BY <1>4, <2>5, <2>6 DEF n
  <2> QED BY <1>2, <1>6, <2>1, <2>2, <2>4, <2>5, <2>7 DEF FrameOK, lt
<1>11. \A j \in 1..n + 1 : j \in 1..n \/ j = n + 1
  BY <1>1
<1>12. \A j \in 1..n + 1 : FrameOK(t, gs, tv, j)
  BY <1>9, <1>10, <1>11
<1> QED BY <1>2, <1>3, <1>6, <1>12 DEF FramesOK, gs, tv

(***************************************************************************)
(* The innermost frame ends, and its caller accrues what it leaves.        *)
(***************************************************************************)
Popped(fs, leave) ==
    [SubSeq(fs, 1, Len(fs) - 1) EXCEPT ![Len(fs) - 1].suicides = @ \cup leave]

LEMMA FrontDef ==
    ASSUME NEW S, NEW l \in Seq(S), l # <<>>
    PROVE  LET m == SubSeq(l, 1, Len(l) - 1) IN
           /\ Len(l) \in Nat /\ Len(l) >= 1 /\ Len(l) - 1 \in Nat
           /\ m \in Seq(S) /\ Len(m) = Len(l) - 1 /\ m \in Seq(RangeOf(m))
           /\ \A j \in 1..Len(l) - 1 : m[j] = l[j]
<1> DEFINE m == SubSeq(l, 1, Len(l) - 1)
<1>1. Len(l) \in Nat /\ Len(l) >= 1 /\ Len(l) - 1 \in Nat
  OBVIOUS
<1>2. m \in Seq(S) /\ Len(m) = Len(l) - 1 /\ \A j \in 1..Len(l) - 1 : m[j] = l[j]
  <2>1. ASSUME NEW k \in Nat, k <= Len(l)
        PROVE  /\ SubSeq(l, 1, k) \in Seq(S) /\ Len(SubSeq(l, 1, k)) = k
               /\ \A j \in 1..k : SubSeq(l, 1, k)[j] = l[j]
    BY <1>1, <2>1
  <2>2. Len(l) - 1 <= Len(l)
    BY <1>1
  <2> QED BY <1>1, <2>1, <2>2, Zenon
<1> HIDE DEF m
<1>3. DOMAIN m = 1..Len(m) /\ \A j \in 1..Len(m) : m[j] \in RangeOf(m)
  BY <1>2 DEF RangeOf
<1>4. m \in Seq(RangeOf(m))
  BY <1>1, <1>2, <1>3
<1> QED BY <1>1, <1>2, <1>4 DEF m

LEMMA PoppedDef ==
    ASSUME NEW fs \in Seq(FrameRecord), fs # <<>>, Len(fs) # 1, NEW leave \in SUBSET Addresses
    PROVE  LET gs == Popped(fs, leave)
               n == Len(fs)
           IN  /\ gs \in Seq(FrameRecord) /\ Len(gs) = n - 1 /\ gs # <<>>
               /\ \A j \in 1..n - 1 : /\ gs[j].addr = fs[j].addr /\ gs[j].create = fs[j].create
                                      /\ gs[j].savepoint = fs[j].savepoint
               /\ \A j \in 1..n - 2 : gs[j].suicides = fs[j].suicides
               /\ Pending(gs, n - 1) = Pending(fs, n - 1) \cup leave
<1> DEFINE gs == Popped(fs, leave)
           n == Len(fs)
           m == SubSeq(fs, 1, n - 1)
           r == [m[n - 1] EXCEPT !.suicides = @ \cup leave]
<1>1. /\ n \in Nat /\ n - 1 \in Nat /\ n - 1 >= 1
      /\ m \in Seq(FrameRecord) /\ Len(m) = n - 1 /\ \A j \in 1..n - 1 : m[j] = fs[j]
  BY FrontDef
<1>2. n - 1 \in 1..n - 1 /\ m[n - 1] \in FrameRecord
  BY <1>1
<1>3. gs = [m EXCEPT ![n - 1] = r]
  BY DEF Popped
<1>4. /\ r \in FrameRecord /\ r.addr = m[n - 1].addr /\ r.create = m[n - 1].create
      /\ r.savepoint = m[n - 1].savepoint /\ r.suicides = m[n - 1].suicides \cup leave
  BY <1>2 DEF FrameRecord
<1> HIDE DEF gs, m, r, n
<1>5. /\ gs \in Seq(FrameRecord) /\ Len(gs) = n - 1 /\ gs[n - 1] = r
      /\ \A j \in 1..n - 1 : j # n - 1 => gs[j] = m[j]
  BY <1>1, <1>2, <1>3, <1>4
<1>6. gs # <<>>
  BY <1>1, <1>5
<1>7. ASSUME NEW j \in 1..n - 1
      PROVE  /\ gs[j].addr = fs[j].addr /\ gs[j].create = fs[j].create
             /\ gs[j].savepoint = fs[j].savepoint
             /\ gs[j].suicides = fs[j].suicides \cup (IF j = n - 1 THEN leave ELSE {})
  <2>1. CASE j = n - 1
    BY <1>1, <1>2, <1>4, <1>5, <2>1
  <2>2. CASE j # n - 1
    BY <1>1, <1>5, <2>2
  <2> QED BY <2>1, <2>2
<1>8. \A j \in 1..n - 2 : j \in 1..n - 1 /\ j # n - 1
  BY <1>1
<1>9. \A j \in 1..n - 2 : gs[j].suicides = fs[j].suicides
  BY <1>7, <1>8
<1>10. Pending(gs, n - 1) = Pending(fs, n - 1) \cup leave
  BY <1>2, <1>7 DEF Pending
<1> QED BY <1>5, <1>6, <1>7, <1>9, <1>10 DEF gs, n

LEMMA FramesPop ==
    ASSUME NEW s, NEW t, NEW fs, NEW sv, FramesOK(s, fs, sv), fs # <<>>, Len(fs) # 1,
           NEW leave \in SUBSET Addresses, Len(t.log) \in Nat,
           \A j \in 1..Len(fs) - 1 :
              /\ fs[j].savepoint <= Len(t.log) /\ Safe(t, fs[j])
              /\ Covers(Level(s, fs[j].savepoint), Level(t, fs[j].savepoint))
    PROVE  LET gs == Popped(fs, leave)
               tv == SubSeq(sv, 1, Len(sv) - 1)
           IN  FramesOK(t, gs, tv) /\ BaseOf(t, gs) = BaseOf(s, fs)
<1> DEFINE gs == Popped(fs, leave)
           tv == SubSeq(sv, 1, Len(sv) - 1)
           n == Len(fs)
<1>1. fs \in Seq(FrameRecord) /\ sv \in Seq(RangeOf(sv)) /\ Len(sv) = n /\ n \in Nat
  BY DEF FramesOK
<1>2. /\ gs \in Seq(FrameRecord) /\ Len(gs) = n - 1 /\ gs # <<>>
      /\ \A j \in 1..n - 1 : /\ gs[j].addr = fs[j].addr /\ gs[j].create = fs[j].create
                             /\ gs[j].savepoint = fs[j].savepoint
      /\ \A j \in 1..n - 2 : gs[j].suicides = fs[j].suicides
  BY <1>1, PoppedDef
<1>3. sv # <<>> /\ n >= 1
  BY <1>1
<1>4. tv \in Seq(RangeOf(tv)) /\ Len(tv) = n - 1 /\ \A j \in 1..n - 1 : tv[j] = sv[j]
  BY <1>1, <1>3, FrontDef
<1> HIDE DEF gs, tv
<1>5. ASSUME NEW j \in 1..Len(gs) PROVE Carried(s, t, fs, gs, j) /\ tv[j] = sv[j]
  <2>1. j \in 1..n - 1
    BY <1>2
  <2> QED BY <1>2, <1>4, <2>1 DEF Carried, Safe
<1>6. Len(gs) - 1 = n - 2 /\ Len(gs) <= n
  BY <1>1, <1>2
<1>7. \A j \in 1..Len(gs) - 1 : gs[j].suicides = fs[j].suicides
  BY <1>2, <1>6
<1>8. /\ Len(tv) = Len(gs) /\ Len(gs) <= Len(fs) /\ gs \in Seq(FrameRecord) /\ gs # <<>>
      /\ tv \in Seq(RangeOf(tv))
  BY <1>2, <1>4, <1>6
<1>9. \A j \in 1..Len(gs) : Carried(s, t, fs, gs, j) /\ tv[j] = sv[j]
  BY <1>5
<1>10. FramesOK(t, gs, tv) /\ BaseOf(t, gs) = BaseOf(s, fs)
  <2>1. ASSUME NEW hs \in Seq(FrameRecord), NEW uv, uv \in Seq(RangeOf(uv)),
               Len(uv) = Len(hs), hs # <<>>, Len(hs) <= Len(fs),
               \A j \in 1..Len(hs) : Carried(s, t, fs, hs, j) /\ uv[j] = sv[j],
               \A j \in 1..Len(hs) - 1 : hs[j].suicides = fs[j].suicides
        PROVE  FramesOK(t, hs, uv) /\ BaseOf(t, hs) = BaseOf(s, fs)
    BY <2>1, FramesCarried, SMTT(60)
  <2> QED BY <1>7, <1>8, <1>9, <2>1, Zenon
<1> QED BY <1>10 DEF gs, tv

\* The frame returns.
LEMMA FramesReturn ==
    ASSUME NEW t, NEW fs, NEW sv, FramesOK(t, fs, sv), fs # <<>>, Len(fs) # 1,
           Kept(t, BaseOf(t, fs)), NEW leave \in SUBSET Addresses
    PROVE  LET gs == Popped(fs, leave)
               tv == SubSeq(sv, 1, Len(sv) - 1)
           IN  FramesOK(t, gs, tv) /\ BaseOf(t, gs) = BaseOf(t, fs)
<1>1. Len(t.log) \in Nat /\ BaseOf(t, fs) \in Nat /\ Len(fs) \in Nat
  BY Levels DEF FramesOK
<1>2. ASSUME NEW j \in 1..Len(fs) - 1
      PROVE  /\ fs[j].savepoint <= Len(t.log) /\ Safe(t, fs[j])
             /\ Covers(Level(t, fs[j].savepoint), Level(t, fs[j].savepoint))
  <2>1. j \in 1..Len(fs)
    BY <1>1
  <2>2. FrameOK(t, fs, sv, j)
    BY <2>1 DEF FramesOK
  <2>3. fs[j].savepoint \in BaseOf(t, fs)..Len(t.log) /\ Safe(t, fs[j])
    BY <2>2 DEF FrameOK
  <2> QED BY <1>1, <2>3, CoversReflexive
<1> QED BY <1>1, <1>2, FramesPop

\* It fails: the state is back at the savepoint.
LEMMA FramesRevert ==
    ASSUME NEW s, NEW fs, NEW sv, FramesOK(s, fs, sv), fs # <<>>, Kept(s, BaseOf(s, fs))
    PROVE  LET n == Len(fs)
               r == Rollback(s, fs[n].savepoint)
               gs == Popped(fs, {})
               tv == SubSeq(sv, 1, Len(sv) - 1)
           IN  /\ Kept(r, BaseOf(s, fs)) /\ r.trie = s.trie
               /\ Funded(r, TxGas * GasPrice)
               /\ sv[Len(sv)] = [world |-> World(r), effects |-> Pending(fs, n - 1)]
               /\ n # 1 => FramesOK(r, gs, tv) /\ BaseOf(r, gs) = BaseOf(s, fs)
<1> DEFINE n == Len(fs)
           m == fs[n].savepoint
           r == Rollback(s, m)
           gs == Popped(fs, {})
           tv == SubSeq(sv, 1, Len(sv) - 1)
           base == BaseOf(s, fs)
<1>1. n \in Nat /\ n \in 1..n /\ Len(sv) = n /\ fs \in Seq(FrameRecord)
  BY DEF FramesOK
<1>2. FrameOK(s, fs, sv, n)
  BY <1>1 DEF FramesOK
<1>3. /\ m \in base..Len(s.log) /\ Funded(Level(s, m), TxGas * GasPrice)
      /\ \A i \in 1..n - 1 : fs[i].savepoint <= m /\ Safe(Level(s, m), fs[i])
      /\ sv[n] = [world |-> World(Level(s, m)), effects |-> Pending(fs, n - 1)]
  BY <1>2 DEF FrameOK
<1>4. /\ Kept(r, base) /\ Len(r.log) = m /\ r.trie = s.trie
      /\ \A k \in base..m : Covers(Level(s, k), Level(r, k))
  BY <1>3, RollbackKept
<1>5. base \in Nat /\ m \in Nat /\ base <= m
  BY <1>3, Levels
<1> HIDE DEF r, gs, tv, base, m
<1>6. Level(r, m) = r
  BY <1>4, <1>5, LevelDef
<1>7. Covers(Level(s, m), r)
  <2>1. m \in base..m
    BY <1>5
  <2> QED BY <1>4, <1>6, <2>1
<1>8. Funded(r, TxGas * GasPrice) /\ World(r) = World(Level(s, m))
  BY <1>3, <1>7, CoversFunded, CoversWorld
<1>9. ASSUME n # 1
      PROVE  FramesOK(r, gs, tv) /\ BaseOf(r, gs) = BaseOf(s, fs)
  <2>1. ASSUME NEW j \in 1..n - 1
        PROVE  /\ fs[j].savepoint <= Len(r.log) /\ Safe(r, fs[j])
               /\ Covers(Level(s, fs[j].savepoint), Level(r, fs[j].savepoint))
    <3>1. j \in 1..n /\ fs[j] \in FrameRecord
      BY <1>1
    <3>2. FrameOK(s, fs, sv, j)
      BY <3>1 DEF FramesOK
    <3>3. fs[j].savepoint \in base..Len(s.log) /\ fs[j].savepoint <= m
      BY <1>3, <3>2 DEF FrameOK, base
    <3>4. fs[j].savepoint \in base..m
      BY <1>5, <3>3
    <3>5. fs[j].addr \in Addresses
      BY <3>1 DEF FrameRecord
    <3>6. Safe(r, fs[j])
      BY <1>3, <1>7, <3>5, CoversFirm, FirmSafe
    <3> QED BY <1>4, <3>3, <3>4, <3>6
  <2>2. {} \in SUBSET Addresses
    OBVIOUS
  <2> QED BY <1>4, <1>5, <1>9, <2>1, <2>2, FramesPop DEF gs, tv
<1> QED BY <1>1, <1>3, <1>4, <1>8, <1>9 DEF r, m, base, gs, tv

-----------------------------------------------------------------------------
(***************************************************************************)
(* The end of a transaction: what is left is the trie.                     *)
(***************************************************************************)
LEMMA SumOfMonotone ==
    ASSUME NEW S, NEW f \in [S -> Nat], NEW g \in [S -> Nat], NEW s \in Seq(S),
           \A i \in 1..Len(s) : f[s[i]] <= g[s[i]]
    PROVE  SumOf(f, s) <= SumOf(g, s)
<1> DEFINE F == PartialSums(f, s)
           G == PartialSums(g, s)
           I == {k \in Nat : k <= Len(s) => F[k] \in Nat /\ G[k] \in Nat /\ F[k] <= G[k]}
<1>1. F[0] = 0 /\ \A n \in Nat : n + 1 <= Len(s) => F[n + 1] = F[n] + f[s[n + 1]]
  BY PartialSumsStep
<1>2. G[0] = 0 /\ \A n \in Nat : n + 1 <= Len(s) => G[n + 1] = G[n] + g[s[n + 1]]
  BY PartialSumsStep
<1> HIDE DEF F, G
<1>3. 0 \in I
  BY <1>1, <1>2
<1>4. ASSUME NEW k \in I PROVE k + 1 \in I
  <2> SUFFICES ASSUME k + 1 <= Len(s)
               PROVE  F[k + 1] \in Nat /\ G[k + 1] \in Nat /\ F[k + 1] <= G[k + 1]
    OBVIOUS
  <2>1. k \in Nat /\ Len(s) \in Nat /\ k <= Len(s) /\ k + 1 \in 1..Len(s)
    OBVIOUS
  <2>2. F[k] \in Nat /\ G[k] \in Nat /\ F[k] <= G[k]
    BY <2>1
  <2>3. s[k + 1] \in S
    BY <2>1
  <2>4. f[s[k + 1]] <= g[s[k + 1]] /\ f[s[k + 1]] \in Nat /\ g[s[k + 1]] \in Nat
    BY <2>1, <2>3
  <2>5. F[k + 1] = F[k] + f[s[k + 1]] /\ G[k + 1] = G[k] + g[s[k + 1]]
    BY <1>1, <1>2, <2>1
  <2> QED BY <2>2, <2>4, <2>5
<1>5. I = Nat
  <2> HIDE DEF I
  <2>1. I \in SUBSET Nat
    BY DEF I
  <2> QED BY <1>3, <1>4, <2>1, SetInduction
<1>6. Len(s) \in I
  BY <1>5
<1> QED BY <1>6 DEF SumOf, F, G

LEMMA HeldMonotone ==
    ASSUME NEW s, NEW t, Solvent(s), Solvent(t),
           \A b \in Addresses : Balance(t, b) <= Balance(s, b)
    PROVE  Held(t) <= Held(s)
<1> DEFINE f == [a \in Addresses |-> Balance(t, a)]
           g == [a \in Addresses |-> Balance(s, a)]
<1>1. f \in [Addresses -> Nat] /\ g \in [Addresses -> Nat]
  BY DEF Solvent
<1>2. AddressOrder \in Seq(Addresses)
  BY AddressOrdered, OrderingsProperties, StateAssumption
<1>3. \A i \in 1..Len(AddressOrder) : f[AddressOrder[i]] <= g[AddressOrder[i]]
  BY <1>2
<1> HIDE DEF f, g
<1>4. SumOf(f, AddressOrder) <= SumOf(g, AddressOrder)
  BY <1>1, <1>2, <1>3, SumOfMonotone
<1> QED BY <1>4 DEF Held, f, g

\* The accounts of a trie.
Formal(tr) ==
    \A a \in Addresses : tr[a] # NoAccount =>
        tr[a].nonce \in Nat /\ tr[a].balance \in Nat /\ IsStorage(tr[a].root)
OnlyTrie(s) == s.cache = <<>> /\ \A a \in s.absent : s.trie[a] = NoAccount

LEMMA OnlyTrieSound ==
    ASSUME NEW s, IsState(s), OnlyTrie(s), Formal(s.trie)
    PROVE  /\ Sound(s) /\ Solvent(s)
           /\ \A a \in Addresses : Balance(s, a) = TrieBalance(s.trie, a)
<1>1. ASSUME NEW a \in Addresses
      PROVE  /\ FitAt(s, a) /\ UnwrittenAt(s, a) /\ Balance(s, a) \in Nat
             /\ Balance(s, a) = TrieBalance(s.trie, a)
  <2>1. a \notin DOMAIN s.cache /\ (a \in s.absent => s.trie[a] = NoAccount)
    BY DEF OnlyTrie
  <2>2. FitAt(s, a)
    BY <2>1 DEF FitAt, Formal
  <2>3. HasAccount(s, a) <=> s.trie[a] # NoAccount
    BY <2>1 DEF HasAccount
  <2>4. CASE s.trie[a] = NoAccount
    BY <2>2, <2>3, <2>4 DEF UnwrittenAt, Balance, TrieBalance
  <2>5. CASE s.trie[a] # NoAccount
    <3>1. s.trie[a].nonce \in Nat /\ s.trie[a].balance \in Nat /\ IsStorage(s.trie[a].root)
      BY <2>5 DEF Formal
    <3>2. AccountAt(s, a) = FromTrie(s.trie[a])
      BY <2>1 DEF AccountAt
    <3>3. Unwritten(FromTrie(s.trie[a])) /\ FromTrie(s.trie[a]).balance = s.trie[a].balance
      BY <2>5, <3>1, FromTrieDef DEF Equals
    <3> QED BY <2>2, <2>3, <2>5, <3>1, <3>2, <3>3 DEF UnwrittenAt, Balance, TrieBalance
  <2> QED BY <2>4, <2>5
<1> QED BY <1>1 DEF Sound, Basic, AllUnwritten, Solvent

\* Executive::finalize up to the suicides.
LEMMA PaidSound ==
    ASSUME NEW s, Sound(s), Funded(s, TxGas * GasPrice), NEW sender \in Addresses,
           NEW gas \in 0..TxGas
    PROVE  LET p == AddBalance(AddBalance(s, sender, gas * GasPrice), Author,
                               (TxGas - gas) * GasPrice)
           IN  Sound(p) /\ p.trie = s.trie /\ Solvent(p) /\ Held(p) <= Supply
<1> DEFINE x == gas * GasPrice
           y == (TxGas - gas) * GasPrice
           r == AddBalance(s, sender, x)
           p == AddBalance(r, Author, y)
<1>1. x \in Nat /\ y \in Nat /\ x + y = TxGas * GasPrice /\ x \in Int /\ y \in Int
  <2>1. TxGas \in Nat /\ GasPrice \in Nat /\ gas \in Nat /\ TxGas - gas \in Nat
    BY ExecutionAssumption
  <2>2. \A i, j \in Nat : i * j \in Nat
    OBVIOUS
  <2>3. \A i, j, k \in Int : i * k + (j - i) * k = j * k
    OBVIOUS
  <2> QED BY <2>1, <2>2, <2>3
<1> HIDE DEF x, y
<1>2. Kept(s, Len(s.log)) /\ Solvent(s) /\ Held(s) \in Nat
      /\ Held(s) + TxGas * GasPrice <= Supply
  BY FreshKept, FundedSolvent DEF Funded
<1>3. /\ Extends(s, r, Len(s.log)) /\ Balance(r, sender) = Balance(s, sender) + x
      /\ \A b \in Addresses \ {sender} : Balance(r, b) = Balance(s, b)
  BY <1>1, <1>2, AddBalanceExtends
<1> HIDE DEF r
<1>4. Kept(r, Len(s.log)) /\ r.trie = s.trie
  BY <1>3 DEF Extends
<1>5. /\ Extends(r, p, Len(s.log)) /\ Balance(p, Author) = Balance(r, Author) + y
      /\ \A b \in Addresses \ {Author} : Balance(p, b) = Balance(r, b)
  BY <1>1, <1>4, AddBalanceExtends, ExecutionAssumption
<1> HIDE DEF p
<1>6. Sound(p) /\ p.trie = s.trie
  BY <1>4, <1>5 DEF Extends, Kept
<1>7. Balance(s, sender) + x >= 0
  BY <1>1, <1>2 DEF Solvent
<1>8. Solvent(r) /\ Held(r) = Held(s) + x
  BY <1>1, <1>2, <1>3, <1>7, HeldAdd
<1>9. Balance(r, Author) + y >= 0
  BY <1>1, <1>8, ExecutionAssumption DEF Solvent
<1>10. Solvent(p) /\ Held(p) = Held(r) + y
  BY <1>1, <1>5, <1>8, <1>9, HeldAdd, ExecutionAssumption
<1>11. Held(p) = Held(s) + TxGas * GasPrice
  BY <1>1, <1>2, <1>8, <1>10
<1>12. Held(p) <= Supply
  BY <1>2, <1>11
<1> QED BY <1>6, <1>10, <1>12 DEF p, r, x, y

\* The suicides: what is known to be absent.
LEMMA KillDef ==
    ASSUME NEW p, Sound(p), NEW S \in SUBSET Addresses
    PROVE  LET k == Kill(p, S) IN
           /\ k = [cache |-> k.cache, log |-> k.log, absent |-> k.absent, clean |-> k.clean,
                   trie |-> k.trie]
           /\ k.trie = p.trie /\ k.log = p.log /\ k.absent \subseteq Addresses
           /\ \A a \in k.absent : a \notin DOMAIN k.cache /\ p.trie[a] = NoAccount
           /\ \A a \in Addresses :
                 \/ a \in DOMAIN k.cache /\ k.cache[a] = DeadAccount
                 \/ a \in DOMAIN k.cache /\ a \in DOMAIN p.cache /\ k.cache[a] = p.cache[a]
                 \/ a \notin DOMAIN k.cache /\ a \notin DOMAIN p.cache
<1> DEFINE k == Kill(p, S)
           there == {a \in S : HasAccount(p, a)}
           cc == [a \in DOMAIN p.cache \cup there |->
                     IF a \in there THEN DeadAccount ELSE p.cache[a]]
           ab == p.absent \cup (S \ there)
           cl == p.clean \cup (there \ DOMAIN p.cache)
<1>1. k = [p EXCEPT !.cache = cc, !.absent = ab, !.clean = cl]
  BY DEF Kill, Killed
<1>2. IsState(p)
  BY DEF Sound, Basic
<1> HIDE DEF k, cc, ab, cl
<1>3. /\ k = [cache |-> k.cache, log |-> k.log, absent |-> k.absent, clean |-> k.clean,
              trie |-> k.trie]
      /\ k.trie = p.trie /\ k.log = p.log /\ k.cache = cc /\ k.absent = ab
  BY <1>1, <1>2 DEF IsState
<1>4. k.absent \subseteq Addresses
  BY <1>2, <1>3 DEF ab, IsState
<1>5. ASSUME NEW a \in k.absent
      PROVE  a \notin DOMAIN k.cache /\ p.trie[a] = NoAccount
  <2>1. a \in Addresses /\ FitAt(p, a)
    BY <1>4 DEF Sound, Basic
  <2>2. a \notin DOMAIN p.cache /\ p.trie[a] = NoAccount
    <3>1. CASE a \in p.absent
      BY <2>1, <3>1 DEF FitAt
    <3>2. CASE a \notin p.absent
      BY <1>3, <3>2 DEF ab, HasAccount
    <3> QED BY <3>1, <3>2
  <2>3. a \notin there
    BY <2>2 DEF HasAccount
  <2> QED BY <1>3, <2>2, <2>3 DEF cc
<1>6. ASSUME NEW a \in Addresses
      PROVE  \/ a \in DOMAIN k.cache /\ k.cache[a] = DeadAccount
             \/ a \in DOMAIN k.cache /\ a \in DOMAIN p.cache /\ k.cache[a] = p.cache[a]
             \/ a \notin DOMAIN k.cache /\ a \notin DOMAIN p.cache
  BY <1>3 DEF cc
<1> QED BY <1>3, <1>4, <1>5, <1>6 DEF k

\* What is committed, empty accounts removed or not.
LEMMA CommittedDef ==
    ASSUME NEW p, Sound(p), Solvent(p), NEW S \in SUBSET Addresses
    PROVE  LET k == Kill(p, S)
               kept == IF EIP158 THEN RemoveEmptyAccounts(k) ELSE k
               tr == Committed(kept)
           IN  /\ Formal(tr) /\ kept.absent \subseteq Addresses
               /\ \A a \in kept.absent : tr[a] = NoAccount
               /\ \A a \in Addresses : TrieBalance(tr, a) \in Nat /\ TrieBalance(tr, a) <= Balance(p, a)
<1> DEFINE k == Kill(p, S)
           rc == [a \in DOMAIN k.cache |->
                     IF ~ k.cache[a].unchanged /\ IsEmpty(k.cache[a])
                     THEN DeadAccount ELSE k.cache[a]]
           rk == [k EXCEPT !.cache = rc]
           kept == IF EIP158 THEN RemoveEmptyAccounts(k) ELSE k
           tr == Committed(kept)
<1>1. /\ k = [cache |-> k.cache, log |-> k.log, absent |-> k.absent, clean |-> k.clean,
              trie |-> k.trie]
      /\ k.trie = p.trie /\ k.absent \subseteq Addresses
      /\ \A a \in k.absent : a \notin DOMAIN k.cache /\ p.trie[a] = NoAccount
      /\ \A a \in Addresses :
            \/ a \in DOMAIN k.cache /\ k.cache[a] = DeadAccount
            \/ a \in DOMAIN k.cache /\ a \in DOMAIN p.cache /\ k.cache[a] = p.cache[a]
            \/ a \notin DOMAIN k.cache /\ a \notin DOMAIN p.cache
  BY KillDef
<1>2. RemoveEmptyAccounts(k) = rk
  BY DEF RemoveEmptyAccounts, Killed
<1> HIDE DEF k, rc
<1>3. rk.cache = rc /\ rk.absent = k.absent /\ rk.trie = k.trie
  BY <1>1
<1>4. kept.absent = k.absent /\ kept.trie = p.trie
  BY <1>1, <1>2, <1>3
<1>5. \A a \in Addresses :
         \/ a \in DOMAIN kept.cache /\ kept.cache[a] = DeadAccount /\ a \in DOMAIN k.cache
         \/ a \in DOMAIN kept.cache /\ a \in DOMAIN p.cache /\ kept.cache[a] = p.cache[a]
            /\ a \in DOMAIN k.cache
         \/ a \notin DOMAIN kept.cache /\ a \notin DOMAIN p.cache
  BY <1>1, <1>2, <1>3 DEF rc
<1> HIDE DEF kept
<1>6. tr = [a \in Addresses |->
              IF a \notin DOMAIN kept.cache \/ kept.cache[a].unchanged THEN p.trie[a]
              ELSE IF ~ kept.cache[a].alive THEN NoAccount
              ELSE [nonce |-> kept.cache[a].nonce, balance |-> kept.cache[a].balance,
                    root |-> StorageOf(kept.cache[a]), code |-> kept.cache[a].code]]
  BY <1>4 DEF Committed
<1> HIDE DEF tr
<1>7. DeadAccount.alive = FALSE /\ DeadAccount.unchanged = FALSE
  BY DEF DeadAccount
<1>8. ASSUME NEW a \in Addresses
      PROVE  /\ tr[a] # NoAccount =>
                   tr[a].nonce \in Nat /\ tr[a].balance \in Nat /\ IsStorage(tr[a].root)
             /\ TrieBalance(tr, a) \in Nat /\ TrieBalance(tr, a) <= Balance(p, a)
  <2>1. Balance(p, a) \in Nat /\ FitAt(p, a)
    BY DEF Solvent, Sound, Basic
  <2>2. CASE tr[a] = NoAccount
    BY <2>1, <2>2 DEF TrieBalance
  <2>3. CASE tr[a] # NoAccount /\ a \notin DOMAIN kept.cache
    <3>1. tr[a] = p.trie[a] /\ a \notin DOMAIN p.cache
      BY <1>5, <1>6, <2>3
    <3>2. a \notin p.absent /\ HasAccount(p, a) /\ AccountAt(p, a) = FromTrie(p.trie[a])
      BY <2>1, <2>3, <3>1 DEF FitAt, HasAccount, AccountAt
    <3>3. Balance(p, a) = p.trie[a].balance
      BY <3>2 DEF Balance, FromTrie
    <3> QED BY <2>1, <2>3, <3>1, <3>3 DEF FitAt, TrieBalance
  <2>4. CASE tr[a] # NoAccount /\ a \in DOMAIN kept.cache
    <3> DEFINE c == p.cache[a]
    <3>1. kept.cache[a] # DeadAccount
      BY <1>6, <1>7, <2>4
    <3>2. a \in DOMAIN p.cache /\ kept.cache[a] = c
      BY <1>5, <2>4, <3>1
    <3>3. Formed(c) /\ Balance(p, a) = c.balance
      BY <2>1, <3>2 DEF FitAt, Balance, HasAccount, AccountAt
    <3> HIDE DEF c
    <3>4. CASE c.unchanged
      <4>1. tr[a] = p.trie[a] /\ Equals(c, p.trie[a])
        BY <1>6, <2>1, <2>4, <3>2, <3>4 DEF FitAt, AsCommitted, c
      <4> QED BY <2>1, <2>4, <3>3, <4>1 DEF FitAt, TrieBalance, Equals
    <3>5. CASE ~ c.unchanged
      <4>1. tr[a] = [nonce |-> c.nonce, balance |-> c.balance, root |-> StorageOf(c),
                     code |-> c.code]
        BY <1>6, <2>4, <3>2, <3>3, <3>5 DEF Formed
      <4>2. IsStorage(StorageOf(c))
        BY DEF IsStorage, StorageOf
      <4>3. tr[a].nonce = c.nonce /\ tr[a].balance = c.balance /\ tr[a].root = StorageOf(c)
        BY <4>1
      <4> QED BY <2>1, <2>4, <3>3, <4>2, <4>3 DEF Formed, TrieBalance
    <3> QED BY <3>4, <3>5
  <2> QED BY <2>2, <2>3, <2>4
<1>9. ASSUME NEW a \in k.absent PROVE tr[a] = NoAccount
  <2>1. a \in Addresses /\ a \notin DOMAIN k.cache /\ p.trie[a] = NoAccount
    BY <1>1
  <2>2. a \notin DOMAIN kept.cache
    BY <1>5, <2>1, <1>2, <1>3 DEF kept, rc
  <2> QED BY <1>6, <2>1, <2>2
<1>10. Formal(tr)
  BY <1>8 DEF Formal
<1> QED BY <1>1, <1>4, <1>8, <1>9, <1>10 DEF tr, kept, k

(***************************************************************************)
(* The state while a transaction is executed, with the frames in progress. *)
(***************************************************************************)
LEMMA ReadyDef ==
    ASSUME NEW s, NEW fs, NEW sv, Ready(s, fs, sv)
    PROVE  /\ Kept(s, BaseOf(s, fs)) /\ Sound(s) /\ IsState(s) /\ Solvent(s) /\ Held(s) \in Nat
           /\ Held(s) + TxGas * GasPrice <= Supply
           /\ fs \in Seq(FrameRecord) /\ FramesOK(s, fs, sv)
<1>1. Kept(s, BaseOf(s, fs)) /\ Sound(s) /\ IsState(s) /\ FramesOK(s, fs, sv)
  BY DEF Ready, Kept, Sound, Basic
<1>2. Funded(s, TxGas * GasPrice)
  BY DEF Ready
<1> QED BY <1>1, <1>2, FundedSolvent DEF Funded, FramesOK

LEMMA ReadyMoves ==
    ASSUME NEW s, NEW t, NEW fs, NEW sv, Ready(s, fs, sv), Extends(s, t, BaseOf(s, fs)),
           Safer(s, t, fs), Solvent(t), Held(t) <= Held(s)
    PROVE  Ready(t, fs, sv) /\ t.trie = s.trie
<1>1. /\ Kept(s, BaseOf(s, fs)) /\ Held(s) \in Nat /\ FramesOK(s, fs, sv)
      /\ Held(s) + TxGas * GasPrice <= Supply
  BY ReadyDef
<1>2. Kept(t, BaseOf(s, fs)) /\ t.trie = s.trie /\ Held(t) \in Nat /\ Sound(t)
  BY HeldType DEF Extends, Kept
<1>3. Held(t) + TxGas * GasPrice <= Supply
  <2>1. Supply \in Nat
    <3> DEFINE f == [a \in Addresses |-> IF Genesis[a] = NoAccount THEN 0 ELSE Genesis[a].balance]
    <3>1. ASSUME NEW a \in Addresses PROVE f[a] \in Nat
      <4>1. Genesis[a] \in TrieAccount \cup {NoAccount}
        BY ExecutionAssumption
      <4> QED BY <4>1 DEF TrieAccount
    <3>2. f \in [Addresses -> Nat]
      BY <3>1
    <3>3. AddressOrder \in Seq(Addresses)
      BY AddressOrdered, OrderingsProperties, StateAssumption
    <3> HIDE DEF f
    <3>4. SumOf(f, AddressOrder) \in Nat
      BY <3>2, <3>3, SumOfType
    <3> QED BY <3>4 DEF Supply, f
  <2> QED BY <1>1, <1>2, <2>1, GasPaid
<1>4. Funded(t, TxGas * GasPrice)
  BY <1>3, SolventFunded
<1>5. Kept(t, BaseOf(t, fs)) /\ FramesOK(t, fs, sv)
  <2>1. CASE fs = <<>>
    <3>1. BaseOf(t, fs) = Len(t.log)
      BY <2>1 DEF BaseOf
    <3>2. \A j \in 1..Len(fs) : FALSE
      BY <2>1
    <3> QED BY <1>1, <1>2, <3>1, <3>2, FreshKept DEF FramesOK
  <2>2. CASE fs # <<>>
    BY <1>1, <1>2, <2>2, FramesExtend
  <2> QED BY <2>1, <2>2
<1> QED BY <1>2, <1>4, <1>5 DEF Ready

LEMMA ReadyCovered ==
    ASSUME NEW s, NEW t, NEW fs, NEW sv, Ready(s, fs, sv), Extends(s, t, BaseOf(s, fs)),
           Covers(s, t)
    PROVE  Ready(t, fs, sv) /\ t.trie = s.trie
<1>1. Solvent(s) /\ Held(s) \in Nat /\ fs \in Seq(FrameRecord)
  BY ReadyDef
<1>2. \A b \in Addresses : Balance(t, b) = Balance(s, b)
  BY CoversReads
<1>3. Solvent(t) /\ Held(t) = Held(s)
  BY <1>1, <1>2, HeldSame DEF Solvent
<1>4. Safer(s, t, fs)
  BY <1>1, CoversFirm, FirmSafer
<1>5. Held(t) <= Held(s)
  BY <1>1, <1>3
<1> QED BY <1>3, <1>4, <1>5, ReadyMoves

LEMMA ReadyCleared ==
    ASSUME NEW s, NEW fs, NEW sv, Ready(s, fs, sv), NEW picked
    PROVE  LET t == ClearCache(s, picked) IN
           Ready(t, fs, sv) /\ t.trie = s.trie /\ Covers(s, t) /\ t.log = s.log
<1> DEFINE t == ClearCache(s, picked)
<1>1. Kept(s, BaseOf(s, fs))
  BY ReadyDef
<1>2. Extends(s, t, BaseOf(s, fs)) /\ t.log = s.log /\ Covers(s, t)
  BY <1>1, ClearCacheExtends
<1> HIDE DEF t
<1>3. Ready(t, fs, sv) /\ t.trie = s.trie
  BY <1>2, ReadyCovered
<1> QED BY <1>2, <1>3 DEF t

LEMMA ReadyOpens ==
    ASSUME NEW cs, NEW t, NEW fs, NEW sv, Ready(cs, fs, sv), Extends(cs, t, BaseOf(cs, fs)),
           Firm(cs, t), Solvent(t), Held(t) = Held(cs), NEW f \in FrameRecord, Safe(t, f),
           f.savepoint = Len(cs.log)
    PROVE  /\ Ready(t, Append(fs, f),
                    Append(sv, [world |-> World(cs), effects |-> Pending(fs, Len(fs))]))
           /\ t.trie = cs.trie
<1> DEFINE x == [world |-> World(cs), effects |-> Pending(fs, Len(fs))]
<1>1. /\ Kept(cs, BaseOf(cs, fs)) /\ FramesOK(cs, fs, sv) /\ Funded(cs, TxGas * GasPrice)
      /\ Held(cs) + TxGas * GasPrice <= Supply
  BY ReadyDef DEF Ready
<1>2. x = [world |-> World(cs), effects |-> Pending(fs, Len(fs))]
  OBVIOUS
<1> HIDE DEF x
<1>3. /\ FramesOK(t, Append(fs, f), Append(sv, x))
      /\ BaseOf(t, Append(fs, f)) = BaseOf(cs, fs)
  BY <1>1, <1>2, FramesOpen
<1>4. Kept(t, BaseOf(cs, fs)) /\ t.trie = cs.trie
  BY DEF Extends
<1>5. Funded(t, TxGas * GasPrice)
  BY <1>1, SolventFunded
<1> QED BY <1>3, <1>4, <1>5 DEF Ready, x

(***************************************************************************)
(* A call by the code of the account from.                                 *)
(***************************************************************************)
LEMMA CallCodeReady ==
    ASSUME NEW cs, NEW fs, NEW sv, Ready(cs, fs, sv), NEW from \in Addresses,
           NEW code \in Addresses, NEW to \in Addresses, NEW v \in Nat,
           Balance(cs, from) >= v, AddressHasCode(cs, code),
           NEW f \in FrameRecord, f.addr = to, ~ f.create, f.savepoint = Len(cs.log),
           to = code \/ (fs # <<>> /\ to = fs[Len(fs)].addr)
    PROVE  LET t == TransferBalance(cs, from, to, v) IN
           /\ Ready(t, Append(fs, f),
                    Append(sv, [world |-> World(cs), effects |-> Pending(fs, Len(fs))]))
           /\ t.trie = cs.trie
<1> DEFINE t == TransferBalance(cs, from, to, v)
<1>1. /\ Kept(cs, BaseOf(cs, fs)) /\ Solvent(cs) /\ FramesOK(cs, fs, sv)
      /\ fs \in Seq(FrameRecord) /\ Sound(cs)
  BY ReadyDef
<1>2. /\ Extends(cs, t, BaseOf(cs, fs)) /\ Mild(cs, t) /\ Dirty(t, to)
      /\ Solvent(t) /\ Held(t) = Held(cs)
  BY <1>1, TransferExtends
<1> HIDE DEF t
<1>3. Firm(cs, t) /\ Sound(t)
  BY <1>2, MildFirm DEF Extends, Kept
<1>4. Safe(t, f)
  <2>1. CASE to = code
    <3>1. HasAccount(cs, to) /\ AccountAt(cs, to).code # EmptyCode
      BY <2>1 DEF AddressHasCode, CodeAt
    <3>2. AccountAt(t, to).code # EmptyCode
      BY <1>2, <3>1 DEF Mild
    <3>3. t.cache[to].code # EmptyCode
      BY <1>2, <1>3, <3>2, DirtyDef
    <3> QED BY <1>2, <3>3 DEF Safe
  <2>2. CASE fs # <<>> /\ to = fs[Len(fs)].addr
    <3>1. Len(fs) \in 1..Len(fs)
      BY <1>1, <2>2
    <3>2. Safe(cs, fs[Len(fs)])
      BY <1>1, <3>1 DEF FramesOK, FrameOK
    <3>3. Safe(t, fs[Len(fs)])
      BY <1>3, <2>2, <3>2, FirmSafe
    <3> QED BY <2>2, <3>3 DEF Safe
  <2> QED BY <2>1, <2>2
<1> QED BY <1>2, <1>3, <1>4, ReadyOpens DEF t

LEMMA CallNoCodeReady ==
    ASSUME NEW cs, NEW fs, NEW sv, Ready(cs, fs, sv), NEW from \in Addresses,
           NEW code \in Addresses, NEW to \in Addresses, NEW v \in Nat,
           Balance(cs, from) >= v, NEW t,
           t \in {TransferBalance(cs, from, to, v), cs, AddBalance(cs, code, 0)}
    PROVE  Ready(t, fs, sv) /\ t.trie = cs.trie
<1>1. /\ Kept(cs, BaseOf(cs, fs)) /\ Solvent(cs) /\ fs \in Seq(FrameRecord)
      /\ Held(cs) \in Nat /\ Sound(cs)
  BY ReadyDef
<1>2. CASE t = cs
  BY <1>2
<1>3. CASE t # cs
  <2>1. Extends(cs, t, BaseOf(cs, fs)) /\ Mild(cs, t) /\ Solvent(t) /\ Held(t) = Held(cs)
    <3>1. CASE t = TransferBalance(cs, from, to, v)
      BY <1>1, <3>1, TransferExtends
    <3>2. CASE t = AddBalance(cs, code, 0)
      <4>1. 0 \in Int /\ Balance(cs, code) \in Nat
        BY <1>1 DEF Solvent
      <4>2. /\ Extends(cs, t, BaseOf(cs, fs)) /\ Mild(cs, t)
            /\ Balance(t, code) = Balance(cs, code) + 0
            /\ \A b \in Addresses \ {code} : Balance(t, b) = Balance(cs, b)
        BY <1>1, <3>2, <4>1, AddBalanceExtends
      <4>3. \A b \in Addresses : Balance(t, b) = Balance(cs, b)
        BY <4>1, <4>2
      <4> QED BY <1>1, <4>2, <4>3, HeldSame DEF Solvent
    <3> QED BY <1>3, <3>1, <3>2
  <2>2. Safer(cs, t, fs)
    BY <1>1, <2>1, MildFirm, FirmSafer
  <2>3. Held(t) <= Held(cs)
    BY <1>1, <2>1
  <2> QED BY <2>1, <2>2, <2>3, ReadyMoves
<1> QED BY <1>2, <1>3

(***************************************************************************)
(* A creation: the nonce of the creator is advanced first.                 *)
(***************************************************************************)
LEMMA BesideSame ==
    ASSUME NEW s, NEW t, NEW field,
           \A b \in Addresses :
              /\ HasAccount(t, b) <=> HasAccount(s, b)
              /\ HasAccount(s, b) => [Seen(AccountAt(t, b)) EXCEPT ![field] = 0]
                                        = [Seen(AccountAt(s, b)) EXCEPT ![field] = 0]
    PROVE  Promise!Beside(World(t), field) = Promise!Beside(World(s), field)
<1> DEFINE D == {b \in Addresses : HasAccount(s, b)}
<1>1. {b \in Addresses : HasAccount(t, b)} = D
  OBVIOUS
<1>2. World(s) = [a \in D |-> Seen(AccountAt(s, a))] /\ World(t) = [a \in D |-> Seen(AccountAt(t, a))]
  BY <1>1 DEF World
<1>3. \A a \in D : [Seen(AccountAt(t, a)) EXCEPT ![field] = 0]
                      = [Seen(AccountAt(s, a)) EXCEPT ![field] = 0]
  OBVIOUS
<1> HIDE DEF D
<1> DEFINE v == World(s)
           w == World(t)
<1>4. DOMAIN v = D /\ DOMAIN w = D
  BY <1>2
<1>5. \A a \in D : [w[a] EXCEPT ![field] = 0] = [v[a] EXCEPT ![field] = 0]
  BY <1>2, <1>3
<1> HIDE DEF v, w
<1>6. [a \in DOMAIN w |-> [w[a] EXCEPT ![field] = 0]] = [a \in DOMAIN v |-> [v[a] EXCEPT ![field] = 0]]
  BY <1>4, <1>5
<1> QED BY <1>6 DEF Promise!Beside, v, w

LEMMA SeenBeside ==
    ASSUME NEW c, NEW d, d.alive = c.alive, d.balance = c.balance,
           StorageOf(d) = StorageOf(c), (EIP158 /\ ~ c.unchanged /\ IsEmpty(c)) = FALSE,
           (EIP158 /\ ~ d.unchanged /\ IsEmpty(d)) = FALSE
    PROVE  /\ d.code = c.code =>
                 [Seen(d) EXCEPT !["nonce"] = 0] = [Seen(c) EXCEPT !["nonce"] = 0]
           /\ d.nonce = c.nonce =>
                 [Seen(d) EXCEPT !["code"] = 0] = [Seen(c) EXCEPT !["code"] = 0]
<1> DEFINE r == Seen(c)
           q == Seen(d)
           F == {"alive", "nonce", "balance", "code", "storage", "touched"}
<1>1. DOMAIN r = F /\ DOMAIN q = F
  BY DEF Seen
<1>2. /\ q["alive"] = r["alive"] /\ q["balance"] = r["balance"]
      /\ q["storage"] = r["storage"] /\ q["touched"] = r["touched"]
  BY DEF Seen
<1>3. (d.code = c.code => q["code"] = r["code"]) /\ (d.nonce = c.nonce => q["nonce"] = r["nonce"])
  BY DEF Seen
<1> HIDE DEF r, q
<1>4. ASSUME d.code = c.code
      PROVE  [q EXCEPT !["nonce"] = 0] = [r EXCEPT !["nonce"] = 0]
  <2>1. \A f \in F \ {"nonce"} : q[f] = r[f]
    BY <1>2, <1>3, <1>4
  <2> QED BY <1>1, <2>1
<1>5. ASSUME d.nonce = c.nonce
      PROVE  [q EXCEPT !["code"] = 0] = [r EXCEPT !["code"] = 0]
  <2>1. \A f \in F \ {"code"} : q[f] = r[f]
    BY <1>2, <1>3, <1>5
  <2> QED BY <1>1, <2>1
<1> QED BY <1>4, <1>5 DEF q, r

LEMMA TopSafe ==
    ASSUME NEW s, NEW fs, NEW sv, Ready(s, fs, sv), fs # <<>>
    PROVE  LET f == fs[Len(fs)] IN
           f \in FrameRecord /\ f.addr \in Addresses /\ Safe(s, f) /\ Dirty(s, f.addr)
<1>1. FramesOK(s, fs, sv) /\ fs \in Seq(FrameRecord)
  BY ReadyDef
<1>2. Len(fs) \in 1..Len(fs)
  BY <1>1
<1>3. fs[Len(fs)] \in FrameRecord
  BY <1>1, <1>2
<1>4. FrameOK(s, fs, sv, Len(fs))
  BY <1>1, <1>2 DEF FramesOK
<1>5. Safe(s, fs[Len(fs)])
  BY <1>4 DEF FrameOK
<1> QED BY <1>3, <1>5 DEF FrameRecord, Safe

LEMMA NonceReady ==
    ASSUME NEW s, NEW fs, NEW sv, Ready(s, fs, sv), fs # <<>>
    PROVE  LET a == fs[Len(fs)].addr
               cs == IncNonce(s, a)
           IN  /\ Ready(cs, fs, sv) /\ cs.trie = s.trie
               /\ \A b \in Addresses : Balance(cs, b) = Balance(s, b)
               /\ Promise!Beside(World(cs), "nonce") = Promise!Beside(World(s), "nonce")
<1> DEFINE f == fs[Len(fs)]
           a == f.addr
           c == s.cache[a]
           n == c.nonce + 1
           cs == IncNonce(s, a)
<1>1. a \in Addresses /\ Safe(s, f) /\ Dirty(s, a)
  BY TopSafe
<1>2. /\ Kept(s, BaseOf(s, fs)) /\ Sound(s) /\ Solvent(s) /\ Held(s) \in Nat
      /\ fs \in Seq(FrameRecord)
  BY ReadyDef
<1> HIDE DEF a
<1>3. HasAccount(s, a) /\ AccountAt(s, a) = c /\ Formed(c) /\ ~ c.unchanged
  BY <1>1, <1>2, DirtyDef
<1>4. n \in Nat /\ n # 0 /\ c.nonce \in Nat
  <2>1. c.nonce \in Nat
    BY <1>3 DEF Formed
  <2> QED BY <2>1
<1>5. cs = Renonced(s, a, n)
  BY <1>1, <1>2, <1>3, NonceIs
<1> HIDE DEF cs, n
<1>6. /\ Extends(s, cs, BaseOf(s, fs)) /\ Firm(s, cs) /\ Dirty(cs, a)
      /\ cs.cache[a].nonce = n /\ cs.cache[a].code = c.code
      /\ StorageOf(cs.cache[a]) = StorageOf(c)
      /\ cs.cache[a].balance = c.balance /\ cs.cache[a].alive = c.alive
      /\ \A b \in Addresses : Balance(cs, b) = Balance(s, b)
      /\ \A b \in Addresses \ {a} :
            /\ HasAccount(cs, b) <=> HasAccount(s, b)
            /\ HasAccount(s, b) => AccountAt(cs, b) = AccountAt(s, b)
  BY <1>1, <1>2, <1>4, <1>5, RenoncedExtends
<1>7. Solvent(cs) /\ Held(cs) = Held(s) /\ Safer(s, cs, fs)
  BY <1>2, <1>6, HeldSame, FirmSafer DEF Solvent
<1>8. Held(cs) <= Held(s)
  BY <1>2, <1>7
<1>9. Ready(cs, fs, sv) /\ cs.trie = s.trie
  BY <1>6, <1>7, <1>8, ReadyMoves
<1>10. Sound(cs)
  BY <1>9, ReadyDef
<1>11. HasAccount(cs, a) /\ AccountAt(cs, a) = cs.cache[a] /\ ~ cs.cache[a].unchanged
  BY <1>1, <1>6, <1>10, DirtyDef
<1>12. [Seen(cs.cache[a]) EXCEPT !["nonce"] = 0] = [Seen(c) EXCEPT !["nonce"] = 0]
  <2>1. EIP158 /\ IsEmpty(c) => FALSE
    BY <1>1 DEF Safe, IsEmpty, a
  <2>2. ~ IsEmpty(cs.cache[a])
    BY <1>4, <1>6 DEF IsEmpty
  <2>3. (EIP158 /\ ~ c.unchanged /\ IsEmpty(c)) = FALSE
    BY <2>1
  <2>4. (EIP158 /\ ~ cs.cache[a].unchanged /\ IsEmpty(cs.cache[a])) = FALSE
    BY <2>2
  <2> QED BY <1>6, <2>3, <2>4, SeenBeside
<1>13. ASSUME NEW b \in Addresses
       PROVE  /\ HasAccount(cs, b) <=> HasAccount(s, b)
              /\ HasAccount(s, b) => [Seen(AccountAt(cs, b)) EXCEPT !["nonce"] = 0]
                                        = [Seen(AccountAt(s, b)) EXCEPT !["nonce"] = 0]
  <2>1. CASE b = a
    BY <1>3, <1>11, <1>12, <2>1
  <2>2. CASE b # a
    BY <1>6, <2>2
  <2> QED BY <2>1, <2>2
<1>14. Promise!Beside(World(cs), "nonce") = Promise!Beside(World(s), "nonce")
  BY <1>13, BesideSame
<1> QED BY <1>6, <1>9, <1>14 DEF cs, a

LEMMA CreateCodeReady ==
    ASSUME NEW cs, NEW fs, NEW sv, Ready(cs, fs, sv), NEW from \in Addresses,
           NEW addr \in Addresses, NEW v \in Nat, Balance(cs, from) >= v,
           ~ AlreadyUsed(cs, addr), NEW f \in FrameRecord, f.addr = addr,
           f.savepoint = Len(cs.log)
    PROVE  LET t == ClearStorage(Endowed(cs, from, addr, v), addr) IN
           /\ Ready(t, Append(fs, f),
                    Append(sv, [world |-> World(cs), effects |-> Pending(fs, Len(fs))]))
           /\ t.trie = cs.trie
<1> DEFINE t == ClearStorage(Endowed(cs, from, addr, v), addr)
<1>1. Kept(cs, BaseOf(cs, fs)) /\ Solvent(cs)
  BY ReadyDef
<1>2. /\ Extends(cs, t, BaseOf(cs, fs)) /\ Firm(cs, t) /\ Dirty(t, addr)
      /\ t.cache[addr].root = EmptyTrie /\ (EIP158 => t.cache[addr].nonce # 0)
      /\ Solvent(t) /\ Held(t) = Held(cs)
  BY <1>1, CreatedExtends
<1> HIDE DEF t
<1>3. Safe(t, f)
  BY <1>2 DEF Safe
<1> QED BY <1>2, <1>3, ReadyOpens DEF t

LEMMA CreateNoCodeReady ==
    ASSUME NEW cs, NEW fs, NEW sv, Ready(cs, fs, sv), NEW from \in Addresses,
           NEW addr \in Addresses, NEW v \in Nat, Balance(cs, from) >= v
    PROVE  LET t == IF AlreadyUsed(cs, addr) THEN Rollback(cs, Savepoint(cs))
                    ELSE Endowed(cs, from, addr, v)
           IN  Ready(t, fs, sv) /\ t.trie = cs.trie
<1> DEFINE base == BaseOf(cs, fs)
           t == IF AlreadyUsed(cs, addr) THEN Rollback(cs, Savepoint(cs))
                ELSE Endowed(cs, from, addr, v)
<1>1. Kept(cs, base) /\ Solvent(cs) /\ fs \in Seq(FrameRecord) /\ Held(cs) \in Nat
  BY ReadyDef
<1>2. base \in Nat /\ Len(cs.log) \in Nat /\ base <= Len(cs.log)
  BY <1>1, Levels
<1>3. CASE AlreadyUsed(cs, addr)
  <2> DEFINE m == Len(cs.log)
             r == Rollback(cs, m)
  <2>1. m \in base..Len(cs.log) /\ t = r
    BY <1>2, <1>3 DEF Savepoint
  <2>2. /\ Kept(r, base) /\ Len(r.log) = m /\ r.trie = cs.trie
        /\ \A k \in base..m : Covers(Level(cs, k), Level(r, k))
    BY <1>1, <2>1, RollbackKept
  <2> HIDE DEF r, base, t
  <2>3. Extends(cs, r, base)
    BY <1>2, <2>2 DEF Extends
  <2>4. Level(cs, m) = cs /\ Level(r, m) = r
    <3>1. Len(r.log) \in Nat
      BY <1>2, <2>2
    <3>2. Level(r, Len(r.log)) = r /\ Level(cs, Len(cs.log)) = cs
      BY <1>2, <3>1, LevelDef
    <3> QED BY <2>2, <3>2
  <2>5. Covers(cs, r)
    BY <2>1, <2>2, <2>4
  <2>6. Ready(r, fs, sv) /\ r.trie = cs.trie
    BY <2>3, <2>5, ReadyCovered DEF base
  <2> QED BY <2>1, <2>6 DEF t
<1>4. CASE ~ AlreadyUsed(cs, addr)
  <2>1. t = Endowed(cs, from, addr, v)
    BY <1>4
  <2>2. Extends(cs, t, base) /\ Firm(cs, t) /\ Solvent(t) /\ Held(t) = Held(cs)
    BY <1>1, <1>4, <2>1, EndowedExtends
  <2> HIDE DEF t
  <2>3. Safer(cs, t, fs) /\ Held(t) <= Held(cs)
    BY <1>1, <2>2, FirmSafer
  <2>4. Ready(t, fs, sv) /\ t.trie = cs.trie
    BY <2>2, <2>3, ReadyMoves
  <2> QED BY <2>4 DEF t
<1> QED BY <1>3, <1>4

(***************************************************************************)
(* The other operations of the innermost frame.                            *)
(***************************************************************************)
LEMMA LoadReady ==
    ASSUME NEW s, NEW fs, NEW sv, Ready(s, fs, sv), fs # <<>>, NEW k \in Keys
    PROVE  LET t == StorageRead(s, fs[Len(fs)].addr, k) IN
           Ready(t, fs, sv) /\ t.trie = s.trie
<1> DEFINE a == fs[Len(fs)].addr
           t == StorageRead(s, a, k)
<1>1. a \in Addresses /\ Kept(s, BaseOf(s, fs))
  BY TopSafe, ReadyDef
<1>2. Extends(s, t, BaseOf(s, fs)) /\ Covers(s, t)
  BY <1>1, StorageReadExtends
<1> QED BY <1>2, ReadyCovered

LEMMA StoreReady ==
    ASSUME NEW s, NEW fs, NEW sv, Ready(s, fs, sv), fs # <<>>, NEW k \in Keys, NEW v
    PROVE  LET t == SetStorage(s, fs[Len(fs)].addr, k, v) IN
           Ready(t, fs, sv) /\ t.trie = s.trie
<1> DEFINE f == fs[Len(fs)]
           a == f.addr
           t == SetStorage(s, a, k, v)
<1>1. a \in Addresses /\ Safe(s, f) /\ Dirty(s, a)
  BY TopSafe
<1>2. Kept(s, BaseOf(s, fs)) /\ Solvent(s) /\ Held(s) \in Nat /\ fs \in Seq(FrameRecord)
  BY ReadyDef
<1>3. s.cache[a].code = EmptyCode => s.cache[a].root = EmptyTrie
  BY <1>1 DEF Safe
<1> HIDE DEF a
<1>4. /\ Extends(s, t, BaseOf(s, fs)) /\ Firm(s, t)
      /\ \A b \in Addresses : Balance(t, b) = Balance(s, b)
  BY <1>1, <1>2, <1>3, SetStorageExtends
<1> HIDE DEF t
<1>5. Solvent(t) /\ Held(t) = Held(s) /\ Safer(s, t, fs)
  BY <1>2, <1>4, HeldSame, FirmSafer DEF Solvent
<1>6. Held(t) <= Held(s)
  BY <1>2, <1>5
<1>7. Ready(t, fs, sv) /\ t.trie = s.trie
  BY <1>4, <1>5, <1>6, ReadyMoves
<1> QED BY <1>7 DEF t, a

LEMMA SuicideReady ==
    ASSUME NEW s, NEW fs, NEW sv, Ready(s, fs, sv), fs # <<>>, NEW heir \in Addresses
    PROVE  LET n == Len(fs)
               a == fs[n].addr
               t == SetBalance(AddBalance(s, heir, Balance(s, a)), a, 0)
               gs == [fs EXCEPT ![n].suicides = @ \cup {a}, ![n].halted = TRUE]
           IN  /\ Ready(t, gs, sv) /\ t.trie = s.trie /\ gs # <<>>
               /\ Pending(fs, n) \subseteq Pending(gs, n) /\ Len(gs) = n
<1> DEFINE n == Len(fs)
           f == fs[n]
           a == f.addr
           t == SetBalance(AddBalance(s, heir, Balance(s, a)), a, 0)
           gs == [fs EXCEPT ![n].suicides = @ \cup {a}, ![n].halted = TRUE]
           g == [f EXCEPT !.suicides = @ \cup {a}, !.halted = TRUE]
<1>1. f \in FrameRecord /\ a \in Addresses
  BY TopSafe
<1>2. /\ Kept(s, BaseOf(s, fs)) /\ Solvent(s) /\ Held(s) \in Nat /\ fs \in Seq(FrameRecord)
      /\ n \in Nat /\ n \in 1..n
  BY ReadyDef
<1>3. gs = [fs EXCEPT ![n] = g]
  BY <1>2
<1>4. /\ g \in FrameRecord /\ g.addr = f.addr /\ g.create = f.create
      /\ g.savepoint = f.savepoint /\ g.suicides = f.suicides \cup {a}
  BY <1>1 DEF FrameRecord
<1> HIDE DEF a, gs, g, n
<1>5. /\ gs \in Seq(FrameRecord) /\ Len(gs) = n /\ gs[n] = g
      /\ \A j \in 1..n : j # n => gs[j] = fs[j]
  BY <1>2, <1>3, <1>4 DEF n
<1>6. /\ Extends(s, t, BaseOf(s, fs)) /\ Mild(s, t) /\ Solvent(t) /\ Held(t) <= Held(s)
  BY <1>1, <1>2, SuicideExtends
<1> HIDE DEF t
<1>7. Safer(s, t, fs)
  BY <1>2, <1>6, MildFirm, FirmSafer
<1>8. Ready(t, fs, sv) /\ t.trie = s.trie
  BY <1>6, <1>7, ReadyMoves
<1>9. /\ Kept(t, BaseOf(t, fs)) /\ FramesOK(t, fs, sv) /\ Funded(t, TxGas * GasPrice)
      /\ sv \in Seq(RangeOf(sv)) /\ Len(sv) = n
  BY <1>8 DEF Ready, FramesOK, n
<1>10. Len(t.log) \in Nat /\ BaseOf(t, fs) \in Nat
  BY <1>9, Levels
<1>11. ASSUME NEW j \in 1..n PROVE Carried(t, t, fs, gs, j)
  <2>1. FrameOK(t, fs, sv, j)
    BY <1>9 DEF FramesOK, n
  <2>2. fs[j].savepoint \in BaseOf(t, fs)..Len(t.log) /\ Safe(t, fs[j])
    BY <2>1 DEF FrameOK
  <2>3. fs[j].savepoint <= Len(t.log)
    BY <1>10, <2>2
  <2>4. /\ gs[j].addr = fs[j].addr /\ gs[j].create = fs[j].create
        /\ gs[j].savepoint = fs[j].savepoint
    BY <1>4, <1>5
  <2> QED BY <2>2, <2>3, <2>4, CoversReflexive DEF Carried, Safe
<1>12. gs # <<>> /\ Len(gs) <= Len(fs) /\ Len(sv) = Len(gs)
  BY <1>2, <1>5, <1>9 DEF n
<1>13. /\ \A j \in 1..Len(gs) : Carried(t, t, fs, gs, j) /\ sv[j] = sv[j]
       /\ \A j \in 1..Len(gs) - 1 : gs[j].suicides = fs[j].suicides
  <2>1. \A j \in 1..n - 1 : j \in 1..n /\ j # n
    BY <1>2
  <2> QED BY <1>5, <1>11, <2>1
<1>14. FramesOK(t, gs, sv) /\ BaseOf(t, gs) = BaseOf(t, fs)
  <2>1. gs \in Seq(FrameRecord)
    BY <1>5
  <2> QED BY <1>9, <1>10, <1>12, <1>13, <2>1, FramesCarried, SMTT(60)
<1>15. Pending(fs, n) \subseteq Pending(gs, n)
  <2>1. \A j \in 1..n : fs[j].suicides \subseteq gs[j].suicides
    BY <1>4, <1>5
  <2> QED BY <2>1 DEF Pending
<1>16. Ready(t, gs, sv)
  BY <1>9, <1>14 DEF Ready
<1> QED BY <1>5, <1>8, <1>12, <1>15, <1>16 DEF t, gs, a, n

LEMMA DepositReady ==
    ASSUME NEW s, NEW fs, NEW sv, Ready(s, fs, sv), fs # <<>>, NEW code
    PROVE  LET f == fs[Len(fs)]
               t == IF f.create THEN SetCode(s, f.addr, code) ELSE s
           IN  /\ Ready(t, fs, sv) /\ t.trie = s.trie
               /\ Promise!Beside(World(t), "code") = Promise!Beside(World(s), "code")
<1> DEFINE f == fs[Len(fs)]
           a == f.addr
           c == s.cache[a]
           t == SetCode(s, a, code)
           d == t.cache[a]
<1>1. CASE ~ f.create
  BY <1>1
<1>2. CASE f.create
  <2>1. a \in Addresses /\ Dirty(s, a) /\ c.root = EmptyTrie /\ (EIP158 => c.nonce # 0)
    BY <1>2, TopSafe DEF Safe
  <2>2. /\ Kept(s, BaseOf(s, fs)) /\ Sound(s) /\ Solvent(s) /\ Held(s) \in Nat
        /\ fs \in Seq(FrameRecord)
    BY ReadyDef
  <2> HIDE DEF a
  <2>3. /\ Extends(s, t, BaseOf(s, fs)) /\ Elsewhere(s, t, a) /\ Dirty(t, a)
        /\ d.alive = c.alive /\ d.nonce = c.nonce /\ d.balance = c.balance
        /\ d.root = c.root /\ StorageOf(d) = StorageOf(c)
        /\ \A b \in Addresses : Balance(t, b) = Balance(s, b)
    BY <2>1, <2>2, SetCodeExtends
  <2> HIDE DEF t
  <2>4. Safer(s, t, fs)
    <3> SUFFICES ASSUME NEW j \in 1..Len(fs), Safe(s, fs[j]) PROVE Safe(t, fs[j])
      BY DEF Safer
    <3>1. fs[j] \in FrameRecord
      BY <2>2
    <3>2. fs[j].addr \in Addresses
      BY <3>1 DEF FrameRecord
    <3>3. CASE fs[j].addr = a
      BY <2>1, <2>3, <3>3 DEF Safe
    <3>4. CASE fs[j].addr # a
      BY <2>3, <3>2, <3>4 DEF Safe, Elsewhere, Dirty
    <3> QED BY <3>3, <3>4
  <2>5. Solvent(t) /\ Held(t) = Held(s)
    BY <2>2, <2>3, HeldSame DEF Solvent
  <2>6. Held(t) <= Held(s)
    BY <2>2, <2>5
  <2>7. Ready(t, fs, sv) /\ t.trie = s.trie
    BY <2>3, <2>4, <2>5, <2>6, ReadyMoves
  <2>8. Sound(t) /\ IsState(t) /\ Basic(s)
    BY <2>2, <2>7, ReadyDef DEF Sound
  <2>9. /\ HasAccount(s, a) /\ AccountAt(s, a) = c /\ HasAccount(t, a) /\ AccountAt(t, a) = d
    BY <2>1, <2>2, <2>3, <2>8, DirtyDef
  <2>10. [Seen(d) EXCEPT !["code"] = 0] = [Seen(c) EXCEPT !["code"] = 0]
    <3>1. (EIP158 /\ ~ c.unchanged /\ IsEmpty(c)) = FALSE
      BY <2>1 DEF IsEmpty
    <3>2. (EIP158 /\ ~ d.unchanged /\ IsEmpty(d)) = FALSE
      BY <2>1, <2>3 DEF IsEmpty
    <3> QED BY <2>3, <3>1, <3>2, SeenBeside
  <2>11. ASSUME NEW b \in Addresses
         PROVE  /\ HasAccount(t, b) <=> HasAccount(s, b)
                /\ HasAccount(s, b) => [Seen(AccountAt(t, b)) EXCEPT !["code"] = 0]
                                          = [Seen(AccountAt(s, b)) EXCEPT !["code"] = 0]
    <3>1. CASE b = a
      BY <2>9, <2>10, <3>1
    <3>2. CASE b # a
      BY <2>1, <2>3, <2>8, <3>2, Local
    <3> QED BY <3>1, <3>2
  <2>12. Promise!Beside(World(t), "code") = Promise!Beside(World(s), "code")
    BY <2>11, BesideSame
  <2> QED BY <1>2, <2>7, <2>12 DEF t, a
<1> QED BY <1>1, <1>2

-----------------------------------------------------------------------------
(***************************************************************************)
(* The actions.                                                            *)
(***************************************************************************)
LEMMA NowIs ==
    ASSUME NEW t, IsState(t), Becomes(t), trie' = t.trie
    PROVE  Now' = t
BY DEF IsState, Becomes, Now

EffectsOf(su, fs) == su \cup UNION {fs[i].suicides : i \in DOMAIN fs}

LEMMA EffectsDef ==
    /\ Effects = EffectsOf(suicides, frames)
    /\ Effects' = EffectsOf(suicides', frames')
BY DEF Effects, EffectsOf

LEMMA EffectsPending ==
    ASSUME NEW fs \in Seq(FrameRecord), NEW su
    PROVE  EffectsOf(su, fs) = su \cup Pending(fs, Len(fs))
<1>1. DOMAIN fs = 1..Len(fs)
  OBVIOUS
<1> QED BY <1>1 DEF EffectsOf, Pending

LEMMA RunningDef ==
    ASSUME FrameInv, frames # <<>>
    PROVE  /\ Ready(Now, frames, saved) /\ tx.phase = "running" /\ tx # NoTx /\ suicides = {}
           /\ frames \in Seq(FrameRecord) /\ Effects = Pending(frames, Len(frames))
           /\ saved # <<>> /\ Len(saved) = Len(frames) /\ saved \in Seq(RangeOf(saved))
           /\ Now.trie = trie
<1>1. tx.phase = "running" /\ suicides = {}
  BY DEF FrameInv
<1>2. tx # NoTx
  BY <1>1 DEF NoTx
<1>3. Ready(Now, frames, saved)
  BY <1>2 DEF FrameInv, Ready
<1>4. /\ frames \in Seq(FrameRecord) /\ Len(saved) = Len(frames)
      /\ saved \in Seq(RangeOf(saved))
  BY DEF FrameInv, FramesOK
<1>5. Effects = Pending(frames, Len(frames))
  BY <1>1, <1>4, EffectsDef, EffectsPending
<1>6. saved # <<>>
  BY <1>4
<1>7. Now.trie = trie
  BY DEF Now
<1> QED BY <1>1, <1>2, <1>3, <1>4, <1>5, <1>6, <1>7

\* The transaction goes on.
LEMMA GoesOn ==
    ASSUME FrameInv, frames # <<>>, Ready(Now', frames', saved'), frames' # <<>>,
           UNCHANGED <<trie, tx, suicides>>
    PROVE  /\ FrameInv' /\ Effects' = Pending(frames', Len(frames'))
<1>1. tx.phase = "running" /\ tx # NoTx /\ suicides = {}
  BY RunningDef
<1>2. /\ Kept(Now', BaseOf(Now', frames')) /\ FramesOK(Now', frames', saved')
      /\ Funded(Now', TxGas * GasPrice)
  BY DEF Ready
<1>3. FrameInv'
  BY <1>1, <1>2 DEF FrameInv
<1>4. frames' \in Seq(FrameRecord)
  BY <1>2 DEF FramesOK
<1>5. suicides' = {}
  BY <1>1
<1>6. Effects' = EffectsOf({}, frames')
  BY <1>5, EffectsDef
<1>7. EffectsOf({}, frames') = {} \cup Pending(frames', Len(frames'))
  BY <1>4, EffectsPending
<1> QED BY <1>3, <1>6, <1>7

LEMMA WriteStep ==
    ASSUME FrameInv, frames # <<>>, Ready(Now', frames', saved'), frames' # <<>>,
           Pending(frames, Len(frames)) \subseteq Pending(frames', Len(frames')),
           UNCHANGED <<trie, tx, suicides, saved>>
    PROVE  FrameInv' /\ Promise!Write
<1>1. FrameInv' /\ Effects' = Pending(frames', Len(frames'))
  BY GoesOn
<1>2. saved # <<>> /\ Effects = Pending(frames, Len(frames))
  BY RunningDef
<1>3. Promise!Write
  BY <1>1, <1>2 DEF Promise!Write
<1> QED BY <1>1, <1>3

LEMMA OpenStep ==
    ASSUME FrameInv, frames # <<>>, NEW f \in FrameRecord, f.suicides = {}, NEW w,
           Promise!Beside(w, "nonce") = Promise!Beside(World(Now), "nonce"),
           Ready(Now', frames', saved'), frames' = Append(frames, f),
           saved' = Append(saved, [world |-> w, effects |-> Effects]),
           UNCHANGED <<trie, tx, suicides>>
    PROVE  FrameInv' /\ Promise!Open
<1> DEFINE x == [world |-> w, effects |-> Effects]
           n == Len(frames)
<1>1. /\ frames \in Seq(FrameRecord) /\ Effects = Pending(frames, n) /\ saved # <<>>
      /\ Len(saved) = n /\ saved \in Seq(RangeOf(saved)) /\ n \in Nat
  BY RunningDef
<1>2. Len(frames') = n + 1 /\ frames'[n + 1] = f /\ \A i \in 1..n : frames'[i] = frames[i]
  BY <1>1
<1>3. frames' # <<>>
  BY <1>1, <1>2
<1>4. FrameInv' /\ Effects' = Pending(frames', Len(frames'))
  BY <1>3, GoesOn
<1>5. Effects' = Effects
  <2>1. \A i \in 1..n + 1 : i \in 1..n \/ i = n + 1
    BY <1>1
  <2>2. \A i \in 1..n : i \in 1..n + 1
    BY <1>1
  <2>3. Pending(frames', n + 1) = Pending(frames, n)
    BY <1>2, <2>1, <2>2 DEF Pending
  <2> QED BY <1>1, <1>2, <1>4, <2>3
<1>6. x.world = w /\ x.effects = Effects
  OBVIOUS
<1> HIDE DEF x
<1>7. saved' = Append(saved, x)
  BY DEF x
<1>8. ASSUME NEW l, l \in Seq(RangeOf(l)), NEW y
      PROVE  /\ Len(Append(l, y)) = Len(l) + 1 /\ Append(l, y)[Len(Append(l, y))] = y
             /\ SubSeq(Append(l, y), 1, Len(l)) = l
  <2>1. /\ Append(l, y) \in Seq(RangeOf(Append(l, y))) /\ Len(Append(l, y)) = Len(l) + 1
    BY <1>8, LogAppend
  <2>2. Len(l) \in Nat /\ Append(l, y)[Len(l) + 1] = y
    BY <1>8
  <2>3. SubSeq(Append(l, y), 1, Len(l)) = l
    <3> DEFINE p == Append(l, y)
               q == SubSeq(p, 1, Len(l))
    <3>1. \A i \in 1..Len(l) : p[i] = l[i]
      BY <1>8
    <3> HIDE DEF p
    <3>2. Len(l) \in 0..Len(p)
      BY <2>1, <2>2 DEF p
    <3>3. q \in Seq(RangeOf(p)) /\ Len(q) = Len(l) /\ \A i \in 1..Len(l) : q[i] = p[i]
      <4>1. ASSUME NEW S, NEW r \in Seq(S), NEW k \in 0..Len(r)
            PROVE  /\ SubSeq(r, 1, k) \in Seq(S) /\ Len(SubSeq(r, 1, k)) = k
                   /\ \A i \in 1..k : SubSeq(r, 1, k)[i] = r[i]
        BY CutProperties
      <4>2. p \in Seq(RangeOf(p))
        BY <2>1 DEF p
      <4> QED BY <3>2, <4>1, <4>2, Zenon
    <3> HIDE DEF q
    <3>4. q = l
      BY <1>8, <2>2, <3>1, <3>3
    <3> QED BY <3>4 DEF q, p
  <2> QED BY <2>1, <2>2, <2>3
<1>9. /\ Len(saved') = Len(saved) + 1 /\ saved'[Len(saved')] = x
      /\ SubSeq(saved', 1, Len(saved)) = saved
  BY <1>1, <1>7, <1>8
<1>10. Promise!Open
  BY <1>1, <1>5, <1>6, <1>9 DEF Promise!Open
<1> QED BY <1>4, <1>10

(***************************************************************************)
(* A frame that ends, with what it leaves.                                 *)
(***************************************************************************)
LEMMA LeaveStep ==
    ASSUME FrameInv, frames # <<>>, NEW t, Becomes(t), trie' = trie, t.trie = trie,
           NEW leave \in SUBSET Addresses, Leave(leave), Sound(t),
           Funded(t, TxGas * GasPrice),
           Len(frames) # 1 =>
              /\ FramesOK(t, Popped(frames, leave), SubSeq(saved, 1, Len(saved) - 1))
              /\ Kept(t, BaseOf(t, Popped(frames, leave)))
    PROVE  /\ FrameInv' /\ Now' = t
           /\ Effects' = Pending(frames, Len(frames) - 1) \cup leave
           /\ saved' = SubSeq(saved, 1, Len(saved) - 1)
<1> DEFINE n == Len(frames)
           sv == SubSeq(saved, 1, Len(saved) - 1)
<1>1. /\ frames \in Seq(FrameRecord) /\ n \in Nat /\ suicides = {} /\ Len(saved) = n
      /\ tx.phase = "running" /\ tx # NoTx /\ saved \in Seq(RangeOf(saved)) /\ saved # <<>>
  BY RunningDef
<1>2. Now' = t
  BY NowIs DEF Sound, Basic
<1>3. saved' = sv
  BY DEF Leave
<1>4. tx.sender \in Addresses /\ tx = [sender |-> tx.sender, phase |-> tx.phase]
      /\ TrieHeld(trie) <= Supply
  BY <1>1 DEF FrameInv
<1>5. CASE n = 1
  <2>1. frames' = <<>> /\ suicides' = leave /\ tx' = [tx EXCEPT !.phase = "over"]
    BY <1>5 DEF Leave
  <2>2. tx' = [sender |-> tx.sender, phase |-> "over"]
    BY <1>4, <2>1
  <2>3. tx'.phase = "over" /\ tx'.sender = tx.sender /\ tx' # NoTx
    BY <2>2 DEF NoTx
  <2>4. BaseOf(t, <<>>) = Len(t.log) /\ Kept(t, Len(t.log))
    BY FreshKept DEF BaseOf
  <2>5. sv \in Seq(RangeOf(sv)) /\ Len(sv) = 0
    BY <1>1, <1>5, FrontDef
  <2>6. FramesOK(t, <<>>, sv)
    <3>1. <<>> \in Seq(FrameRecord) /\ Len(<<>>) = 0 /\ \A j \in 1..0 : FALSE
      OBVIOUS
    <3> QED BY <2>5, <3>1 DEF FramesOK
  <2>7. FrameInv'
    BY <1>2, <1>3, <1>4, <2>1, <2>2, <2>3, <2>4, <2>6 DEF FrameInv
  <2>8. Effects' = EffectsOf(leave, <<>>)
    BY <2>1, EffectsDef
  <2>9. EffectsOf(leave, <<>>) = leave
    BY DEF EffectsOf
  <2>10. Pending(frames, n - 1) = {}
    <3>1. n - 1 = 0 /\ \A j \in 1..0 : FALSE
      BY <1>5
    <3> QED BY <3>1 DEF Pending
  <2> QED BY <1>2, <1>3, <2>7, <2>8, <2>9, <2>10
<1>6. CASE n # 1
  <2> DEFINE gs == Popped(frames, leave)
  <2>1. frames' = gs /\ suicides' = suicides /\ tx' = tx
    BY <1>6 DEF Leave, Popped
  <2>2. /\ gs \in Seq(FrameRecord) /\ Len(gs) = n - 1 /\ gs # <<>>
        /\ Pending(gs, n - 1) = Pending(frames, n - 1) \cup leave
    BY <1>1, <1>6, PoppedDef
  <2> HIDE DEF gs
  <2>3. Ready(t, gs, sv)
    BY <1>6 DEF Ready, gs
  <2>4. Ready(Now', frames', saved') /\ frames' # <<>>
    BY <1>2, <1>3, <2>1, <2>2, <2>3
  <2>5. FrameInv' /\ Effects' = Pending(frames', Len(frames'))
    BY <2>1, <2>4, GoesOn
  <2> QED BY <1>2, <1>3, <2>1, <2>2, <2>5
<1> QED BY <1>5, <1>6

LEMMA EnterStep ==
    ASSUME FrameInv, frames # <<>>, NEW cs, NEW t, NEW f \in FrameRecord, f.suicides = {},
           Promise!Beside(World(cs), "nonce") = Promise!Beside(World(Now), "nonce"),
           Ready(t, Append(frames, f),
                 Append(saved, [world |-> World(cs),
                                effects |-> Pending(frames, Len(frames))])),
           t.trie = trie, Becomes(t), frames' = Append(frames, f),
           saved' = Append(saved, [world |-> World(cs), effects |-> Effects]),
           UNCHANGED <<trie, tx, suicides>>
    PROVE  FrameInv' /\ Promise!Open
<1>1. IsState(t)
  BY ReadyDef
<1>2. Now' = t
  BY <1>1, NowIs
<1>3. Effects = Pending(frames, Len(frames))
  BY RunningDef
<1>4. Ready(Now', frames', saved')
  BY <1>2, <1>3
<1> QED BY <1>4, OpenStep

LEMMA StayStep ==
    ASSUME FrameInv, frames # <<>>, NEW t, Ready(t, frames, saved), t.trie = trie, Becomes(t),
           UNCHANGED <<trie, frames, tx, suicides, saved>>
    PROVE  FrameInv' /\ Promise!Write
<1>1. IsState(t)
  BY ReadyDef
<1>2. Now' = t
  BY <1>1, NowIs
<1>3. Ready(Now', frames', saved') /\ frames' # <<>>
  BY <1>2
<1>4. Pending(frames, Len(frames)) \subseteq Pending(frames', Len(frames'))
  OBVIOUS
<1> QED BY <1>3, <1>4, WriteStep

\* The frame CallCode and CreateCode make.
NewFrame(addr, caller, create, savepoint) ==
    [addr |-> addr, caller |-> caller, create |-> create, savepoint |-> savepoint,
     suicides |-> {}, halted |-> FALSE]

LEMMA NewFrameDef ==
    ASSUME NEW addr \in Addresses, NEW caller \in Addresses, NEW savepoint \in Nat,
           NEW create \in BOOLEAN
    PROVE  LET f == NewFrame(addr, caller, create, savepoint) IN
           /\ f \in FrameRecord /\ f.addr = addr /\ f.create = create
           /\ f.savepoint = savepoint /\ f.suicides = {}
BY DEF NewFrame, FrameRecord

LEMMA CallStep ==
    ASSUME FrameInv, NEW code \in Addresses, NEW to \in Addresses, NEW v \in Nat, NEW picked,
           Call(code, to, v, picked), to = code \/ to = Top.addr
    PROVE  FrameInv' /\ (Promise!Open \/ Promise!Write)
<1>1. frames # <<>> /\ UNCHANGED <<trie, tx, suicides>>
  BY DEF Call, Operation, Running, FrameInv
<1>2. Ready(Now, frames, saved) /\ Now.trie = trie /\ frames \in Seq(FrameRecord)
  BY <1>1, RunningDef
<1>3. PICK s : s = ClearCache(Now, picked)
  OBVIOUS
<1>4. /\ Ready(s, frames, saved) /\ s.trie = trie /\ Covers(Now, s)
  BY <1>2, <1>3, ReadyCleared
<1>5. World(s) = World(Now) /\ Len(s.log) \in Nat
  BY <1>4, CoversWorld, ReadyDef, Levels
<1>6. PICK from : from = Top.addr
  OBVIOUS
<1>7. from \in Addresses /\ v \in Nat
  BY <1>1, <1>2, <1>6, TopSafe DEF Top
<1>8. /\ Balance(s, from) >= v
      /\ CallCode(s, from, code, to, v) \/ CallNoCode(s, from, code, to, v)
  BY <1>3, <1>6 DEF Call
<1>9. CASE CallCode(s, from, code, to, v)
  <2>0. PICK create \in BOOLEAN : create = FALSE
    OBVIOUS
  <2>1. PICK f : f = NewFrame(to, from, create, Len(s.log))
    OBVIOUS
  <2>2. /\ f \in FrameRecord /\ f.addr = to /\ ~ f.create /\ f.savepoint = Len(s.log)
        /\ f.suicides = {}
    <3>1. /\ f \in FrameRecord /\ f.addr = to /\ f.create = create /\ f.savepoint = Len(s.log)
          /\ f.suicides = {}
      BY <1>5, <1>7, <2>1, NewFrameDef
    <3>2. ~ f.create
      BY <2>0, <3>1, Zenon
    <3> QED BY <3>1, <3>2
  <2>3. PICK t : t = TransferBalance(s, from, to, v)
    OBVIOUS
  <2>4. /\ AddressHasCode(s, code) /\ Becomes(t) /\ frames' = Append(frames, f)
        /\ saved' = Append(saved, [world |-> World(s), effects |-> Effects])
    BY <1>9, <2>0, <2>1, <2>3 DEF CallCode, Enter, Savepoint, NewFrame
  <2>5. to = code \/ (frames # <<>> /\ to = frames[Len(frames)].addr)
    BY <1>1 DEF Top
  <2>6. /\ Ready(t, Append(frames, f),
                 Append(saved, [world |-> World(s), effects |-> Pending(frames, Len(frames))]))
        /\ t.trie = trie
    BY <1>4, <1>7, <1>8, <2>2, <2>3, <2>4, <2>5, CallCodeReady
  <2> QED BY <1>1, <1>5, <2>2, <2>4, <2>6, EnterStep
<1>10. CASE CallNoCode(s, from, code, to, v)
  <2>1. UNCHANGED <<frames, saved>>
    BY <1>10 DEF CallNoCode
  <2>2. PICK t \in {TransferBalance(s, from, to, v), s, AddBalance(s, code, 0)} : Becomes(t)
    BY <1>10 DEF CallNoCode
  <2>3. Ready(t, frames, saved) /\ t.trie = trie
    BY <1>4, <1>7, <1>8, <2>2, CallNoCodeReady
  <2> QED BY <1>1, <2>1, <2>2, <2>3, StayStep
<1> QED BY <1>8, <1>9, <1>10

LEMMA CreateStep ==
    ASSUME FrameInv, NEW v \in Amounts, NEW picked, Create(v, picked)
    PROVE  FrameInv' /\ (Promise!Open \/ Promise!Write)
<1>1. frames # <<>> /\ UNCHANGED <<trie, tx, suicides>>
  BY DEF Create, Operation, Running, FrameInv
<1>2. Ready(Now, frames, saved) /\ Now.trie = trie
  BY <1>1, RunningDef
<1>3. PICK s : s = ClearCache(Now, picked)
  OBVIOUS
<1>4. /\ Ready(s, frames, saved) /\ s.trie = trie /\ Covers(Now, s)
  BY <1>2, <1>3, ReadyCleared
<1>5. PICK from : from = Top.addr
  OBVIOUS
<1>6. from \in Addresses /\ v \in Nat
  BY <1>1, <1>2, <1>5, TopSafe, ExecutionAssumption DEF Top
<1>7. PICK cs : cs = IncNonce(s, from)
  OBVIOUS
<1>8. /\ Ready(cs, frames, saved) /\ cs.trie = trie
      /\ Balance(cs, from) = Balance(s, from)
      /\ Promise!Beside(World(cs), "nonce") = Promise!Beside(World(s), "nonce")
  BY <1>1, <1>4, <1>5, <1>6, <1>7, NonceReady DEF Top
<1>9. World(s) = World(Now) /\ Len(cs.log) \in Nat
  BY <1>4, <1>8, CoversWorld, ReadyDef, Levels
<1>10. /\ Balance(s, from) >= v
       /\ \E addr \in Addresses \cap NewAddresses(from, GetNonce(s, from)) :
             \/ CreateCode(cs, from, addr, v)
             \/ CreateNoCode(cs, from, addr, v)
  BY <1>3, <1>5, <1>7 DEF Create
<1>11. PICK addr \in Addresses :
          CreateCode(cs, from, addr, v) \/ CreateNoCode(cs, from, addr, v)
  BY <1>10
<1>12. Balance(cs, from) >= v
  BY <1>8, <1>10
<1>13. CASE CreateCode(cs, from, addr, v)
  <2>0. PICK create \in BOOLEAN : create = TRUE
    OBVIOUS
  <2>1. PICK f : f = NewFrame(addr, from, create, Len(cs.log))
    OBVIOUS
  <2>2. /\ f \in FrameRecord /\ f.addr = addr /\ f.savepoint = Len(cs.log) /\ f.suicides = {}
    BY <1>6, <1>9, <2>1, NewFrameDef
  <2>3. PICK t : t = ClearStorage(Endowed(cs, from, addr, v), addr)
    OBVIOUS
  <2>4. /\ ~ AlreadyUsed(cs, addr) /\ Becomes(t) /\ frames' = Append(frames, f)
        /\ saved' = Append(saved, [world |-> World(cs), effects |-> Effects])
    BY <1>13, <2>0, <2>1, <2>3 DEF CreateCode, Enter, Savepoint, NewFrame
  <2>5. /\ Ready(t, Append(frames, f),
                 Append(saved, [world |-> World(cs), effects |-> Pending(frames, Len(frames))]))
        /\ t.trie = trie
    BY <1>6, <1>8, <1>12, <2>2, <2>3, <2>4, CreateCodeReady
  <2>6. Promise!Beside(World(cs), "nonce") = Promise!Beside(World(Now), "nonce")
    BY <1>8, <1>9
  <2> QED BY <1>1, <2>2, <2>4, <2>5, <2>6, EnterStep
<1>14. CASE CreateNoCode(cs, from, addr, v)
  <2>1. PICK t : t = IF AlreadyUsed(cs, addr) THEN Rollback(cs, Savepoint(cs))
                     ELSE Endowed(cs, from, addr, v)
    OBVIOUS
  <2>2. Becomes(t) /\ UNCHANGED <<frames, saved>>
    BY <1>14, <2>1 DEF CreateNoCode
  <2>3. Ready(t, frames, saved) /\ t.trie = trie
    BY <1>6, <1>8, <1>12, <2>1, CreateNoCodeReady
  <2> QED BY <1>1, <2>2, <2>3, StayStep
<1> QED BY <1>11, <1>13, <1>14

LEMMA StoreStep ==
    ASSUME FrameInv, NEW k \in Keys, NEW v \in Values, NEW picked, Store(k, v, picked)
    PROVE  FrameInv' /\ Promise!Write
<1>1. frames # <<>> /\ UNCHANGED <<trie, frames, tx, suicides, saved>>
  BY DEF Store, Operation, Running, FrameInv
<1>2. Ready(Now, frames, saved) /\ Now.trie = trie
  BY <1>1, RunningDef
<1>3. PICK s : s = ClearCache(Now, picked)
  OBVIOUS
<1>4. Ready(s, frames, saved) /\ s.trie = trie
  BY <1>2, <1>3, ReadyCleared
<1>5. PICK t : t = SetStorage(s, Top.addr, k, v)
  OBVIOUS
<1>6. Ready(t, frames, saved) /\ t.trie = trie
  BY <1>1, <1>4, <1>5, StoreReady DEF Top
<1>7. Becomes(t)
  BY <1>3, <1>5 DEF Store
<1> QED BY <1>1, <1>6, <1>7, StayStep

LEMMA LoadStep ==
    ASSUME FrameInv, NEW k \in Keys, NEW picked, Load(k, picked)
    PROVE  FrameInv' /\ Promise!Write
<1>1. frames # <<>> /\ UNCHANGED <<trie, frames, tx, suicides, saved>>
  BY DEF Load, Operation, Running, FrameInv
<1>2. Ready(Now, frames, saved) /\ Now.trie = trie
  BY <1>1, RunningDef
<1>3. PICK s : s = ClearCache(Now, picked)
  OBVIOUS
<1>4. Ready(s, frames, saved) /\ s.trie = trie
  BY <1>2, <1>3, ReadyCleared
<1>5. PICK t : t = StorageRead(s, Top.addr, k)
  OBVIOUS
<1>6. Ready(t, frames, saved) /\ t.trie = trie
  BY <1>1, <1>4, <1>5, LoadReady DEF Top
<1>7. Becomes(t)
  BY <1>3, <1>5 DEF Load
<1> QED BY <1>1, <1>6, <1>7, StayStep

LEMMA SuicideStep ==
    ASSUME FrameInv, NEW heir \in Addresses, NEW picked, Suicide(heir, picked)
    PROVE  FrameInv' /\ Promise!Write
<1>1. frames # <<>> /\ UNCHANGED <<trie, tx, suicides, saved>>
  BY DEF Suicide, Operation, Running, FrameInv
<1>2. Ready(Now, frames, saved) /\ Now.trie = trie
  BY <1>1, RunningDef
<1>3. PICK s : s = ClearCache(Now, picked)
  OBVIOUS
<1>4. Ready(s, frames, saved) /\ s.trie = trie
  BY <1>2, <1>3, ReadyCleared
<1>5. PICK t : t = SetBalance(AddBalance(s, heir, Balance(s, Top.addr)), Top.addr, 0)
  OBVIOUS
<1>6. PICK gs : gs = [frames EXCEPT ![Len(frames)].suicides = @ \cup {Top.addr},
                                    ![Len(frames)].halted = TRUE]
  OBVIOUS
<1>7. /\ Ready(t, gs, saved) /\ t.trie = trie /\ gs # <<>> /\ Len(gs) = Len(frames)
      /\ Pending(frames, Len(frames)) \subseteq Pending(gs, Len(frames))
  BY <1>1, <1>4, <1>5, <1>6, SuicideReady DEF Top
<1>8. Becomes(t) /\ frames' = gs
  BY <1>3, <1>5, <1>6 DEF Suicide
<1>9. Now' = t
  BY <1>1, <1>7, <1>8, NowIs, ReadyDef
<1>10. Ready(Now', frames', saved') /\ frames' # <<>>
  BY <1>1, <1>7, <1>8, <1>9
<1>11. Pending(frames, Len(frames)) \subseteq Pending(frames', Len(frames'))
  BY <1>7, <1>8
<1> QED BY <1>1, <1>10, <1>11, WriteStep

LEMMA ReturnStep ==
    ASSUME FrameInv, NEW code, NEW picked, Return(code, picked)
    PROVE  FrameInv' /\ Promise!Keep
<1>1. frames # <<>> /\ trie' = trie
  BY DEF Return, FrameInv
<1>2. Ready(Now, frames, saved) /\ Now.trie = trie /\ frames \in Seq(FrameRecord)
      /\ saved # <<>> /\ Effects = Pending(frames, Len(frames))
  BY <1>1, RunningDef
<1>3. PICK s : s = ClearCache(Now, picked)
  OBVIOUS
<1>4. Ready(s, frames, saved) /\ s.trie = trie /\ Covers(Now, s)
  BY <1>2, <1>3, ReadyCleared
<1>5. PICK t : t = Deposited(s, code)
  OBVIOUS
<1>6. /\ Ready(t, frames, saved) /\ t.trie = trie
      /\ Promise!Beside(World(t), "code") = Promise!Beside(World(s), "code")
  BY <1>1, <1>4, <1>5, DepositReady DEF Deposited, Top
<1>7. PICK leave : leave = Top.suicides
  OBVIOUS
<1>8. Len(frames) \in Nat /\ Len(frames) \in 1..Len(frames) /\ Top \in FrameRecord
  BY <1>1, <1>2, TopSafe DEF Top
<1>9. leave \in SUBSET Addresses
  BY <1>7, <1>8 DEF FrameRecord
<1>10. Becomes(t) /\ Leave(leave)
  BY <1>3, <1>5, <1>7 DEF Return
<1>11. /\ Sound(t) /\ Funded(t, TxGas * GasPrice) /\ FramesOK(t, frames, saved)
       /\ Kept(t, BaseOf(t, frames))
  BY <1>6, ReadyDef DEF Ready
<1>12. Len(frames) # 1 =>
          /\ FramesOK(t, Popped(frames, leave), SubSeq(saved, 1, Len(saved) - 1))
          /\ Kept(t, BaseOf(t, Popped(frames, leave)))
  BY <1>1, <1>9, <1>11, FramesReturn
<1>13. /\ FrameInv' /\ Now' = t
       /\ Effects' = Pending(frames, Len(frames) - 1) \cup leave
       /\ saved' = SubSeq(saved, 1, Len(saved) - 1)
  BY <1>1, <1>6, <1>9, <1>10, <1>11, <1>12, LeaveStep
<1>14. Effects' = Effects
  <2>1. \A i \in 1..Len(frames) : i \in 1..Len(frames) - 1 \/ i = Len(frames)
    BY <1>8
  <2>2. \A i \in 1..Len(frames) - 1 : i \in 1..Len(frames)
    BY <1>8
  <2>3. Pending(frames, Len(frames)) = Pending(frames, Len(frames) - 1) \cup leave
    BY <1>7, <1>8, <2>1, <2>2 DEF Pending, Top
  <2> QED BY <1>2, <1>13, <2>3
<1>15. World(Now)' = World(t)
  BY <1>13
<1>16. Promise!Beside(World(t), "code") = Promise!Beside(World(Now), "code")
  BY <1>4, <1>6, CoversWorld
<1>17. Promise!Keep
  BY <1>2, <1>13, <1>14, <1>15, <1>16 DEF Promise!Keep
<1> QED BY <1>13, <1>17

LEMMA RevertStep ==
    ASSUME FrameInv, Revert
    PROVE  FrameInv' /\ Promise!Fail
<1>1. frames # <<>> /\ trie' = trie
  BY DEF Revert, Running, FrameInv
<1>2. /\ Ready(Now, frames, saved) /\ Now.trie = trie /\ frames \in Seq(FrameRecord)
      /\ saved # <<>> /\ Len(saved) = Len(frames)
  BY <1>1, RunningDef
<1>3. PICK t : t = Rollback(Now, Top.savepoint)
  OBVIOUS
<1>4. Kept(Now, BaseOf(Now, frames)) /\ FramesOK(Now, frames, saved)
  BY <1>2, ReadyDef
<1>5. /\ Kept(t, BaseOf(Now, frames)) /\ t.trie = trie /\ Funded(t, TxGas * GasPrice)
      /\ saved[Len(saved)] = [world |-> World(t), effects |-> Pending(frames, Len(frames) - 1)]
      /\ Len(frames) # 1 =>
            /\ FramesOK(t, Popped(frames, {}), SubSeq(saved, 1, Len(saved) - 1))
            /\ BaseOf(t, Popped(frames, {})) = BaseOf(Now, frames)
  BY <1>1, <1>2, <1>3, <1>4, FramesRevert DEF Top
<1>6. Becomes(t) /\ Leave({}) /\ {} \in SUBSET Addresses /\ Sound(t)
  BY <1>3, <1>5 DEF Revert, Kept
<1>7. Len(frames) # 1 =>
         /\ FramesOK(t, Popped(frames, {}), SubSeq(saved, 1, Len(saved) - 1))
         /\ Kept(t, BaseOf(t, Popped(frames, {})))
  BY <1>5
<1>8. /\ FrameInv' /\ Now' = t
      /\ Effects' = Pending(frames, Len(frames) - 1) \cup {}
      /\ saved' = SubSeq(saved, 1, Len(saved) - 1)
  BY <1>1, <1>5, <1>6, <1>7, LeaveStep
<1>9. saved[Len(saved)].world = World(t)
      /\ saved[Len(saved)].effects = Pending(frames, Len(frames) - 1)
  BY <1>5
<1>10. World(Now)' = World(t)
  BY <1>8
<1>11. Effects' = saved[Len(saved)].effects
  BY <1>8, <1>9
<1>12. Promise!Fail
  BY <1>2, <1>8, <1>9, <1>10, <1>11 DEF Promise!Fail
<1> QED BY <1>8, <1>12

(***************************************************************************)
(* Between transactions.                                                   *)
(***************************************************************************)
LEMMA EmptyFrames ==
    ASSUME FrameInv, frames = <<>>
    PROVE  /\ Sound(Now) /\ saved = <<>> /\ Now.trie = trie /\ Formal(trie)
           /\ TrieHeld(trie) <= Supply
<1>1. Sound(Now) /\ FramesOK(Now, <<>>, saved) /\ TrieHeld(trie) <= Supply
  BY DEF FrameInv, Kept
<1>2. saved = <<>>
  <2>1. saved \in Seq(RangeOf(saved)) /\ Len(saved) = Len(<<>>)
    BY <1>1 DEF FramesOK
  <2> QED BY <2>1
<1>3. Now.trie = trie
  BY DEF Now
<1>4. Formal(trie)
  <2>1. \A a \in Addresses : FitAt(Now, a)
    BY <1>1 DEF Sound, Basic
  <2> QED BY <1>3, <2>1 DEF FitAt, Formal
<1> QED BY <1>1, <1>2, <1>3, <1>4

LEMMA NoFramesOK ==
    ASSUME NEW t
    PROVE  FramesOK(t, <<>>, <<>>) /\ BaseOf(t, <<>>) = Len(t.log)
<1>1. /\ <<>> \in Seq(FrameRecord) /\ <<>> \in Seq(RangeOf(<<>>)) /\ Len(<<>>) = 0
      /\ \A j \in 1..0 : FALSE
  OBVIOUS
<1> QED BY <1>1 DEF FramesOK, BaseOf

LEMMA TrieOnly ==
    ASSUME NEW t, IsState(t), OnlyTrie(t), Formal(t.trie)
    PROVE  Sound(t) /\ Solvent(t) /\ Held(t) = TrieHeld(t.trie)
<1>1. /\ Sound(t) /\ Solvent(t)
      /\ \A a \in Addresses : Balance(t, a) = TrieBalance(t.trie, a)
  BY OnlyTrieSound
<1>2. [a \in Addresses |-> Balance(t, a)] = [a \in Addresses |-> TrieBalance(t.trie, a)]
  BY <1>1
<1> QED BY <1>1, <1>2 DEF Held, TrieHeld

\* No transaction, and an empty cache.
LEMMA SettledInv ==
    ASSUME NEW t, IsState(t), OnlyTrie(t), Formal(t.trie), TrieHeld(t.trie) <= Supply,
           Becomes(t), trie' = t.trie, frames' = <<>>, saved' = <<>>, tx' = NoTx,
           suicides' = {}
    PROVE  FrameInv' /\ Effects' = {}
<1>1. Now' = t
  BY NowIs
<1>2. Sound(t) /\ Solvent(t) /\ Held(t) = TrieHeld(t.trie) /\ Held(t) \in Nat
  BY TrieOnly, HeldType
<1>3. Held(t) + 0 <= Supply
  BY <1>2
<1>4. Funded(t, 0)
  BY <1>2, <1>3, SolventFunded
<1>5. Kept(t, BaseOf(t, <<>>)) /\ FramesOK(t, <<>>, <<>>)
  BY <1>2, FreshKept, NoFramesOK
<1>6. /\ NoTx = [sender |-> NoTx.sender, phase |-> NoTx.phase] /\ NoTx.phase = "none"
  BY DEF NoTx
<1>7. FrameInv'
  BY <1>1, <1>4, <1>5, <1>6 DEF FrameInv
<1>8. Effects' = EffectsOf({}, <<>>)
  BY EffectsDef
<1>9. EffectsOf({}, <<>>) = {}
  BY DEF EffectsOf
<1> QED BY <1>7, <1>8, <1>9

LEMMA GenesisFormal == Formal(Genesis) /\ TrieHeld(Genesis) = Supply /\ Supply \in Nat
<1>1. Formal(Genesis)
  <2> SUFFICES ASSUME NEW a \in Addresses, Genesis[a] # NoAccount
               PROVE  /\ Genesis[a].nonce \in Nat /\ Genesis[a].balance \in Nat
                      /\ IsStorage(Genesis[a].root)
    BY DEF Formal
  <2>1. Genesis[a] \in TrieAccount
    BY ExecutionAssumption
  <2>2. /\ Genesis[a].nonce \in Nat /\ Genesis[a].balance \in Nat
        /\ Genesis[a].root \in [Keys -> Values]
    BY <2>1 DEF TrieAccount
  <2> QED BY <2>2 DEF IsStorage
<1>2. TrieHeld(Genesis) = Supply
  BY DEF TrieHeld, TrieBalance, Supply
<1>3. Supply \in Nat
  <2> DEFINE f == [a \in Addresses |-> TrieBalance(Genesis, a)]
  <2>1. ASSUME NEW a \in Addresses PROVE f[a] \in Nat
    BY <1>1 DEF Formal, TrieBalance
  <2>2. f \in [Addresses -> Nat]
    BY <2>1
  <2>3. AddressOrder \in Seq(Addresses)
    BY AddressOrdered, OrderingsProperties, StateAssumption
  <2> HIDE DEF f
  <2>4. SumOf(f, AddressOrder) \in Nat
    BY <2>2, <2>3, SumOfType
  <2> QED BY <1>2, <2>4 DEF TrieHeld, f
<1> QED BY <1>1, <1>2, <1>3

LEMMA InitInv == Init => FrameInv /\ Promise!Init
<1> SUFFICES ASSUME Init PROVE FrameInv /\ Promise!Init
  OBVIOUS
<1>1. /\ Now = [cache |-> <<>>, log |-> <<>>, absent |-> {}, clean |-> {}, trie |-> Genesis]
      /\ frames = <<>> /\ saved = <<>> /\ tx = NoTx /\ suicides = {} /\ trie = Genesis
  BY DEF Init, Now
<1>2. Now.cache = <<>> /\ Now.log = <<>> /\ Now.absent = {} /\ Now.trie = Genesis
  BY <1>1
<1>3. IsState(Now) /\ OnlyTrie(Now) /\ Formal(Now.trie) /\ TrieHeld(Now.trie) <= Supply
  <2>1. <<>> \in Seq(RangeOf(<<>>)) /\ DOMAIN <<>> = {}
    OBVIOUS
  <2>2. TrieHeld(Genesis) <= Supply
    BY GenesisFormal
  <2> QED BY <1>1, <1>2, <2>1, <2>2, GenesisFormal DEF IsState, OnlyTrie
<1>4. Sound(Now) /\ Solvent(Now) /\ Held(Now) = TrieHeld(Genesis) /\ Held(Now) \in Nat
  BY <1>2, <1>3, TrieOnly, HeldType
<1>5. Held(Now) + 0 <= Supply
  BY <1>2, <1>3, <1>4
<1>6. Funded(Now, 0)
  BY <1>4, <1>5, SolventFunded
<1>7. Kept(Now, BaseOf(Now, <<>>)) /\ FramesOK(Now, <<>>, <<>>)
  BY <1>4, FreshKept, NoFramesOK
<1>8. /\ NoTx = [sender |-> NoTx.sender, phase |-> NoTx.phase] /\ NoTx.phase = "none"
  BY DEF NoTx
<1>9. FrameInv
  BY <1>1, <1>2, <1>3, <1>6, <1>7, <1>8 DEF FrameInv
<1>10. Promise!Init
  BY <1>1 DEF Promise!Init, Effects
<1> QED BY <1>9, <1>10

LEMMA SetRootStep ==
    ASSUME FrameInv, SetRoot
    PROVE  FrameInv' /\ Promise!Settle
<1>1. /\ tx = NoTx /\ trie' = Genesis /\ UNCHANGED <<frames, tx, suicides, saved>>
      /\ Becomes([Now EXCEPT !.cache = <<>>, !.clean = {}, !.absent = {}])
  BY DEF SetRoot
<1>2. frames = <<>> /\ suicides = {}
  BY <1>1 DEF FrameInv, NoTx
<1>3. Sound(Now) /\ saved = <<>>
  BY <1>2, EmptyFrames
<1>4. PICK t : t = [cache |-> <<>>, log |-> Now.log, absent |-> {}, clean |-> {}, trie |-> Genesis]
  OBVIOUS
<1>5. t.cache = <<>> /\ t.log = Now.log /\ t.absent = {} /\ t.clean = {} /\ t.trie = Genesis
  BY <1>4
<1>6. Becomes(t)
  BY <1>1, <1>5 DEF Becomes, Now
<1>7. IsState(t) /\ OnlyTrie(t)
  <2>1. Now.log \in Seq(RangeOf(Now.log)) /\ DOMAIN <<>> = {}
    BY <1>3 DEF Sound, Basic, IsState
  <2> QED BY <1>4, <1>5, <2>1 DEF IsState, OnlyTrie
<1>8. Formal(t.trie) /\ TrieHeld(t.trie) <= Supply
  BY <1>5, GenesisFormal
<1>9. FrameInv' /\ Effects' = {}
  BY <1>1, <1>2, <1>3, <1>5, <1>6, <1>7, <1>8, SettledInv
<1>10. Len(saved') <= 1
  BY <1>1, <1>3
<1>11. Promise!Settle
  BY <1>3, <1>9, <1>10 DEF Promise!Settle
<1> QED BY <1>9, <1>11

LEMMA OverDef ==
    ASSUME FrameInv, tx.phase = "over", NEW gas \in 0..TxGas
    PROVE  /\ frames = <<>> /\ saved = <<>> /\ suicides \in SUBSET Addresses
           /\ \E p : /\ Sound(p) /\ p.trie = trie /\ Solvent(p) /\ Held(p) <= Supply
                     /\ Finalized(Now, gas) = Kill(p, suicides)
<1>1. frames = <<>> /\ tx # NoTx /\ suicides \in SUBSET Addresses /\ tx.sender \in Addresses
  BY DEF FrameInv
<1>2. Sound(Now) /\ saved = <<>> /\ Now.trie = trie
  BY <1>1, EmptyFrames
<1>3. Funded(Now, TxGas * GasPrice)
  BY <1>1 DEF FrameInv
<1> DEFINE p == AddBalance(AddBalance(Now, tx.sender, gas * GasPrice), Author,
                           (TxGas - gas) * GasPrice)
<1>4. Sound(p) /\ p.trie = trie /\ Solvent(p) /\ Held(p) <= Supply
  BY <1>1, <1>2, <1>3, PaidSound
<1>5. Finalized(Now, gas) = Kill(p, suicides)
  BY DEF Finalized
<1> QED BY <1>1, <1>2, <1>4, <1>5

LEMMA CommitStep ==
    ASSUME FrameInv, NEW gas \in 0..TxGas, Commit(gas)
    PROVE  FrameInv' /\ Promise!Settle
<1>1. /\ tx.phase = "over" /\ tx' = NoTx /\ suicides' = {} /\ UNCHANGED <<frames, saved>>
  BY DEF Commit
<1>2. frames = <<>> /\ saved = <<>> /\ suicides \in SUBSET Addresses
  BY <1>1, OverDef
<1>3. PICK p : /\ Sound(p) /\ p.trie = trie /\ Solvent(p) /\ Held(p) <= Supply
               /\ Finalized(Now, gas) = Kill(p, suicides)
  BY <1>1, OverDef
<1>4. PICK kept : kept = LET k == Kill(p, suicides) IN
                         IF EIP158 THEN RemoveEmptyAccounts(k) ELSE k
  OBVIOUS
<1>5. PICK tr : tr = Committed(kept)
  OBVIOUS
<1>6. /\ trie' = tr
      /\ Becomes([cache |-> <<>>, log |-> <<>>, absent |-> kept.absent, clean |-> {}])
  BY <1>3, <1>4, <1>5 DEF Commit
<1>7. /\ Formal(tr) /\ kept.absent \subseteq Addresses
      /\ \A a \in kept.absent : tr[a] = NoAccount
      /\ \A a \in Addresses : TrieBalance(tr, a) \in Nat /\ TrieBalance(tr, a) <= Balance(p, a)
  BY <1>2, <1>3, <1>4, <1>5, CommittedDef
<1>8. PICK t : t = [cache |-> <<>>, log |-> <<>>, absent |-> kept.absent, clean |-> {}, trie |-> tr]
  OBVIOUS
<1>9. /\ t.cache = <<>> /\ t.log = <<>> /\ t.absent = kept.absent /\ t.clean = {} /\ t.trie = tr
  BY <1>8
<1>10. Becomes(t)
  BY <1>6, <1>9 DEF Becomes
<1>11. IsState(t) /\ OnlyTrie(t)
  <2>1. <<>> \in Seq(RangeOf(<<>>)) /\ DOMAIN <<>> = {}
    OBVIOUS
  <2> QED BY <1>7, <1>8, <1>9, <2>1 DEF IsState, OnlyTrie
<1>12. TrieHeld(tr) <= Supply
  <2>1. /\ Solvent(t) /\ Held(t) = TrieHeld(tr)
        /\ \A a \in Addresses : Balance(t, a) = TrieBalance(tr, a)
    BY <1>7, <1>9, <1>11, TrieOnly, OnlyTrieSound
  <2>2. \A a \in Addresses : Balance(t, a) <= Balance(p, a)
    BY <1>7, <2>1
  <2>3. Held(t) <= Held(p) /\ Held(t) \in Nat /\ Held(p) \in Nat
    BY <1>3, <2>1, <2>2, HeldMonotone, HeldType
  <2> QED BY <1>3, <2>1, <2>3, GenesisFormal
<1>13. FrameInv' /\ Effects' = {}
  BY <1>1, <1>2, <1>6, <1>7, <1>9, <1>10, <1>11, <1>12, SettledInv
<1>14. Len(saved') <= 1
  BY <1>1, <1>2
<1>15. Promise!Settle
  BY <1>2, <1>13, <1>14 DEF Promise!Settle
<1> QED BY <1>13, <1>15

LEMMA DropStep ==
    ASSUME FrameInv, NEW gas \in 0..TxGas, Drop(gas)
    PROVE  FrameInv' /\ Promise!Settle
<1>1. /\ tx.phase = "over" /\ tx' = NoTx /\ suicides' = {} /\ UNCHANGED <<trie, frames, saved>>
      /\ Becomes([Finalized(Now, gas) EXCEPT !.cache = <<>>])
  BY DEF Drop
<1>2. frames = <<>> /\ saved = <<>> /\ suicides \in SUBSET Addresses
  BY <1>1, OverDef
<1>3. Formal(trie) /\ TrieHeld(trie) <= Supply
  BY <1>2, EmptyFrames
<1>4. PICK p : /\ Sound(p) /\ p.trie = trie /\ Solvent(p) /\ Held(p) <= Supply
               /\ Finalized(Now, gas) = Kill(p, suicides)
  BY <1>1, OverDef
<1>5. PICK k : k = Kill(p, suicides)
  OBVIOUS
<1>6. /\ k = [cache |-> k.cache, log |-> k.log, absent |-> k.absent, clean |-> k.clean,
              trie |-> k.trie]
      /\ k.trie = trie /\ k.log = p.log /\ k.absent \subseteq Addresses
      /\ \A a \in k.absent : trie[a] = NoAccount
  BY <1>2, <1>4, <1>5, KillDef
<1>7. PICK t : t = [k EXCEPT !.cache = <<>>]
  OBVIOUS
<1>8. Becomes(t)
  BY <1>1, <1>4, <1>5, <1>7
<1>9. /\ t = [cache |-> t.cache, log |-> t.log, absent |-> t.absent, clean |-> t.clean,
              trie |-> t.trie]
      /\ t.cache = <<>> /\ t.log = p.log /\ t.absent = k.absent /\ t.trie = trie
  BY <1>6, <1>7
<1>10. IsState(t) /\ OnlyTrie(t)
  <2>1. p.log \in Seq(RangeOf(p.log)) /\ DOMAIN <<>> = {}
    BY <1>4 DEF Sound, Basic, IsState
  <2> QED BY <1>6, <1>9, <2>1 DEF IsState, OnlyTrie
<1>11. FrameInv' /\ Effects' = {}
  BY <1>1, <1>2, <1>3, <1>8, <1>9, <1>10, SettledInv
<1>12. Len(saved') <= 1
  BY <1>1, <1>2
<1>13. Promise!Settle
  BY <1>2, <1>11, <1>12 DEF Promise!Settle
<1> QED BY <1>11, <1>13

\* A transaction pays for its gas, and its nonce is spent.
LEMMA PaidReady ==
    ASSUME NEW s0, Sound(s0), Funded(s0, 0), NEW sender \in Addresses, NEW v \in Nat, NEW picked,
           NEW s, s = ClearCache(s0, picked), Balance(s, sender) >= TxGas * GasPrice + v,
           NEW cs, cs = IncNonce(SubBalance(s, sender, TxGas * GasPrice), sender)
    PROVE  /\ Ready(cs, <<>>, <<>>) /\ cs.trie = s0.trie /\ Balance(cs, sender) >= v
<1>0. PICK g \in Nat : g = TxGas * GasPrice
  BY GasPaid
<1>1. Sound(s) /\ s.trie = s0.trie /\ Covers(s0, s)
  BY ClearCacheSound
<1>2. Solvent(s0) /\ Held(s0) \in Nat /\ Held(s0) + 0 <= Supply /\ Supply \in Nat
  BY FundedSolvent, GenesisFormal DEF Funded
<1>3. \A b \in Addresses : Balance(s, b) = Balance(s0, b)
  BY <1>1, CoversReads
<1>4. Solvent(s) /\ Held(s) = Held(s0)
  BY <1>2, <1>3, HeldSame DEF Solvent
<1>5. PICK p : p = SubBalance(s, sender, g)
  OBVIOUS
<1>6. /\ Extends(s, p, Len(s.log)) /\ Balance(p, sender) = Balance(s, sender) - g
      /\ \A b \in Addresses \ {sender} : Balance(p, b) = Balance(s, b)
  BY <1>1, <1>5, FreshKept, SubBalanceExtends
<1>7. Sound(p) /\ p.trie = s.trie
  BY <1>6 DEF Extends, Kept
<1>8. PICK x \in Int : x = 0 - g
  OBVIOUS
<1>9. Balance(s, sender) \in Nat
  BY <1>4 DEF Solvent
<1>10. Balance(p, sender) = Balance(s, sender) + x /\ Balance(s, sender) + x >= 0
  BY <1>0, <1>6, <1>8, <1>9
<1>11. Solvent(p) /\ Held(p) = Held(s) + x
  BY <1>4, <1>6, <1>10, HeldAdd
<1>12. cs = IncNonce(p, sender)
  BY <1>0, <1>5
<1>13. Sound(cs) /\ cs.trie = p.trie /\ \A b \in Addresses : Balance(cs, b) = Balance(p, b)
  BY <1>7, <1>12, IncNonceSound
<1>14. Solvent(cs) /\ Held(cs) = Held(p)
  BY <1>11, <1>13, HeldSame DEF Solvent
<1>15. Held(cs) + g <= Supply
  BY <1>2, <1>4, <1>8, <1>11, <1>14
<1>16. Funded(cs, g)
  BY <1>14, <1>15, SolventFunded
<1>17. Balance(cs, sender) >= v
  BY <1>0, <1>6, <1>9, <1>13
<1>18. Ready(cs, <<>>, <<>>)
  BY <1>0, <1>13, <1>16, FreshKept, NoFramesOK DEF Ready
<1> QED BY <1>1, <1>7, <1>13, <1>17, <1>18

\* It has begun, with a frame or already at its end.
LEMMA BegunStep ==
    ASSUME FrameInv, tx = NoTx, NEW sender \in Addresses, NEW t, NEW fs, NEW sv,
           Ready(t, fs, sv), t.trie = trie, Becomes(t), frames' = fs, saved' = sv,
           Len(sv) <= 1, Pending(fs, Len(fs)) = {},
           tx' = [sender |-> sender, phase |-> IF frames' = <<>> THEN "over" ELSE "running"],
           UNCHANGED <<trie, suicides>>
    PROVE  FrameInv' /\ Promise!Settle
<1>1. frames = <<>> /\ suicides = {}
  BY DEF FrameInv, NoTx
<1>2. saved = <<>> /\ TrieHeld(trie) <= Supply
  BY <1>1, EmptyFrames
<1>3. Now' = t
  BY NowIs, ReadyDef
<1>4. PICK phase \in {"over", "running"} :
         /\ phase = "running" <=> frames' # <<>>
         /\ tx' = [sender |-> sender, phase |-> phase]
  OBVIOUS
<1>5. /\ tx' = [sender |-> tx'.sender, phase |-> tx'.phase] /\ tx'.phase = phase
      /\ tx'.sender = sender /\ tx'.phase # "none"
  BY <1>4
<1>6. tx' # NoTx
  BY <1>5 DEF NoTx
<1>7. /\ Kept(t, BaseOf(t, fs)) /\ FramesOK(t, fs, sv) /\ Funded(t, TxGas * GasPrice)
      /\ fs \in Seq(FrameRecord)
  BY ReadyDef DEF Ready
<1>8. suicides' = {} /\ trie' = trie
  BY <1>1
<1>9. FrameInv'
  BY <1>2, <1>3, <1>4, <1>5, <1>6, <1>7, <1>8 DEF FrameInv
<1>10. EffectsOf({}, fs) = {} \cup Pending(fs, Len(fs))
  BY <1>7, EffectsPending
<1>11. Effects' = {}
  BY <1>8, <1>10, EffectsDef
<1>12. Promise!Settle
  BY <1>2, <1>11 DEF Promise!Settle
<1> QED BY <1>9, <1>12

LEMMA OneFrame ==
    ASSUME NEW f \in FrameRecord, f.suicides = {}, NEW x
    PROVE  /\ Pending(Append(<<>>, f), Len(Append(<<>>, f))) = {} /\ Pending(<<>>, Len(<<>>)) = {}
           /\ Len(Append(<<>>, x)) = 1
<1>1. Len(Append(<<>>, f)) = 1 /\ Len(Append(<<>>, x)) = 1 /\ Append(<<>>, f)[1] = f
  OBVIOUS
<1>2. \A i \in 1..1 : i = 1
  OBVIOUS
<1>3. Pending(Append(<<>>, f), 1) = {}
  BY <1>1, <1>2 DEF Pending
<1>4. Pending(<<>>, Len(<<>>)) = {}
  BY DEF Pending
<1> QED BY <1>1, <1>3, <1>4

LEMMA BeginTxStep ==
    ASSUME FrameInv, NEW sender \in Senders, NEW picked, BeginTx(sender, picked)
    PROVE  FrameInv' /\ Promise!Settle
<1>1. /\ tx = NoTx /\ UNCHANGED <<trie, suicides>> /\ sender \in Addresses
      /\ tx' = [sender |-> sender, phase |-> IF frames' = <<>> THEN "over" ELSE "running"]
  BY ExecutionAssumption DEF BeginTx
<1>2. frames = <<>> /\ suicides = {}
  BY <1>1 DEF FrameInv, NoTx
<1>3. Sound(Now) /\ saved = <<>> /\ Now.trie = trie /\ Funded(Now, 0)
  BY <1>1, <1>2, EmptyFrames DEF FrameInv
<1>4. PICK s : s = ClearCache(Now, picked)
  OBVIOUS
<1>5. PICK v \in Amounts :
        /\ Balance(s, sender) >= TxGas * GasPrice + v
        /\ LET cs == IncNonce(SubBalance(s, sender, TxGas * GasPrice), sender) IN
           \/ \E to \in Addresses : CallCode(cs, sender, to, to, v) \/ CallNoCode(cs, sender, to, to, v)
           \/ \E addr \in Addresses : CreateCode(cs, sender, addr, v) \/ CreateNoCode(cs, sender, addr, v)
  BY <1>4 DEF BeginTx
<1>6. v \in Nat
  BY ExecutionAssumption
<1>7. PICK cs : cs = IncNonce(SubBalance(s, sender, TxGas * GasPrice), sender)
  OBVIOUS
<1>8. Ready(cs, <<>>, <<>>) /\ cs.trie = trie /\ Balance(cs, sender) >= v
  BY <1>1, <1>3, <1>4, <1>5, <1>6, <1>7, PaidReady
<1>9. PICK none : none = <<>>
  OBVIOUS
<1>10. Ready(cs, none, none)
  BY <1>8, <1>9
<1>11. Len(cs.log) \in Nat
  BY <1>8, ReadyDef, Levels
<1>12. Effects = {} /\ Pending(<<>>, Len(<<>>)) = {}
  BY <1>2 DEF Effects, Pending
<1>13. ASSUME NEW t, NEW create \in BOOLEAN, NEW addr \in Addresses, NEW f,
              f = NewFrame(addr, sender, create, Len(cs.log)),
              Ready(t, Append(none, f),
                    Append(none, [world |-> World(cs), effects |-> Pending(none, Len(none))])),
              t.trie = trie, Becomes(t), frames' = Append(frames, f),
              saved' = Append(saved, [world |-> World(cs), effects |-> Effects])
       PROVE  FrameInv' /\ Promise!Settle
  <2>1. f \in FrameRecord /\ f.suicides = {}
    BY <1>1, <1>11, <1>13, NewFrameDef
  <2>2. PICK x : x = [world |-> World(cs), effects |-> {}]
    OBVIOUS
  <2>3. /\ Ready(t, Append(<<>>, f), Append(<<>>, x)) /\ frames' = Append(<<>>, f)
        /\ saved' = Append(<<>>, x)
    BY <1>2, <1>3, <1>12, <1>13, <1>9, <2>2
  <2>4. Pending(Append(<<>>, f), Len(Append(<<>>, f))) = {} /\ Len(Append(<<>>, x)) <= 1
    BY <2>1, OneFrame
  <2> QED BY <1>1, <1>13, <2>3, <2>4, BegunStep
<1>14. ASSUME NEW t, Ready(t, <<>>, <<>>), t.trie = trie, Becomes(t), UNCHANGED <<frames, saved>>
       PROVE  FrameInv' /\ Promise!Settle
  <2>1. frames' = <<>> /\ saved' = <<>> /\ Len(<<>>) <= 1
    BY <1>2, <1>3, <1>14
  <2> QED BY <1>1, <1>12, <1>14, <2>1, BegunStep
<1>15. ASSUME NEW to \in Addresses, CallCode(cs, sender, to, to, v)
       PROVE  FrameInv' /\ Promise!Settle
  <2>0. PICK create \in BOOLEAN : create = FALSE
    OBVIOUS
  <2>1. PICK f : f = NewFrame(to, sender, create, Len(cs.log))
    OBVIOUS
  <2>2. f \in FrameRecord /\ f.addr = to /\ ~ f.create /\ f.savepoint = Len(cs.log)
    <3>1. f \in FrameRecord /\ f.addr = to /\ f.create = create /\ f.savepoint = Len(cs.log)
      BY <1>1, <1>11, <2>1, NewFrameDef
    <3>2. ~ f.create
      BY <2>0, <3>1, Zenon
    <3> QED BY <3>1, <3>2
  <2>3. PICK t : t = TransferBalance(cs, sender, to, v)
    OBVIOUS
  <2>4. /\ AddressHasCode(cs, to) /\ Becomes(t) /\ frames' = Append(frames, f)
        /\ saved' = Append(saved, [world |-> World(cs), effects |-> Effects])
    BY <1>15, <2>0, <2>1, <2>3 DEF CallCode, Enter, Savepoint, NewFrame
  <2>5. /\ Ready(t, Append(none, f),
                 Append(none, [world |-> World(cs), effects |-> Pending(none, Len(none))]))
        /\ t.trie = trie
    BY <1>1, <1>6, <1>8, <1>10, <2>2, <2>3, <2>4, CallCodeReady
  <2> QED BY <1>13, <2>1, <2>4, <2>5
<1>16. ASSUME NEW to \in Addresses, CallNoCode(cs, sender, to, to, v)
       PROVE  FrameInv' /\ Promise!Settle
  <2>1. UNCHANGED <<frames, saved>>
    BY <1>16 DEF CallNoCode
  <2>2. PICK t \in {TransferBalance(cs, sender, to, v), cs, AddBalance(cs, to, 0)} : Becomes(t)
    BY <1>16 DEF CallNoCode
  <2>3. Ready(t, <<>>, <<>>) /\ t.trie = trie
    BY <1>1, <1>6, <1>8, <2>2, CallNoCodeReady
  <2> QED BY <1>14, <2>1, <2>2, <2>3
<1>17. ASSUME NEW addr \in Addresses, CreateCode(cs, sender, addr, v)
       PROVE  FrameInv' /\ Promise!Settle
  <2>0. PICK create \in BOOLEAN : create = TRUE
    OBVIOUS
  <2>1. PICK f : f = NewFrame(addr, sender, create, Len(cs.log))
    OBVIOUS
  <2>2. f \in FrameRecord /\ f.addr = addr /\ f.savepoint = Len(cs.log)
    BY <1>1, <1>11, <2>1, NewFrameDef
  <2>3. PICK t : t = ClearStorage(Endowed(cs, sender, addr, v), addr)
    OBVIOUS
  <2>4. /\ ~ AlreadyUsed(cs, addr) /\ Becomes(t) /\ frames' = Append(frames, f)
        /\ saved' = Append(saved, [world |-> World(cs), effects |-> Effects])
    BY <1>17, <2>0, <2>1, <2>3 DEF CreateCode, Enter, Savepoint, NewFrame
  <2>5. /\ Ready(t, Append(none, f),
                 Append(none, [world |-> World(cs), effects |-> Pending(none, Len(none))]))
        /\ t.trie = trie
    BY <1>1, <1>6, <1>8, <1>10, <2>2, <2>3, <2>4, CreateCodeReady
  <2> QED BY <1>13, <2>1, <2>4, <2>5
<1>18. ASSUME NEW addr \in Addresses, CreateNoCode(cs, sender, addr, v)
       PROVE  FrameInv' /\ Promise!Settle
  <2>1. PICK t : t = IF AlreadyUsed(cs, addr) THEN Rollback(cs, Savepoint(cs))
                     ELSE Endowed(cs, sender, addr, v)
    OBVIOUS
  <2>2. Becomes(t) /\ UNCHANGED <<frames, saved>>
    BY <1>18, <2>1 DEF CreateNoCode
  <2>3. Ready(t, <<>>, <<>>) /\ t.trie = trie
    BY <1>1, <1>6, <1>8, <2>1, CreateNoCodeReady
  <2> QED BY <1>14, <2>2, <2>3
<1> QED BY <1>5, <1>7, <1>15, <1>16, <1>17, <1>18

-----------------------------------------------------------------------------
(***************************************************************************)
(* Every step keeps the invariant, and is one the reference takes.         *)
(***************************************************************************)
LEMMA NextInv ==
    ASSUME FrameInv, [Next]_vars
    PROVE  FrameInv' /\ [Promise!Next]_<<World(Now), Effects, saved>>
<1>1. CASE UNCHANGED vars
  <2>1. UNCHANGED <<trie, m_cache, m_changeLog, m_nonExistingAccountsCache,
                    m_unchangedCacheEntries, frames, tx, suicides, saved>>
    BY <1>1 DEF vars, stateVars
  <2>2. Now' = Now
    BY <2>1 DEF Now
  <2>3. FrameInv'
    BY <2>1, <2>2 DEF FrameInv
  <2>4. World(Now)' = World(Now) /\ Effects' = Effects
    BY <2>1, <2>2 DEF Effects
  <2> QED BY <2>1, <2>3, <2>4
<1>2. ASSUME NEW sender \in Senders, NEW picked, BeginTx(sender, picked)
      PROVE  FrameInv' /\ Promise!Next
  BY <1>2, BeginTxStep DEF Promise!Next
<1>3. ASSUME NEW code \in Addresses, NEW to \in Addresses, NEW v \in Nat, NEW picked,
             Call(code, to, v, picked), to = code \/ to = Top.addr
      PROVE  FrameInv' /\ Promise!Next
  BY <1>3, CallStep DEF Promise!Next
<1>4. ASSUME NEW code \in Addresses, NEW picked, Running, Call(code, Top.addr, 0, picked)
      PROVE  FrameInv' /\ Promise!Next
  <2>1. frames # <<>>
    BY <1>4 DEF FrameInv, Running
  <2>2. PICK to : to = Top.addr
    OBVIOUS
  <2>3. to \in Addresses /\ 0 \in Nat
    BY <2>1, <2>2, RunningDef, TopSafe DEF Top
  <2> QED BY <1>3, <1>4, <2>2, <2>3
<1>5. ASSUME NEW v \in Amounts, NEW picked, Create(v, picked)
      PROVE  FrameInv' /\ Promise!Next
  BY <1>5, CreateStep DEF Promise!Next
<1>6. ASSUME NEW k \in Keys, NEW picked, Load(k, picked)
      PROVE  FrameInv' /\ Promise!Next
  BY <1>6, LoadStep DEF Promise!Next
<1>7. ASSUME NEW k \in Keys, NEW v \in Values, NEW picked, Store(k, v, picked)
      PROVE  FrameInv' /\ Promise!Next
  BY <1>7, StoreStep DEF Promise!Next
<1>8. ASSUME NEW code, NEW picked, Return(code, picked)
      PROVE  FrameInv' /\ Promise!Next
  BY <1>8, ReturnStep DEF Promise!Next
<1>9. ASSUME NEW heir \in Addresses, NEW picked, Suicide(heir, picked)
      PROVE  FrameInv' /\ Promise!Next
  BY <1>9, SuicideStep DEF Promise!Next
<1>10. ASSUME Revert
       PROVE  FrameInv' /\ Promise!Next
  BY <1>10, RevertStep DEF Promise!Next
<1>11. ASSUME NEW gas \in 0..TxGas, Commit(gas) \/ Drop(gas)
       PROVE  FrameInv' /\ Promise!Next
  BY <1>11, CommitStep, DropStep DEF Promise!Next
<1>12. ASSUME SetRoot
       PROVE  FrameInv' /\ Promise!Next
  BY <1>12, SetRootStep DEF Promise!Next
<1>13. \A v \in Amounts : v \in Nat
  BY ExecutionAssumption
<1>14. ASSUME NEW to \in Addresses, NEW v \in Amounts, NEW picked, Call(to, to, v, picked)
       PROVE  FrameInv' /\ Promise!Next
  BY <1>3, <1>13, <1>14
<1>15. CASE Next
  BY <1>15, <1>2, <1>4, <1>5, <1>6, <1>7, <1>8, <1>9, <1>10, <1>11, <1>12, <1>14 DEF Next
<1> QED BY <1>1, <1>15

(***************************************************************************)
(* The frames and the change log under them stay in order: every savepoint *)
(* is a level of the log, its undoing gives the world the frame saved, and *)
(* no level holds more ether than there was (State, Executive).            *)
(***************************************************************************)
THEOREM FramesAlwaysKept == Spec => []FrameInv
<1>1. Init => FrameInv
  BY InitInv
<1>2. FrameInv /\ [Next]_vars => FrameInv'
  BY NextInv
<1> QED BY <1>1, <1>2, PTL DEF Spec

(***************************************************************************)
(* What clearCacheIfTooLarge drops is what the trie holds, whatever was    *)
(* executed and undone before (State::clearCacheIfTooLarge, rollback).     *)
(***************************************************************************)
THEOREM CleanAlwaysCommitted == Spec => []CleanIsCommitted
<1>1. FrameInv => CleanIsCommitted
  <2> SUFFICES ASSUME FrameInv PROVE CleanIsCommitted
    OBVIOUS
  <2>1. /\ DOMAIN m_cache \subseteq Addresses /\ m_nonExistingAccountsCache \subseteq Addresses
        /\ \A a \in Addresses : FitAt(Now, a)
    BY DEF FrameInv, Kept, Sound, Basic, IsState, Now
  <2>2. /\ Now.cache = m_cache /\ Now.trie = trie /\ Now.absent = m_nonExistingAccountsCache
    BY DEF Now
  <2>3. ASSUME NEW a \in DOMAIN m_cache, m_cache[a].unchanged
        PROVE  /\ trie[a] # NoAccount
               /\ [m_cache[a] EXCEPT !.overlay = <<>>] = FromTrie(trie[a])
               /\ StorageOf(m_cache[a]) = trie[a].root
    <3>1. PICK c : c = m_cache[a]
      OBVIOUS
    <3>2. PICK t : t = trie[a]
      OBVIOUS
    <3>3. Formed(c) /\ c.unchanged /\ Equals(c, t)
      BY <2>1, <2>2, <2>3, <3>1, <3>2 DEF FitAt, AsCommitted
    <3>4. /\ DOMAIN c = Fields /\ c.alive = TRUE /\ c.unchanged = TRUE
      BY <3>3 DEF Formed
    <3>5. /\ t # NoAccount /\ c.nonce = t.nonce /\ c.balance = t.balance
          /\ c.code = t.code /\ c.root = t.root /\ StorageOf(c) = t.root
      BY <3>3 DEF Equals
    <3>6. [c EXCEPT !.overlay = <<>>] = FromTrie(t)
      <4>1. PICK d : d = [c EXCEPT !.overlay = <<>>]
        OBVIOUS
      <4>2. PICK e : e = FromTrie(t)
        OBVIOUS
      <4>3. d = [x \in Fields |-> d[x]] /\ \A x \in Fields \ {"overlay"} : d[x] = c[x]
        BY <3>4, <4>1
      <4>4. d["overlay"] = <<>>
        BY <3>4, <4>1 DEF Fields
      <4>5. e = [x \in Fields |-> e[x]]
        BY <4>2 DEF FromTrie, Fields
      <4>6. /\ e["alive"] = TRUE /\ e["unchanged"] = TRUE /\ e["nonce"] = t.nonce
            /\ e["balance"] = t.balance /\ e["root"] = t.root /\ e["overlay"] = <<>>
            /\ e["code"] = t.code
        BY <4>2 DEF FromTrie
      <4>7. \A x \in Fields : d[x] = e[x]
        BY <3>4, <3>5, <4>3, <4>4, <4>6 DEF Fields
      <4> QED BY <4>1, <4>2, <4>3, <4>5, <4>7
    <3> QED BY <3>1, <3>2, <3>5, <3>6
  <2>4. ASSUME NEW a \in m_nonExistingAccountsCache
        PROVE  a \notin DOMAIN m_cache /\ trie[a] = NoAccount
    BY <2>1, <2>2 DEF FitAt
  <2> QED BY <2>3, <2>4 DEF CleanIsCommitted
<1> QED BY <1>1, FramesAlwaysKept, PTL

(***************************************************************************)
(* No ether is created and no account overdrawn, by any nesting of calls,  *)
(* creations, suicides and failures (Executive, State::addBalance).        *)
(***************************************************************************)
THEOREM EtherNeverCreated == Spec => []NoEtherCreated
<1>1. FrameInv => NoEtherCreated
  BY DEF FrameInv, Funded, NoEtherCreated
<1> QED BY <1>1, FramesAlwaysKept, PTL

(***************************************************************************)
(* The change log implements copies of the world: a frame that fails is    *)
(* back at what it saved, for every program, nesting and cache limit       *)
(* (State::rollback, Executive::revert).                                   *)
(***************************************************************************)
THEOREM ChangeLogRestores == Spec => RestoresWorld
<1>1. Init => Promise!Init
  BY InitInv
<1>2. FrameInv /\ [Next]_vars => [Promise!Next]_<<World(Now), Effects, saved>>
  BY NextInv
<1> QED BY <1>1, <1>2, FramesAlwaysKept, PTL DEF Spec, RestoresWorld, Promise!Spec

-----------------------------------------------------------------------------
(***************************************************************************)
(* The nonce of a signer.  What the proof takes of keys and hashes: no     *)
(* contract is, or is ever created, at the address of a signer, and        *)
(* NoAccount is none.                                                      *)
(***************************************************************************)
Keyed ==
    /\ \A a \in Senders : Genesis[a] # NoAccount => Genesis[a].code = EmptyCode
    /\ \A a \in Addresses, n \in Nat : NewAddresses(a, n) \cap Senders = {}
    /\ \A n, b, r, c : NoAccount # [nonce |-> n, balance |-> b, root |-> r, code |-> c]

(***************************************************************************)
(* A world in which every signer has its nonce in the trie, and those in   *)
(* spent one more: the sender, while its transaction is executed.  Frames  *)
(* run at addresses that do not sign, and would return to such worlds.     *)
(***************************************************************************)
NoCode(tr) == \A a \in Senders : tr[a] # NoAccount => tr[a].code = EmptyCode
Signed(w, tr, spent) ==
    \A a \in Senders :
        /\ a \in DOMAIN w =>
              /\ w[a].code = EmptyCode
              /\ w[a].nonce = IF a \in spent THEN NonceIn(tr, a) + 1 ELSE NonceIn(tr, a)
        /\ a \notin DOMAIN w => a \notin spent /\ tr[a] = NoAccount
SpentInv ==
    /\ NoCode(trie)
    /\ tx = NoTx => m_cache = <<>>
    /\ tx # NoTx => tx.sender \in Senders /\ Signed(World(Now), trie, {tx.sender})
    /\ \A j \in 1..Len(frames) :
          frames[j].addr \notin Senders /\ Signed(saved[j].world, trie, {tx.sender})
    /\ Effects \cap Senders = {}

\* What an operation may do to the signers: at most create their accounts.
Respects(s, t) ==
    \A b \in Senders :
        LET c == AccountAt(s, b)
            d == AccountAt(t, b)
        IN  /\ HasAccount(s, b) => HasAccount(t, b) /\ d.nonce = c.nonce /\ d.code = c.code
            /\ ~ HasAccount(s, b) /\ HasAccount(t, b) =>
                  d.nonce = AccountStartNonce /\ d.code = EmptyCode

LEMMA RespectsTransitive ==
    ASSUME NEW s, NEW t, NEW u, Respects(s, t), Respects(t, u)
    PROVE  Respects(s, u)
<1> SUFFICES ASSUME NEW b \in Senders
             PROVE  /\ HasAccount(s, b) =>
                          /\ HasAccount(u, b) /\ AccountAt(u, b).nonce = AccountAt(s, b).nonce
                          /\ AccountAt(u, b).code = AccountAt(s, b).code
                    /\ ~ HasAccount(s, b) /\ HasAccount(u, b) =>
                          /\ AccountAt(u, b).nonce = AccountStartNonce
                          /\ AccountAt(u, b).code = EmptyCode
  BY DEF Respects
<1> QED BY DEF Respects

LEMMA MildRespects ==
    ASSUME NEW s, NEW t, Mild(s, t)
    PROVE  Respects(s, t)
BY ExecutionAssumption DEF Mild, Respects

LEMMA CoversRespects ==
    ASSUME NEW s, NEW t, Covers(s, t)
    PROVE  Respects(s, t)
BY ExecutionAssumption DEF Covers, CoversAt, Same, Respects

LEMMA ElsewhereRespects ==
    ASSUME NEW s, NEW t, NEW a \in Addresses \ Senders, Sound(s), IsState(t), Elsewhere(s, t, a)
    PROVE  Respects(s, t)
<1>1. Senders \subseteq Addresses \ {a}
  BY ExecutionAssumption
<1>2. \A b \in Addresses \ {a} :
         /\ HasAccount(t, b) <=> HasAccount(s, b)
         /\ HasAccount(s, b) => AccountAt(t, b) = AccountAt(s, b)
  BY Local DEF Sound
<1> QED BY <1>1, <1>2 DEF Respects

\* The world of a state, at one address.
LEMMA WorldAt ==
    ASSUME NEW s, NEW b \in Addresses
    PROVE  /\ b \in DOMAIN World(s) <=> HasAccount(s, b)
           /\ HasAccount(s, b) => /\ World(s)[b].nonce = AccountAt(s, b).nonce
                                  /\ World(s)[b].code = AccountAt(s, b).code
<1>1. DOMAIN World(s) = {x \in Addresses : HasAccount(s, x)}
  BY DEF World
<1>2. ASSUME HasAccount(s, b)
      PROVE  World(s)[b] = Seen(AccountAt(s, b))
  BY <1>2 DEF World
<1>3. \A c : Seen(c).nonce = c.nonce /\ Seen(c).code = c.code
  BY DEF Seen
<1> QED BY <1>1, <1>2, <1>3

LEMMA RespectsSigned ==
    ASSUME NEW s, NEW t, NEW tr, NEW spent, Respects(s, t), Signed(World(s), tr, spent)
    PROVE  Signed(World(t), tr, spent)
<1> SUFFICES ASSUME NEW b \in Senders
             PROVE  /\ b \in DOMAIN World(t) =>
                         /\ World(t)[b].code = EmptyCode
                         /\ World(t)[b].nonce = IF b \in spent THEN NonceIn(tr, b) + 1 ELSE NonceIn(tr, b)
                    /\ b \notin DOMAIN World(t) => b \notin spent /\ tr[b] = NoAccount
  BY DEF Signed
<1>1. b \in Addresses
  BY ExecutionAssumption
<1>2. CASE HasAccount(s, b)
  <2>1. /\ HasAccount(t, b) /\ AccountAt(t, b).nonce = AccountAt(s, b).nonce
        /\ AccountAt(t, b).code = AccountAt(s, b).code
    BY <1>2 DEF Respects
  <2>2. /\ b \in DOMAIN World(s) /\ World(s)[b].code = EmptyCode
        /\ World(s)[b].nonce = IF b \in spent THEN NonceIn(tr, b) + 1 ELSE NonceIn(tr, b)
    BY <1>1, <1>2, WorldAt DEF Signed
  <2>3. b \in DOMAIN World(t) /\ World(t)[b].nonce = World(s)[b].nonce
        /\ World(t)[b].code = World(s)[b].code
    BY <1>1, <1>2, <2>1, WorldAt
  <2> QED BY <2>2, <2>3
<1>3. CASE ~ HasAccount(s, b)
  <2>1. b \notin spent /\ tr[b] = NoAccount
    BY <1>1, <1>3, WorldAt DEF Signed
  <2>2. CASE HasAccount(t, b)
    <3>1. World(t)[b].nonce = AccountStartNonce /\ World(t)[b].code = EmptyCode
          /\ b \in DOMAIN World(t)
      BY <1>1, <1>3, <2>2, WorldAt DEF Respects
    <3>2. NonceIn(tr, b) = AccountStartNonce
      BY <2>1 DEF NonceIn
    <3> QED BY <2>1, <3>1, <3>2
  <2>3. CASE ~ HasAccount(t, b)
    BY <1>1, <2>1, <2>3, WorldAt
  <2> QED BY <2>2, <2>3
<1> QED BY <1>2, <1>3

LEMMA RenoncedElsewhere ==
    ASSUME NEW s, Sound(s), NEW a \in Addresses, NEW n
    PROVE  IsState(Renonced(s, a, n)) /\ Elsewhere(s, Renonced(s, a, n), a)
<1>1. PICK l : l = Loaded(s, a)
  OBVIOUS
<1>2. Sound(l) /\ Elsewhere(s, l, a) /\ IsState(l)
  BY <1>1, LoadedDef DEF Sound, Basic
<1>3. PICK c : c = [l.cache[a] EXCEPT !.nonce = n, !.unchanged = FALSE]
  OBVIOUS
<1>4. PICK t : t = Cached(l, a, c)
  OBVIOUS
<1>5. IsState(t) /\ Elsewhere(l, t, a)
  BY <1>2, <1>4, CachedDef, CachedElsewhere
<1>6. PICK u : u = Logged(t, "Nonce", a, l.cache[a].nonce, NoKey)
  OBVIOUS
<1>7. IsState(u) /\ u.cache = t.cache /\ u.absent = t.absent /\ u.trie = t.trie
  BY <1>5, <1>6, LoggedDef
<1>8. Elsewhere(t, u, a)
  BY <1>7 DEF Elsewhere
<1>9. Elsewhere(s, u, a)
  BY <1>2, <1>5, <1>8, ElsewhereTransitive
<1>10. u = Renonced(s, a, n)
  BY <1>1, <1>3, <1>4, <1>6 DEF Renonced
<1> QED BY <1>7, <1>9, <1>10

LEMMA NonceRespects ==
    ASSUME NEW s, Sound(s), NEW a \in Addresses \ Senders, HasAccount(s, a)
    PROVE  Respects(s, IncNonce(s, a)) /\ \A n : Respects(s, SetNonce(s, a, n))
<1>1. \A n : Respects(s, Renonced(s, a, n))
  BY RenoncedElsewhere, ElsewhereRespects
<1> QED BY <1>1, NonceIs

LEMMA ClearStorageRespects ==
    ASSUME NEW s, Sound(s), NEW a \in Addresses \ Senders
    PROVE  Respects(s, ClearStorage(s, a))
<1>1. IsState(s)
  BY DEF Sound, Basic
<1>2. PICK c : c = CacheEntry(s, a)
  OBVIOUS
<1>3. CASE c.root = EmptyTrie
  <2>1. ClearStorage(s, a) = Cached(s, a, c)
    BY <1>2, <1>3 DEF ClearStorage
  <2> QED BY <1>1, <2>1, CachedDef, CachedElsewhere, ElsewhereRespects
<1>4. CASE c.root # EmptyTrie
  <2>1. PICK l : l = Logged(s, "StorageRoot", a, c.root, NoKey)
    OBVIOUS
  <2>2. PICK d : d = [c EXCEPT !.overlay = <<>>, !.root = EmptyTrie, !.unchanged = FALSE]
    OBVIOUS
  <2>3. IsState(l) /\ l.cache = s.cache /\ l.absent = s.absent /\ l.trie = s.trie
    BY <1>1, <2>1, LoggedDef
  <2>4. Elsewhere(s, l, a)
    BY <2>3 DEF Elsewhere
  <2>5. IsState(Cached(l, a, d)) /\ Elsewhere(l, Cached(l, a, d), a)
    BY <2>3, CachedDef, CachedElsewhere
  <2>6. Elsewhere(s, Cached(l, a, d), a)
    BY <2>4, <2>5, ElsewhereTransitive
  <2>7. ClearStorage(s, a) = Cached(l, a, d)
    BY <1>2, <1>4, <2>1, <2>2 DEF ClearStorage
  <2> QED BY <2>5, <2>6, <2>7, ElsewhereRespects
<1> QED BY <1>3, <1>4

LEMMA StoreRespects ==
    ASSUME NEW s0, NEW base, Kept(s0, base), NEW a \in Addresses \ Senders, NEW k \in Keys, NEW v
    PROVE  Respects(s0, SetStorage(s0, a, k, v))
<1>1. PICK s : s = StorageRead(s0, a, k)
  OBVIOUS
<1>2. Extends(s0, s, base) /\ Covers(s0, s)
  BY <1>1, StorageReadExtends
<1>3. Sound(s) /\ IsState(s) /\ Respects(s0, s)
  BY <1>2, CoversRespects DEF Extends, Kept, Sound, Basic
<1>4. PICK old : old = IF HasAccount(s, a) THEN s.cache[a].overlay[k] ELSE 0
  OBVIOUS
<1>5. PICK l : l = Logged(s, "Storage", a, old, k)
  OBVIOUS
<1>6. PICK d : d = [CacheEntry(s, a) EXCEPT !.overlay = Put(@, k, v), !.unchanged = FALSE]
  OBVIOUS
<1>7. IsState(l) /\ l.cache = s.cache /\ l.absent = s.absent /\ l.trie = s.trie
  BY <1>3, <1>5, LoggedDef
<1>8. Elsewhere(s, l, a)
  BY <1>7 DEF Elsewhere
<1>9. IsState(Cached(l, a, d)) /\ Elsewhere(l, Cached(l, a, d), a)
  BY <1>7, CachedDef, CachedElsewhere
<1>10. Respects(s, Cached(l, a, d))
  BY <1>3, <1>8, <1>9, ElsewhereTransitive, ElsewhereRespects
<1>11. SetStorage(s0, a, k, v) = Cached(l, a, d)
  BY <1>1, <1>4, <1>5, <1>6 DEF SetStorage
<1> QED BY <1>3, <1>10, <1>11, RespectsTransitive

LEMMA SetCodeRespects ==
    ASSUME NEW s, Sound(s), NEW a \in Addresses \ Senders, NEW code
    PROVE  Respects(s, SetCode(s, a, code))
<1>1. PICK l : l = Loaded(s, a)
  OBVIOUS
<1>2. Sound(l) /\ Elsewhere(s, l, a) /\ IsState(l)
  BY <1>1, LoadedDef DEF Sound, Basic
<1>3. PICK m : m = Logged(l, "Code", a, CodeAt(l, a), NoKey)
  OBVIOUS
<1>4. PICK d : d = [CacheEntry(l, a) EXCEPT !.code = code]
  OBVIOUS
<1>5. IsState(m) /\ m.cache = l.cache /\ m.absent = l.absent /\ m.trie = l.trie
  BY <1>2, <1>3, LoggedDef
<1>6. Elsewhere(l, m, a)
  BY <1>5 DEF Elsewhere
<1>7. IsState(Cached(m, a, d)) /\ Elsewhere(m, Cached(m, a, d), a)
  BY <1>5, CachedDef, CachedElsewhere
<1>8. Elsewhere(s, Cached(m, a, d), a)
  BY <1>2, <1>6, <1>7, ElsewhereTransitive
<1>9. SetCode(s, a, code) = Cached(m, a, d)
  BY <1>1, <1>3, <1>4 DEF SetCode
<1> QED BY <1>7, <1>8, <1>9, ElsewhereRespects

LEMMA PaysRespects ==
    ASSUME NEW s, NEW base, Kept(s, base), NEW from \in Addresses, NEW code \in Addresses,
           NEW to \in Addresses, NEW v \in Nat, NEW t,
           t \in {TransferBalance(s, from, to, v), s, AddBalance(s, code, 0)}
    PROVE  Respects(s, t)
<1>1. Mild(s, TransferBalance(s, from, to, v)) /\ Mild(s, s) /\ Mild(s, AddBalance(s, code, 0))
  BY TransferExtends, MildReflexive, AddBalanceExtends
<1> QED BY <1>1, MildRespects

LEMMA EndowedRespects ==
    ASSUME NEW s, NEW base, Kept(s, base), NEW from \in Addresses,
           NEW a \in Addresses \ Senders, NEW v \in Nat, ~ AlreadyUsed(s, a)
    PROVE  /\ Respects(s, Endowed(s, from, a, v))
           /\ Respects(s, ClearStorage(Endowed(s, from, a, v), a))
<1>1. PICK t : t = TransferBalance(s, from, a, v)
  OBVIOUS
<1>2. Extends(s, t, base) /\ Mild(s, t) /\ Dirty(t, a)
  BY <1>1, TransferExtends
<1>3. Sound(t) /\ Respects(s, t) /\ HasAccount(t, a)
  BY <1>2, MildRespects DEF Extends, Kept, Dirty, HasAccount
<1>4. PICK e : e = Endowed(s, from, a, v)
  OBVIOUS
<1>5. Respects(t, e)
  BY <1>1, <1>3, <1>4, NonceRespects DEF Endowed
<1>6. Sound(e)
  BY <1>4, EndowedExtends DEF Extends, Kept
<1>7. Respects(e, ClearStorage(e, a)) /\ Respects(s, e)
  BY <1>3, <1>5, <1>6, ClearStorageRespects, RespectsTransitive
<1> QED BY <1>4, <1>7, RespectsTransitive

LEMMA RollbackRespects ==
    ASSUME NEW s, NEW base, Kept(s, base)
    PROVE  Respects(s, Rollback(s, Savepoint(s)))
<1>1. PICK n \in base..Len(s.log) : n = Len(s.log) /\ n = Savepoint(s)
  BY Levels DEF Savepoint
<1>2. PICK r : r = Rollback(s, n)
  OBVIOUS
<1>3. r.trie = s.trie /\ r.cache = Level(s, n).cache /\ r.absent = Level(s, n).absent
  BY <1>1, <1>2, RollbackKept
<1>4. Level(s, n) = s
  BY <1>1, Levels, LevelDef
<1>5. \A b \in Addresses : /\ HasAccount(r, b) <=> HasAccount(s, b)
                           /\ AccountAt(r, b) = AccountAt(s, b)
  BY <1>3, <1>4 DEF HasAccount, AccountAt
<1> QED BY <1>1, <1>2, <1>5, ExecutionAssumption DEF Respects

LEMMA SignedNoCode ==
    ASSUME NEW s, NEW tr, NEW spent, Signed(World(s), tr, spent), NEW b \in Senders
    PROVE  ~ AddressHasCode(s, b)
<1>1. b \in Addresses
  BY ExecutionAssumption
<1>2. HasAccount(s, b) => AccountAt(s, b).code = EmptyCode
  BY <1>1, WorldAt DEF Signed
<1> QED BY <1>2 DEF AddressHasCode, CodeAt

LEMMA NonceType ==
    ASSUME NEW s, Sound(s), NEW a \in Addresses
    PROVE  GetNonce(s, a) \in Nat
BY AccountFormed, StateAssumption DEF GetNonce, Formed

\* What is known while code runs.
LEMMA RunningSpent ==
    ASSUME FrameInv, SpentInv, frames # <<>>
    PROVE  /\ Signed(World(Now), trie, {tx.sender}) /\ tx # NoTx /\ tx.sender \in Senders
           /\ Top.addr \in Addresses \ Senders /\ NoCode(trie)
           /\ Len(saved) = Len(frames) /\ Effects \cap Senders = {}
<1>1. /\ Ready(Now, frames, saved) /\ tx # NoTx /\ frames \in Seq(FrameRecord)
      /\ Len(saved) = Len(frames)
  BY RunningDef
<1>2. Len(frames) \in 1..Len(frames)
  BY <1>1
<1>3. Top.addr \in Addresses
  BY <1>1, TopSafe DEF Top
<1> QED BY <1>1, <1>2, <1>3 DEF SpentInv, Top

LEMMA SpentStays ==
    ASSUME FrameInv, SpentInv, frames # <<>>, Respects(Now, Now'),
           UNCHANGED <<trie, tx, saved>>, Len(frames') = Len(frames),
           \A j \in 1..Len(frames) : frames'[j].addr = frames[j].addr,
           Effects' \cap Senders = {}
    PROVE  SpentInv'
<1>1. Signed(World(Now), trie, {tx.sender}) /\ tx # NoTx /\ tx.sender \in Senders /\ NoCode(trie)
  BY RunningSpent
<1>2. PICK t : t = Now'
  OBVIOUS
<1>3. Signed(World(t), trie, {tx.sender})
  BY <1>1, <1>2, RespectsSigned
<1>4. \A j \in 1..Len(frames) :
         frames[j].addr \notin Senders /\ Signed(saved[j].world, trie, {tx.sender})
  BY DEF SpentInv
<1> QED BY <1>1, <1>2, <1>3, <1>4 DEF SpentInv

LEMMA SpentOpens ==
    ASSUME FrameInv, SpentInv, frames # <<>>, NEW cs, NEW e, NEW f, Respects(Now, cs),
           Respects(cs, Now'), f.addr \notin Senders, frames' = Append(frames, f),
           saved' = Append(saved, [world |-> World(cs), effects |-> e]), Effects' = Effects,
           UNCHANGED <<trie, tx>>
    PROVE  SpentInv'
<1>1. /\ Signed(World(Now), trie, {tx.sender}) /\ tx # NoTx /\ tx.sender \in Senders
      /\ NoCode(trie) /\ Effects \cap Senders = {} /\ Len(saved) = Len(frames)
  BY RunningSpent
<1>2. PICK t : t = Now'
  OBVIOUS
<1>3. Signed(World(cs), trie, {tx.sender})
  BY <1>1, RespectsSigned
<1>4. Signed(World(t), trie, {tx.sender})
  BY <1>2, <1>3, RespectsSigned
<1>5. frames \in Seq(FrameRecord) /\ saved \in Seq(RangeOf(saved))
  BY RunningDef
<1>6. PICK x : x = [world |-> World(cs), effects |-> e]
  OBVIOUS
<1>7. /\ Len(frames') = Len(frames) + 1 /\ frames'[Len(frames) + 1] = f
      /\ \A j \in 1..Len(frames) : frames'[j] = frames[j]
  BY <1>5
<1>8. /\ saved'[Len(frames) + 1] = x /\ x.world = World(cs)
      /\ \A j \in 1..Len(frames) : saved'[j] = saved[j]
  BY <1>1, <1>5, <1>6
<1>9. ASSUME NEW j \in 1..Len(frames')
      PROVE  frames'[j].addr \notin Senders /\ Signed(saved'[j].world, trie, {tx.sender})
  <2>1. j = Len(frames) + 1 \/ j \in 1..Len(frames)
    BY <1>5, <1>7
  <2> QED BY <1>3, <1>7, <1>8, <2>1 DEF SpentInv
<1> QED BY <1>1, <1>2, <1>4, <1>9 DEF SpentInv

LEMMA SpentLeaves ==
    ASSUME FrameInv, SpentInv, frames # <<>>, FrameInv', NEW leave \in SUBSET Addresses,
           Leave(leave), trie' = trie,
           Signed(World(Now'), trie, {tx.sender}), Effects' \cap Senders = {}
    PROVE  SpentInv'
<1>1. tx # NoTx /\ tx.sender \in Senders /\ NoCode(trie) /\ Len(saved) = Len(frames)
  BY RunningSpent
<1>2. /\ frames \in Seq(FrameRecord) /\ saved \in Seq(RangeOf(saved)) /\ saved # <<>>
      /\ tx = [sender |-> tx.sender, phase |-> tx.phase]
  BY RunningDef DEF FrameInv
<1>3. tx'.sender = tx.sender /\ tx' # NoTx
  <2>1. CASE Len(frames) = 1
    <3>1. tx' = [tx EXCEPT !.phase = "over"]
      BY <2>1 DEF Leave
    <3>2. tx'.sender = tx.sender /\ tx'.phase = "over"
      BY <1>2, <3>1
    <3> QED BY <3>2 DEF FrameInv
  <2>2. CASE Len(frames) # 1
    BY <1>1, <2>2 DEF Leave
  <2> QED BY <2>1, <2>2
<1>4. saved' = SubSeq(saved, 1, Len(saved) - 1)
  BY DEF Leave
<1>5. \A j \in 1..Len(saved) - 1 : saved'[j] = saved[j]
  BY <1>2, <1>4, FrontDef
<1>6. ASSUME NEW j \in 1..Len(frames')
      PROVE  frames'[j].addr \notin Senders /\ Signed(saved'[j].world, trie, {tx.sender})
  <2>1. CASE Len(frames) = 1
    <3>1. frames' = <<>>
      BY <2>1 DEF Leave
    <3> QED BY <1>6, <3>1
  <2>2. CASE Len(frames) # 1
    <3>1. PICK gs : gs = Popped(frames, leave)
      OBVIOUS
    <3>2. frames' = gs
      BY <2>2, <3>1 DEF Leave, Popped
    <3>3. Len(gs) = Len(frames) - 1 /\ \A i \in 1..Len(frames) - 1 : gs[i].addr = frames[i].addr
      BY <1>2, <2>2, <3>1, PoppedDef
    <3>4. j \in 1..Len(frames) - 1 /\ j \in 1..Len(frames)
      BY <1>2, <1>6, <3>2, <3>3
    <3> QED BY <1>1, <1>5, <3>2, <3>3, <3>4 DEF SpentInv
  <2> QED BY <2>1, <2>2
<1>7. PICK t : t = Now'
  OBVIOUS
<1> QED BY <1>1, <1>3, <1>6, <1>7 DEF SpentInv

LEMMA OpenedEffects ==
    ASSUME FrameInv, frames # <<>>, NEW f \in FrameRecord, f.suicides = {},
           frames' = Append(frames, f), suicides' = suicides
    PROVE  Effects' = Effects
<1>1. frames \in Seq(FrameRecord)
  BY RunningDef
<1>2. /\ DOMAIN frames' = DOMAIN frames \cup {Len(frames) + 1} /\ frames'[Len(frames) + 1] = f
      /\ \A j \in DOMAIN frames : frames'[j] = frames[j]
  BY <1>1
<1> QED BY <1>2 DEF Effects

LEMMA CallSpent ==
    ASSUME FrameInv, SpentInv, NEW code \in Addresses, NEW to \in Addresses, NEW v \in Nat,
           NEW picked, Call(code, to, v, picked), to = code \/ to = Top.addr
    PROVE  SpentInv'
<1>1. frames # <<>> /\ UNCHANGED <<trie, tx, suicides>>
  BY DEF Call, Operation, Running, FrameInv
<1>2. Ready(Now, frames, saved) /\ Now.trie = trie
  BY <1>1, RunningDef
<1>3. PICK s : s = ClearCache(Now, picked)
  OBVIOUS
<1>4. Ready(s, frames, saved) /\ s.trie = trie /\ Respects(Now, s)
  BY <1>2, <1>3, ReadyCleared, CoversRespects
<1>5. /\ Signed(World(Now), trie, {tx.sender}) /\ Top.addr \in Addresses \ Senders
      /\ Effects \cap Senders = {}
  BY <1>1, RunningSpent
<1>6. Signed(World(s), trie, {tx.sender}) /\ Kept(s, BaseOf(s, frames)) /\ Len(s.log) \in Nat
  BY <1>4, <1>5, RespectsSigned, ReadyDef, Levels
<1>7. PICK from \in Addresses : from = Top.addr
  BY <1>5
<1>8. /\ Balance(s, from) >= v
      /\ CallCode(s, from, code, to, v) \/ CallNoCode(s, from, code, to, v)
  BY <1>3, <1>7 DEF Call
<1>9. CASE CallCode(s, from, code, to, v)
  <2>1. PICK create \in BOOLEAN : create = FALSE
    OBVIOUS
  <2>2. PICK f : f = NewFrame(to, from, create, Len(s.log))
    OBVIOUS
  <2>3. f \in FrameRecord /\ f.addr = to /\ f.create = create /\ f.suicides = {}
        /\ f.savepoint = Len(s.log)
    BY <1>6, <2>2, NewFrameDef
  <2>4. ~ f.create
    BY <2>1, <2>3, Zenon
  <2>5. PICK t : t = TransferBalance(s, from, to, v)
    OBVIOUS
  <2>6. /\ AddressHasCode(s, code) /\ Becomes(t) /\ frames' = Append(frames, f)
        /\ saved' = Append(saved, [world |-> World(s), effects |-> Effects])
    BY <1>9, <2>1, <2>2, <2>5 DEF CallCode, Enter, Savepoint, NewFrame
  <2>7. to = code \/ (frames # <<>> /\ to = frames[Len(frames)].addr)
    BY <1>1 DEF Top
  <2>8. /\ Ready(t, Append(frames, f),
                 Append(saved, [world |-> World(s), effects |-> Pending(frames, Len(frames))]))
        /\ t.trie = trie
    BY <1>4, <1>7, <1>8, <2>3, <2>4, <2>5, <2>6, <2>7, CallCodeReady
  <2>9. Now' = t
    BY <1>1, <2>6, <2>8, ReadyDef, NowIs
  <2>10. Respects(s, Now')
    BY <1>6, <2>5, <2>9, PaysRespects
  <2>11. f.addr \notin Senders
    BY <1>5, <1>6, <2>3, <2>6, SignedNoCode
  <2>12. Effects' = Effects
    BY <1>1, <2>3, <2>6, OpenedEffects
  <2> QED BY <1>1, <1>4, <2>6, <2>10, <2>11, <2>12, SpentOpens
<1>10. CASE CallNoCode(s, from, code, to, v)
  <2>1. UNCHANGED <<frames, saved>>
    BY <1>10 DEF CallNoCode
  <2>2. PICK t \in {TransferBalance(s, from, to, v), s, AddBalance(s, code, 0)} : Becomes(t)
    BY <1>10 DEF CallNoCode
  <2>3. Ready(t, frames, saved) /\ t.trie = trie
    BY <1>4, <1>8, <2>2, CallNoCodeReady
  <2>4. Now' = t
    BY <1>1, <2>2, <2>3, ReadyDef, NowIs
  <2>5. Respects(s, t)
    BY <1>6, <2>2, PaysRespects
  <2>6. Respects(Now, Now')
    BY <1>4, <2>4, <2>5, RespectsTransitive
  <2>7. Effects' = Effects
    BY <1>1, <2>1 DEF Effects
  <2> QED BY <1>1, <1>5, <2>1, <2>6, <2>7, SpentStays
<1> QED BY <1>8, <1>9, <1>10

LEMMA CreateSpent ==
    ASSUME Keyed, FrameInv, SpentInv, NEW v \in Amounts, NEW picked, Create(v, picked)
    PROVE  SpentInv'
<1>1. frames # <<>> /\ UNCHANGED <<trie, tx, suicides>>
  BY DEF Create, Operation, Running, FrameInv
<1>2. Ready(Now, frames, saved) /\ Now.trie = trie /\ v \in Nat
  BY <1>1, RunningDef, ExecutionAssumption
<1>3. PICK s : s = ClearCache(Now, picked)
  OBVIOUS
<1>4. Ready(s, frames, saved) /\ s.trie = trie /\ Respects(Now, s)
  BY <1>2, <1>3, ReadyCleared, CoversRespects
<1>5. Top.addr \in Addresses \ Senders /\ Effects \cap Senders = {}
  BY <1>1, RunningSpent
<1>6. PICK from \in Addresses \ Senders : from = Top.addr
  BY <1>5
<1>7. PICK cs : cs = IncNonce(s, from)
  OBVIOUS
<1>8. Sound(s) /\ HasAccount(s, from)
  BY <1>1, <1>4, <1>6, ReadyDef, TopSafe DEF Top, Dirty, HasAccount
<1>9. /\ Ready(cs, frames, saved) /\ cs.trie = trie
      /\ Balance(cs, from) = Balance(s, from)
  BY <1>1, <1>4, <1>6, <1>7, NonceReady DEF Top
<1>10. Kept(cs, BaseOf(cs, frames)) /\ Len(cs.log) \in Nat
  BY <1>9, ReadyDef, Levels
<1>11. Respects(Now, cs)
  BY <1>4, <1>7, <1>8, NonceRespects, RespectsTransitive
<1>12. PICK n \in Nat : n = GetNonce(s, from)
  BY <1>8, NonceType
<1>13. /\ Balance(s, from) >= v
       /\ \E addr \in Addresses \cap NewAddresses(from, n) :
             \/ CreateCode(cs, from, addr, v)
             \/ CreateNoCode(cs, from, addr, v)
  BY <1>3, <1>6, <1>7, <1>12 DEF Create
<1>14. PICK addr \in Addresses \ Senders :
          CreateCode(cs, from, addr, v) \/ CreateNoCode(cs, from, addr, v)
  <2>1. NewAddresses(from, n) \cap Senders = {}
    BY DEF Keyed
  <2> QED BY <1>13, <2>1
<1>15. Balance(cs, from) >= v
  BY <1>9, <1>13
<1>16. CASE CreateCode(cs, from, addr, v)
  <2>1. PICK create \in BOOLEAN : create = TRUE
    OBVIOUS
  <2>2. PICK f : f = NewFrame(addr, from, create, Len(cs.log))
    OBVIOUS
  <2>3. /\ f \in FrameRecord /\ f.addr = addr /\ f.savepoint = Len(cs.log) /\ f.suicides = {}
    BY <1>10, <2>2, NewFrameDef
  <2>4. PICK t : t = ClearStorage(Endowed(cs, from, addr, v), addr)
    OBVIOUS
  <2>5. /\ ~ AlreadyUsed(cs, addr) /\ Becomes(t) /\ frames' = Append(frames, f)
        /\ saved' = Append(saved, [world |-> World(cs), effects |-> Effects])
    BY <1>16, <2>1, <2>2, <2>4 DEF CreateCode, Enter, Savepoint, NewFrame
  <2>6. /\ Ready(t, Append(frames, f),
                 Append(saved, [world |-> World(cs), effects |-> Pending(frames, Len(frames))]))
        /\ t.trie = trie
    BY <1>2, <1>9, <1>15, <2>3, <2>4, <2>5, CreateCodeReady
  <2>7. Now' = t
    BY <1>1, <2>5, <2>6, ReadyDef, NowIs
  <2>8. Respects(cs, Now')
    BY <1>2, <1>10, <2>4, <2>5, <2>7, EndowedRespects
  <2>9. Effects' = Effects
    BY <1>1, <2>3, <2>5, OpenedEffects
  <2> QED BY <1>1, <1>11, <2>3, <2>5, <2>8, <2>9, SpentOpens
<1>17. CASE CreateNoCode(cs, from, addr, v)
  <2>1. PICK t : t = IF AlreadyUsed(cs, addr) THEN Rollback(cs, Savepoint(cs))
                     ELSE Endowed(cs, from, addr, v)
    OBVIOUS
  <2>2. Becomes(t) /\ UNCHANGED <<frames, saved>>
    BY <1>17, <2>1 DEF CreateNoCode
  <2>3. Ready(t, frames, saved) /\ t.trie = trie
    BY <1>2, <1>9, <1>15, <2>1, CreateNoCodeReady
  <2>4. Now' = t
    BY <1>1, <2>2, <2>3, ReadyDef, NowIs
  <2>5. Respects(cs, t)
    BY <1>2, <1>10, <2>1, EndowedRespects, RollbackRespects
  <2>6. Respects(Now, Now')
    BY <1>11, <2>4, <2>5, RespectsTransitive
  <2>7. Effects' = Effects
    BY <1>1, <2>2 DEF Effects
  <2> QED BY <1>1, <1>5, <2>2, <2>6, <2>7, SpentStays
<1> QED BY <1>14, <1>16, <1>17

\* SSTORE, SLOAD and SUICIDE.
LEMMA StoreSpent ==
    ASSUME FrameInv, SpentInv, NEW k \in Keys, NEW picked,
           Load(k, picked) \/ \E v \in Values : Store(k, v, picked)
    PROVE  SpentInv'
<1>1. frames # <<>> /\ UNCHANGED <<trie, frames, tx, suicides, saved>>
  BY DEF Load, Store, Operation, Running, FrameInv
<1>2. Ready(Now, frames, saved) /\ Now.trie = trie
  BY <1>1, RunningDef
<1>3. PICK s : s = ClearCache(Now, picked)
  OBVIOUS
<1>4. Ready(s, frames, saved) /\ s.trie = trie /\ Respects(Now, s)
  BY <1>2, <1>3, ReadyCleared, CoversRespects
<1>5. Kept(s, BaseOf(s, frames))
  BY <1>4, ReadyDef
<1>6. Top.addr \in Addresses \ Senders /\ Effects \cap Senders = {}
  BY <1>1, RunningSpent
<1>7. PICK a \in Addresses \ Senders : a = Top.addr
  BY <1>6
<1>8. ASSUME NEW t, t = StorageRead(s, a, k) \/ \E v \in Values : t = SetStorage(s, a, k, v)
      PROVE  Ready(t, frames, saved) /\ t.trie = trie /\ Respects(s, t)
  <2>1. Ready(t, frames, saved) /\ t.trie = trie
    BY <1>1, <1>4, <1>7, <1>8, LoadReady, StoreReady DEF Top
  <2>2. Respects(s, t)
    BY <1>5, <1>7, <1>8, StorageReadExtends, CoversRespects, StoreRespects
  <2> QED BY <2>1, <2>2
<1>9. PICK t : /\ t = StorageRead(s, a, k) \/ \E v \in Values : t = SetStorage(s, a, k, v)
               /\ Becomes(t)
  BY <1>3, <1>7 DEF Load, Store
<1>10. Ready(t, frames, saved) /\ t.trie = trie /\ Respects(s, t)
  BY <1>8, <1>9
<1>11. Now' = t
  BY <1>1, <1>9, <1>10, ReadyDef, NowIs
<1>12. Respects(Now, Now')
  BY <1>4, <1>10, <1>11, RespectsTransitive
<1>13. Effects' = Effects
  BY <1>1 DEF Effects
<1> QED BY <1>1, <1>6, <1>12, <1>13, SpentStays

LEMMA SuicideSpent ==
    ASSUME FrameInv, SpentInv, NEW heir \in Addresses, NEW picked, Suicide(heir, picked)
    PROVE  SpentInv'
<1>1. frames # <<>> /\ UNCHANGED <<trie, tx, suicides, saved>>
  BY DEF Suicide, Operation, Running, FrameInv
<1>2. Ready(Now, frames, saved) /\ Now.trie = trie /\ frames \in Seq(FrameRecord)
  BY <1>1, RunningDef
<1>3. PICK s : s = ClearCache(Now, picked)
  OBVIOUS
<1>4. Ready(s, frames, saved) /\ s.trie = trie /\ Respects(Now, s)
  BY <1>2, <1>3, ReadyCleared, CoversRespects
<1>5. Kept(s, BaseOf(s, frames)) /\ Solvent(s)
  BY <1>4, ReadyDef
<1>6. Top.addr \in Addresses \ Senders /\ Effects \cap Senders = {}
  BY <1>1, RunningSpent
<1>7. PICK a \in Addresses \ Senders : a = Top.addr
  BY <1>6
<1>8. PICK t : t = SetBalance(AddBalance(s, heir, Balance(s, a)), a, 0)
  OBVIOUS
<1>9. PICK gs : gs = [frames EXCEPT ![Len(frames)].suicides = @ \cup {a},
                                    ![Len(frames)].halted = TRUE]
  OBVIOUS
<1>10. /\ Ready(t, gs, saved) /\ t.trie = trie
  BY <1>1, <1>4, <1>7, <1>8, <1>9, SuicideReady DEF Top
<1>11. Becomes(t) /\ frames' = gs
  BY <1>3, <1>7, <1>8, <1>9 DEF Suicide
<1>12. Now' = t
  BY <1>1, <1>10, <1>11, NowIs, ReadyDef
<1>13. Respects(s, t)
  BY <1>5, <1>7, <1>8, SuicideExtends, MildRespects
<1>14. Respects(Now, Now')
  BY <1>4, <1>12, <1>13, RespectsTransitive
<1>15. /\ Len(gs) = Len(frames) /\ DOMAIN gs = DOMAIN frames
       /\ \A j \in DOMAIN frames : /\ gs[j].addr = frames[j].addr
                                   /\ gs[j].suicides \subseteq frames[j].suicides \cup {a}
  <2>1. Len(frames) \in Nat /\ DOMAIN frames = 1..Len(frames)
    BY <1>2
  <2>2. DOMAIN gs = DOMAIN frames /\ Len(gs) = Len(frames)
    BY <1>2, <1>9, <2>1
  <2>3. ASSUME NEW j \in DOMAIN frames
        PROVE  gs[j].addr = frames[j].addr /\ gs[j].suicides \subseteq frames[j].suicides \cup {a}
    <3>1. frames[j] \in FrameRecord
      BY <1>2, <2>1
    <3>2. PICK f : f = frames[j]
      OBVIOUS
    <3>3. gs[j] = IF j = Len(frames)
                  THEN [f EXCEPT !.suicides = @ \cup {a}, !.halted = TRUE] ELSE f
      BY <1>9, <2>1, <3>2
    <3> QED BY <3>1, <3>2, <3>3 DEF FrameRecord
  <2> QED BY <2>2, <2>3
<1>16. Effects' \subseteq Effects \cup {a}
  BY <1>1, <1>11, <1>15 DEF Effects
<1>17. Effects' \cap Senders = {}
  BY <1>6, <1>7, <1>16
<1>18. \A j \in 1..Len(frames) : frames'[j].addr = frames[j].addr
  BY <1>2, <1>11, <1>15
<1>19. Len(frames') = Len(frames)
  BY <1>11, <1>15
<1> QED BY <1>1, <1>14, <1>17, <1>18, <1>19, SpentStays

LEMMA ReturnSpent ==
    ASSUME FrameInv, SpentInv, NEW code, NEW picked, Return(code, picked)
    PROVE  SpentInv'
<1>1. frames # <<>> /\ trie' = trie
  BY DEF Return, FrameInv
<1>2. /\ Ready(Now, frames, saved) /\ Now.trie = trie /\ frames \in Seq(FrameRecord)
  BY <1>1, RunningDef
<1>3. PICK s : s = ClearCache(Now, picked)
  OBVIOUS
<1>4. Ready(s, frames, saved) /\ s.trie = trie /\ Respects(Now, s)
  BY <1>2, <1>3, ReadyCleared, CoversRespects
<1>5. Sound(s)
  BY <1>4, ReadyDef
<1>6. /\ Top.addr \in Addresses \ Senders /\ Effects \cap Senders = {}
      /\ Signed(World(Now), trie, {tx.sender})
  BY <1>1, RunningSpent
<1>7. PICK t : t = Deposited(s, code)
  OBVIOUS
<1>8. Ready(t, frames, saved) /\ t.trie = trie
  BY <1>1, <1>4, <1>7, DepositReady DEF Deposited, Top
<1>9. Respects(s, t)
  <2>1. CASE Top.create
    BY <1>5, <1>6, <1>7, <2>1, SetCodeRespects DEF Deposited
  <2>2. CASE ~ Top.create
    BY <1>7, <2>2, CoversReflexive, CoversRespects DEF Deposited
  <2> QED BY <2>1, <2>2
<1>10. PICK leave : leave = Top.suicides
  OBVIOUS
<1>11. Top \in FrameRecord
  BY <1>1, <1>2, TopSafe DEF Top
<1>12. leave \in SUBSET Addresses
  BY <1>10, <1>11 DEF FrameRecord
<1>13. Becomes(t) /\ Leave(leave)
  BY <1>3, <1>7, <1>10 DEF Return
<1>14. Now' = t
  BY <1>1, <1>8, <1>13, NowIs, ReadyDef
<1>15. Signed(World(Now'), trie, {tx.sender})
  BY <1>4, <1>6, <1>9, <1>14, RespectsSigned
<1>16. FrameInv' /\ Effects' = Effects
  BY ReturnStep DEF Promise!Keep
<1> QED BY <1>1, <1>6, <1>12, <1>13, <1>15, <1>16, SpentLeaves

LEMMA RevertSpent ==
    ASSUME FrameInv, SpentInv, Revert
    PROVE  SpentInv'
<1>1. frames # <<>> /\ trie' = trie /\ Leave({})
  BY DEF Revert, Running, FrameInv
<1>2. FrameInv' /\ World(Now') = saved[Len(saved)].world /\ Effects' = saved[Len(saved)].effects
  BY RevertStep DEF Promise!Fail
<1>3. /\ Len(saved) = Len(frames) /\ frames \in Seq(FrameRecord) /\ FramesOK(Now, frames, saved)
      /\ Effects = Pending(frames, Len(frames))
  BY <1>1, RunningDef, ReadyDef
<1>4. PICK n \in 1..Len(frames) : n = Len(frames)
  BY <1>1, <1>3
<1>5. Signed(saved[n].world, trie, {tx.sender})
  BY DEF SpentInv
<1>6. saved[n].effects = Pending(frames, n - 1)
  <2>1. FrameOK(Now, frames, saved, n)
    BY <1>3 DEF FramesOK
  <2>2. PICK w : saved[n] = [world |-> w, effects |-> Pending(frames, n - 1)]
    BY <2>1 DEF FrameOK
  <2> QED BY <2>2
<1>7. Pending(frames, n - 1) \subseteq Pending(frames, n)
  <2>1. \A i \in 1..n - 1 : i \in 1..n
    OBVIOUS
  <2> QED BY <2>1 DEF Pending
<1>8. Effects' \cap Senders = {}
  BY <1>2, <1>3, <1>4, <1>6, <1>7 DEF SpentInv
<1> QED BY <1>1, <1>2, <1>3, <1>4, <1>5, <1>8, SpentLeaves

(***************************************************************************)
(* A transaction begins.                                                   *)
(***************************************************************************)
LEMMA TrieSigned ==
    ASSUME NEW s, Sound(s), s.cache = <<>>, NoCode(s.trie)
    PROVE  Signed(World(s), s.trie, {})
<1> SUFFICES ASSUME NEW b \in Senders
             PROVE  /\ b \in DOMAIN World(s) =>
                          /\ World(s)[b].code = EmptyCode
                          /\ World(s)[b].nonce = NonceIn(s.trie, b)
                    /\ b \notin DOMAIN World(s) => s.trie[b] = NoAccount
  BY DEF Signed
<1>1. b \in Addresses /\ b \notin DOMAIN s.cache /\ FitAt(s, b)
  BY ExecutionAssumption DEF Sound, Basic
<1>2. CASE HasAccount(s, b)
  <2>1. s.trie[b] # NoAccount /\ AccountAt(s, b) = FromTrie(s.trie[b])
    BY <1>1, <1>2 DEF HasAccount, AccountAt
  <2>2. /\ AccountAt(s, b).nonce = s.trie[b].nonce /\ AccountAt(s, b).code = s.trie[b].code
        /\ s.trie[b].nonce \in Nat
    BY <1>1, <2>1 DEF FromTrie, FitAt
  <2>3. s.trie[b].code = EmptyCode /\ NonceIn(s.trie, b) = s.trie[b].nonce
    BY <2>1 DEF NoCode, NonceIn
  <2> QED BY <1>1, <1>2, <2>2, <2>3, WorldAt
<1>3. CASE ~ HasAccount(s, b)
  <2>1. s.trie[b] = NoAccount
    BY <1>1, <1>3 DEF HasAccount, FitAt
  <2> QED BY <1>1, <1>3, <2>1, WorldAt
<1> QED BY <1>2, <1>3

LEMMA IncNonceAt ==
    ASSUME NEW s, Sound(s), NEW a \in Addresses
    PROVE  LET t == IncNonce(s, a) IN
           /\ HasAccount(t, a) /\ AccountAt(t, a).nonce = GetNonce(s, a) + 1
           /\ AccountAt(t, a).code = CodeAt(s, a)
           /\ \A b \in Addresses \ {a} : /\ HasAccount(t, b) <=> HasAccount(s, b)
                                         /\ HasAccount(s, b) => AccountAt(t, b) = AccountAt(s, b)
<1> DEFINE t == IncNonce(s, a)
<1>1. CASE HasAccount(s, a)
  <2>0. PICK m \in Nat : m = AccountAt(s, a).nonce
    BY <1>1, AccountFormed DEF Formed
  <2>1. PICK n : n = m + 1
    OBVIOUS
  <2>2. n \in Nat /\ n # 0 /\ n = AccountAt(s, a).nonce + 1
    BY <2>0, <2>1
  <2>3. t = Renonced(s, a, n)
    BY <1>1, <2>2, NonceIs
  <2> HIDE DEF t
  <2>4. /\ a \in DOMAIN t.cache /\ t.cache[a].nonce = n /\ t.cache[a].code = AccountAt(s, a).code
        /\ \A b \in Addresses \ {a} : /\ HasAccount(t, b) <=> HasAccount(s, b)
                                      /\ HasAccount(s, b) => AccountAt(t, b) = AccountAt(s, b)
    BY <1>1, <2>2, <2>3, RenoncedDef
  <2>5. HasAccount(t, a) /\ AccountAt(t, a) = t.cache[a]
    BY <2>4 DEF HasAccount, AccountAt
  <2> QED BY <1>1, <2>2, <2>4, <2>5 DEF GetNonce, CodeAt, t
<1>2. CASE ~ HasAccount(s, a)
  <2> DEFINE l == Loaded(s, a)
             n == NewAccount(AccountStartNonce + 1, 0)
  <2>1. Sound(l) /\ Alike(s, l) /\ Elsewhere(s, l, a)
    BY LoadedDef
  <2>2. ~ HasAccount(l, a) /\ IsState(l)
    BY <1>2, <2>1 DEF Alike, Sound, Basic
  <2>3. t = CreateAccount(l, a, n)
    BY <2>2 DEF IncNonce
  <2>4. AccountStartNonce + 1 \in Nat /\ 0 \in Int
    BY StateAssumption
  <2>5. /\ Formed(n) /\ ~ n.unchanged /\ Unwritten(n) /\ n.nonce = AccountStartNonce + 1
        /\ n.code = EmptyCode
    BY <2>4, NewAccountDef
  <2> HIDE DEF l, n, t
  <2>6. /\ IsState(t) /\ Elsewhere(l, t, a) /\ a \in DOMAIN t.cache /\ t.cache[a] = n
        /\ a \notin t.absent
    BY <2>2, <2>3, CreateAccountDef
  <2>7. Elsewhere(s, t, a)
    BY <2>1, <2>6, ElsewhereTransitive
  <2>8. /\ HasAccount(t, a) /\ AccountAt(t, a) = n
        /\ \A b \in Addresses \ {a} : /\ HasAccount(t, b) <=> HasAccount(s, b)
                                      /\ HasAccount(s, b) => AccountAt(t, b) = AccountAt(s, b)
    BY <2>5, <2>6, <2>7, ChangeSound
  <2> QED BY <1>2, <2>5, <2>8 DEF GetNonce, CodeAt, t
<1> QED BY <1>1, <1>2

LEMMA SpendSigned ==
    ASSUME NEW s, Sound(s), NEW tr, Signed(World(s), tr, {}), NEW a \in Senders
    PROVE  Signed(World(IncNonce(s, a)), tr, {a})
<1>1. PICK t : t = IncNonce(s, a)
  OBVIOUS
<1>2. Senders \subseteq Addresses
  BY ExecutionAssumption
<1>3. /\ HasAccount(t, a) /\ AccountAt(t, a).nonce = GetNonce(s, a) + 1
      /\ AccountAt(t, a).code = CodeAt(s, a)
      /\ \A b \in Addresses \ {a} : /\ HasAccount(t, b) <=> HasAccount(s, b)
                                    /\ HasAccount(s, b) => AccountAt(t, b) = AccountAt(s, b)
  BY <1>1, <1>2, IncNonceAt
<1>4. \A b \in Senders :
         /\ HasAccount(s, b) => AccountAt(s, b).code = EmptyCode
                                /\ AccountAt(s, b).nonce = NonceIn(tr, b)
         /\ ~ HasAccount(s, b) => tr[b] = NoAccount
  BY <1>2, WorldAt DEF Signed
<1>5. GetNonce(s, a) = NonceIn(tr, a) /\ CodeAt(s, a) = EmptyCode
  <2>1. CASE HasAccount(s, a)
    BY <1>4, <2>1 DEF GetNonce, CodeAt
  <2>2. CASE ~ HasAccount(s, a)
    BY <1>4, <2>2 DEF GetNonce, CodeAt, NonceIn
  <2> QED BY <2>1, <2>2
<1>6. ASSUME NEW b \in Senders
      PROVE  /\ b \in DOMAIN World(t) =>
                   /\ World(t)[b].code = EmptyCode
                   /\ World(t)[b].nonce = IF b \in {a} THEN NonceIn(tr, b) + 1 ELSE NonceIn(tr, b)
             /\ b \notin DOMAIN World(t) => b \notin {a} /\ tr[b] = NoAccount
  <2>1. CASE b = a
    BY <1>2, <1>3, <1>5, <2>1, WorldAt
  <2>2. CASE b # a
    BY <1>2, <1>3, <1>4, <2>2, WorldAt
  <2> QED BY <2>1, <2>2
<1> QED BY <1>1, <1>6 DEF Signed

LEMMA BegunSpent ==
    ASSUME NoCode(trie), NEW sender \in Senders, NEW cs, Signed(World(cs), trie, {sender}),
           Respects(cs, Now'), trie' = trie, Effects' = {},
           tx' = [sender |-> sender, phase |-> IF frames' = <<>> THEN "over" ELSE "running"],
           \/ frames' = <<>>
           \/ \E f, e : /\ f.addr \notin Senders /\ frames' = <<f>>
                        /\ saved' = <<[world |-> World(cs), effects |-> e]>>
    PROVE  SpentInv'
<1>1. PICK phase \in {"over", "running"} : tx' = [sender |-> sender, phase |-> phase]
  OBVIOUS
<1>2. tx'.sender = sender /\ tx'.phase # "none"
  BY <1>1
<1>3. tx' # NoTx
  BY <1>2 DEF NoTx
<1>4. PICK t : t = Now'
  OBVIOUS
<1>5. Signed(World(t), trie, {sender})
  BY <1>4, RespectsSigned
<1>6. ASSUME NEW j \in 1..Len(frames')
      PROVE  frames'[j].addr \notin Senders /\ Signed(saved'[j].world, trie, {sender})
  <2>1. CASE frames' = <<>>
    BY <1>6, <2>1
  <2>2. ASSUME NEW f, NEW e, f.addr \notin Senders, frames' = <<f>>,
               saved' = <<[world |-> World(cs), effects |-> e]>>
        PROVE  frames'[j].addr \notin Senders /\ Signed(saved'[j].world, trie, {sender})
    <3>1. j = 1
      BY <1>6, <2>2
    <3>2. frames'[1] = f /\ saved'[1].world = World(cs)
      BY <2>2
    <3> QED BY <2>2, <3>1, <3>2
  <2> QED BY <2>1, <2>2
<1> QED BY <1>2, <1>3, <1>4, <1>5, <1>6 DEF SpentInv

LEMMA BeginSpent ==
    ASSUME Keyed, FrameInv, SpentInv, NEW sender \in Senders, NEW picked, BeginTx(sender, picked)
    PROVE  SpentInv'
<1>1. /\ tx = NoTx /\ UNCHANGED <<trie, suicides>> /\ sender \in Addresses
      /\ tx' = [sender |-> sender, phase |-> IF frames' = <<>> THEN "over" ELSE "running"]
  BY ExecutionAssumption DEF BeginTx
<1>2. frames = <<>> /\ NoCode(trie) /\ m_cache = <<>> /\ Effects' = {}
  BY <1>1, BeginTxStep DEF FrameInv, NoTx, SpentInv, Promise!Settle
<1>3. Sound(Now) /\ saved = <<>> /\ Now.trie = trie /\ Funded(Now, 0) /\ Now.cache = <<>>
  BY <1>1, <1>2, EmptyFrames DEF FrameInv, Now
<1>4. PICK s : s = ClearCache(Now, picked)
  OBVIOUS
<1>5. Sound(s) /\ s.trie = trie /\ Respects(Now, s)
  BY <1>3, <1>4, ClearCacheSound, CoversRespects
<1>6. Signed(World(s), trie, {})
  BY <1>2, <1>3, <1>5, TrieSigned, RespectsSigned
<1>7. PICK n \in Nat : n = GetNonce(s, sender)
  BY <1>1, <1>5, NonceType
<1>8. PICK v \in Amounts :
        /\ Balance(s, sender) >= TxGas * GasPrice + v
        /\ LET cs == IncNonce(SubBalance(s, sender, TxGas * GasPrice), sender) IN
           \/ \E to \in Addresses : CallCode(cs, sender, to, to, v) \/ CallNoCode(cs, sender, to, to, v)
           \/ \E addr \in Addresses \cap NewAddresses(sender, n) :
                 CreateCode(cs, sender, addr, v) \/ CreateNoCode(cs, sender, addr, v)
  BY <1>4, <1>7 DEF BeginTx
<1>9. v \in Nat
  BY ExecutionAssumption
<1>10. PICK p : p = SubBalance(s, sender, TxGas * GasPrice)
  OBVIOUS
<1>11. Extends(s, p, Len(s.log)) /\ Mild(s, p)
  BY <1>1, <1>5, <1>10, FreshKept, GasPaid, SubBalanceExtends
<1>12. Sound(p) /\ Signed(World(p), trie, {})
  BY <1>6, <1>11, MildRespects, RespectsSigned DEF Extends, Kept
<1>13. PICK cs : cs = IncNonce(p, sender)
  OBVIOUS
<1>14. Signed(World(cs), trie, {sender})
  BY <1>12, <1>13, SpendSigned
<1>15. cs = IncNonce(SubBalance(s, sender, TxGas * GasPrice), sender)
  BY <1>10, <1>13
<1>16. Ready(cs, <<>>, <<>>) /\ cs.trie = trie /\ Balance(cs, sender) >= v
  BY <1>1, <1>3, <1>4, <1>8, <1>9, <1>15, PaidReady
<1>17. PICK none : none = <<>>
  OBVIOUS
<1>18. Ready(cs, none, none)
  BY <1>16, <1>17
<1>19. Kept(cs, BaseOf(cs, none)) /\ Len(cs.log) \in Nat
  BY <1>18, ReadyDef, Levels
<1>20. ASSUME NEW t, NEW f, f.addr \notin Senders, IsState(t), t.trie = trie, Becomes(t),
              Respects(cs, t), frames' = Append(frames, f),
              saved' = Append(saved, [world |-> World(cs), effects |-> Effects])
       PROVE  SpentInv'
  <2>1. Now' = t
    BY <1>1, <1>20, NowIs
  <2>2. PICK e : e = Effects
    OBVIOUS
  <2>3. frames' = <<f>> /\ saved' = <<[world |-> World(cs), effects |-> e]>>
    BY <1>2, <1>3, <1>20, <2>2
  <2> QED BY <1>1, <1>2, <1>14, <1>20, <2>1, <2>3, BegunSpent
<1>21. ASSUME NEW t, Ready(t, none, none), t.trie = trie, Becomes(t), Respects(cs, t),
              UNCHANGED <<frames, saved>>
       PROVE  SpentInv'
  <2>1. Now' = t /\ frames' = <<>>
    BY <1>1, <1>2, <1>21, ReadyDef, NowIs
  <2> QED BY <1>1, <1>2, <1>14, <1>21, <2>1, BegunSpent
<1>22. ASSUME NEW to \in Addresses, CallCode(cs, sender, to, to, v)
       PROVE  SpentInv'
  <2>0. PICK create \in BOOLEAN : create = FALSE
    OBVIOUS
  <2>1. PICK f : f = NewFrame(to, sender, create, Len(cs.log))
    OBVIOUS
  <2>2. f \in FrameRecord /\ f.addr = to
    BY <1>1, <1>19, <2>1, NewFrameDef
  <2>3. PICK t : t = TransferBalance(cs, sender, to, v)
    OBVIOUS
  <2>4. /\ AddressHasCode(cs, to) /\ Becomes(t) /\ frames' = Append(frames, f)
        /\ saved' = Append(saved, [world |-> World(cs), effects |-> Effects])
    BY <1>22, <2>0, <2>1, <2>3 DEF CallCode, Enter, Savepoint, NewFrame
  <2>5. Extends(cs, t, BaseOf(cs, none)) /\ Respects(cs, t)
    BY <1>1, <1>9, <1>19, <2>3, TransferExtends, MildRespects
  <2>6. IsState(t) /\ t.trie = trie
    BY <1>16, <2>5 DEF Extends, Kept, Sound, Basic
  <2>7. f.addr \notin Senders
    BY <1>14, <2>2, <2>4, SignedNoCode
  <2> QED BY <1>20, <2>4, <2>5, <2>6, <2>7
<1>23. ASSUME NEW to \in Addresses, CallNoCode(cs, sender, to, to, v)
       PROVE  SpentInv'
  <2>1. UNCHANGED <<frames, saved>>
    BY <1>23 DEF CallNoCode
  <2>2. PICK t \in {TransferBalance(cs, sender, to, v), cs, AddBalance(cs, to, 0)} : Becomes(t)
    BY <1>23 DEF CallNoCode
  <2>3. Ready(t, none, none) /\ t.trie = trie
    BY <1>1, <1>9, <1>16, <1>18, <2>2, CallNoCodeReady
  <2>4. Respects(cs, t)
    BY <1>1, <1>9, <1>19, <2>2, PaysRespects
  <2> QED BY <1>21, <2>1, <2>2, <2>3, <2>4
<1>24. NewAddresses(sender, n) \cap Senders = {}
  BY <1>1 DEF Keyed
<1>25. ASSUME NEW addr \in Addresses \ Senders, CreateCode(cs, sender, addr, v)
       PROVE  SpentInv'
  <2>0. PICK create \in BOOLEAN : create = TRUE
    OBVIOUS
  <2>1. PICK f : f = NewFrame(addr, sender, create, Len(cs.log))
    OBVIOUS
  <2>2. f \in FrameRecord /\ f.addr = addr
    BY <1>1, <1>19, <2>1, NewFrameDef
  <2>3. PICK t : t = ClearStorage(Endowed(cs, sender, addr, v), addr)
    OBVIOUS
  <2>4. /\ ~ AlreadyUsed(cs, addr) /\ Becomes(t) /\ frames' = Append(frames, f)
        /\ saved' = Append(saved, [world |-> World(cs), effects |-> Effects])
    BY <1>25, <2>0, <2>1, <2>3 DEF CreateCode, Enter, Savepoint, NewFrame
  <2>5. Extends(cs, t, BaseOf(cs, none)) /\ Respects(cs, t)
    BY <1>1, <1>9, <1>19, <2>3, <2>4, CreatedExtends, EndowedRespects
  <2>6. IsState(t) /\ t.trie = trie
    BY <1>16, <2>5 DEF Extends, Kept, Sound, Basic
  <2> QED BY <1>20, <2>2, <2>4, <2>5, <2>6
<1>26. ASSUME NEW addr \in Addresses \ Senders, CreateNoCode(cs, sender, addr, v)
       PROVE  SpentInv'
  <2>1. PICK t : t = IF AlreadyUsed(cs, addr) THEN Rollback(cs, Savepoint(cs))
                     ELSE Endowed(cs, sender, addr, v)
    OBVIOUS
  <2>2. Becomes(t) /\ UNCHANGED <<frames, saved>>
    BY <1>26, <2>1 DEF CreateNoCode
  <2>3. Ready(t, none, none) /\ t.trie = trie
    BY <1>1, <1>9, <1>16, <1>18, <2>1, CreateNoCodeReady
  <2>4. Respects(cs, t)
    BY <1>1, <1>9, <1>19, <2>1, EndowedRespects, RollbackRespects
  <2> QED BY <1>21, <2>2, <2>3, <2>4
<1> QED BY <1>8, <1>15, <1>22, <1>23, <1>24, <1>25, <1>26

(***************************************************************************)
(* It is over: what is committed of a signer.                              *)
(***************************************************************************)
LEMMA FinalizedSigned ==
    ASSUME FrameInv, SpentInv, tx.phase = "over", NEW gas \in 0..TxGas
    PROVE  \E p : /\ Sound(p) /\ p.trie = trie /\ Signed(World(p), trie, {tx.sender})
                  /\ Finalized(Now, gas) = Kill(p, suicides)
<1>1. frames = <<>> /\ tx # NoTx /\ tx.sender \in Addresses
  BY DEF FrameInv
<1>2. Sound(Now) /\ Now.trie = trie /\ Signed(World(Now), trie, {tx.sender})
  BY <1>1, EmptyFrames DEF SpentInv
<1>3. PICK refund \in Nat : refund = gas * GasPrice
  BY ExecutionAssumption
<1>4. PICK fees \in Nat : fees = (TxGas - gas) * GasPrice
  BY ExecutionAssumption
<1>5. PICK q : q = AddBalance(Now, tx.sender, refund)
  OBVIOUS
<1>6. Extends(Now, q, Len(Now.log)) /\ Mild(Now, q)
  BY <1>1, <1>2, <1>5, FreshKept, AddBalanceExtends
<1>7. Sound(q) /\ q.trie = trie
  BY <1>2, <1>6 DEF Extends, Kept
<1>8. PICK p : p = AddBalance(q, Author, fees)
  OBVIOUS
<1>9. Extends(q, p, Len(q.log)) /\ Mild(q, p)
  BY <1>7, <1>8, FreshKept, AddBalanceExtends, ExecutionAssumption
<1>10. Sound(p) /\ p.trie = trie
  BY <1>7, <1>9 DEF Extends, Kept
<1>11. Signed(World(p), trie, {tx.sender})
  BY <1>2, <1>6, <1>9, MildRespects, RespectsSigned
<1>12. Finalized(Now, gas) = Kill(p, suicides)
  BY <1>3, <1>4, <1>5, <1>8 DEF Finalized
<1> QED BY <1>10, <1>11, <1>12

LEMMA KillSpares ==
    ASSUME NEW p, Sound(p), NEW S, NEW b, b \notin S
    PROVE  LET k == Kill(p, S)
               kept == IF EIP158 THEN RemoveEmptyAccounts(k) ELSE k
           IN  /\ kept.trie = p.trie
               /\ b \in DOMAIN kept.cache <=> b \in DOMAIN p.cache
               /\ b \in DOMAIN p.cache =>
                     \/ kept.cache[b] = p.cache[b]
                     \/ kept.cache[b] = DeadAccount /\ IsEmpty(p.cache[b])
<1> DEFINE there == {a \in S : HasAccount(p, a)}
           cc == [a \in DOMAIN p.cache \cup there |->
                     IF a \in there THEN DeadAccount ELSE p.cache[a]]
           ab == p.absent \cup (S \ there)
           cl == p.clean \cup (there \ DOMAIN p.cache)
           rc == [a \in DOMAIN cc |->
                     IF ~ cc[a].unchanged /\ IsEmpty(cc[a]) THEN DeadAccount ELSE cc[a]]
<1>1. IsState(p)
  BY DEF Sound, Basic
<1>2. PICK k : k = Kill(p, S)
  OBVIOUS
<1>3. k = [p EXCEPT !.cache = cc, !.absent = ab, !.clean = cl]
  BY <1>2 DEF Kill, Killed
<1>4. b \notin there
  OBVIOUS
<1>5. /\ b \in DOMAIN cc <=> b \in DOMAIN p.cache
      /\ b \in DOMAIN p.cache => cc[b] = p.cache[b]
  BY <1>4
<1> HIDE DEF cc, ab, cl
<1>6. /\ b \in DOMAIN rc <=> b \in DOMAIN cc
      /\ b \in DOMAIN cc => rc[b] = cc[b] \/ (rc[b] = DeadAccount /\ IsEmpty(cc[b]))
  OBVIOUS
<1>7. RemoveEmptyAccounts(k) = [k EXCEPT !.cache = rc] /\ k.cache = cc /\ k.trie = p.trie
  <2>1. k.cache = cc /\ k.trie = p.trie
    BY <1>1, <1>3 DEF IsState
  <2> QED BY <2>1 DEF RemoveEmptyAccounts, Killed
<1> HIDE DEF rc
<1>8. PICK r : r = [k EXCEPT !.cache = rc]
  OBVIOUS
<1>9. r.cache = rc /\ r.trie = p.trie
  BY <1>1, <1>3, <1>7, <1>8 DEF IsState
<1> QED BY <1>2, <1>5, <1>6, <1>7, <1>8, <1>9

LEMMA CommittedNonce ==
    ASSUME Keyed, NEW p, Sound(p), NoCode(p.trie), NEW who, Signed(World(p), p.trie, {who}),
           NEW S, NEW b \in Senders, b \notin S
    PROVE  LET k == Kill(p, S)
               kept == IF EIP158 THEN RemoveEmptyAccounts(k) ELSE k
               tr == Committed(kept)
           IN  /\ b = who => NonceIn(tr, b) = NonceIn(p.trie, b) + 1
               /\ b # who => NonceIn(tr, b) >= NonceIn(p.trie, b)
               /\ tr[b] # NoAccount => tr[b].code = EmptyCode
<1>1. PICK kept : kept = LET k == Kill(p, S) IN IF EIP158 THEN RemoveEmptyAccounts(k) ELSE k
  OBVIOUS
<1>2. /\ kept.trie = p.trie /\ (b \in DOMAIN kept.cache <=> b \in DOMAIN p.cache)
      /\ b \in DOMAIN p.cache =>
            \/ kept.cache[b] = p.cache[b]
            \/ kept.cache[b] = DeadAccount /\ IsEmpty(p.cache[b])
  BY <1>1, KillSpares
<1>3. PICK tr : tr = Committed(kept)
  OBVIOUS
<1>4. b \in Addresses /\ FitAt(p, b)
  BY ExecutionAssumption DEF Sound, Basic
<1>5. tr[b] = IF b \notin DOMAIN kept.cache \/ kept.cache[b].unchanged THEN p.trie[b]
              ELSE IF ~ kept.cache[b].alive THEN NoAccount
              ELSE [nonce |-> kept.cache[b].nonce, balance |-> kept.cache[b].balance,
                    root |-> StorageOf(kept.cache[b]), code |-> kept.cache[b].code]
  BY <1>2, <1>3, <1>4 DEF Committed
<1>6. PICK n \in Nat : n = NonceIn(p.trie, b)
  BY <1>4, StateAssumption DEF FitAt, NonceIn
<1>7. /\ HasAccount(p, b) =>
            /\ AccountAt(p, b).code = EmptyCode
            /\ AccountAt(p, b).nonce = IF b = who THEN n + 1 ELSE n
      /\ ~ HasAccount(p, b) => b # who
  BY <1>4, <1>6, WorldAt DEF Signed
<1>8. CASE b \notin DOMAIN p.cache \/ p.cache[b].unchanged
  <2>1. p.trie[b] # NoAccount => p.trie[b].code = EmptyCode
    BY DEF NoCode
  <2>2. b # who
    <3>1. SUFFICES ASSUME HasAccount(p, b) PROVE b # who
      BY <1>7
    <3>2. p.trie[b] # NoAccount /\ AccountAt(p, b).nonce = p.trie[b].nonce
      <4>1. CASE b \notin DOMAIN p.cache
        BY <3>1, <4>1 DEF HasAccount, AccountAt, FromTrie
      <4>2. CASE b \in DOMAIN p.cache
        BY <1>4, <1>8, <4>2 DEF FitAt, AsCommitted, Equals, AccountAt
      <4> QED BY <4>1, <4>2
    <3>3. AccountAt(p, b).nonce = n
      BY <1>6, <3>2 DEF NonceIn
    <3> QED BY <1>7, <3>1, <3>3
  <2>3. CASE b \notin DOMAIN kept.cache \/ kept.cache[b].unchanged
    <3>1. tr[b] = p.trie[b]
      BY <1>5, <2>3
    <3>2. NonceIn(tr, b) = n
      BY <1>6, <3>1 DEF NonceIn
    <3> QED BY <1>1, <1>3, <1>6, <2>1, <2>2, <3>1, <3>2
  <2>4. CASE b \in DOMAIN kept.cache /\ ~ kept.cache[b].unchanged
    <3>1. kept.cache[b] = DeadAccount /\ IsEmpty(p.cache[b]) /\ b \in DOMAIN p.cache
      BY <1>2, <1>8, <2>4
    <3>2. tr[b] = NoAccount
      BY <1>5, <2>4, <3>1 DEF DeadAccount
    <3>3. AccountAt(p, b).nonce = 0 /\ HasAccount(p, b)
      BY <3>1 DEF AccountAt, HasAccount, IsEmpty
    <3>4. n = 0
      BY <1>7, <2>2, <3>3
    <3>5. NonceIn(tr, b) = AccountStartNonce
      BY <3>2 DEF NonceIn
    <3> QED BY <1>1, <1>3, <1>6, <2>2, <3>2, <3>4, <3>5, StateAssumption
  <2> QED BY <2>3, <2>4
<1>9. CASE b \in DOMAIN p.cache /\ ~ p.cache[b].unchanged
  <2>1. HasAccount(p, b) /\ AccountAt(p, b) = p.cache[b] /\ Formed(p.cache[b])
    BY <1>4, <1>9 DEF HasAccount, AccountAt, FitAt
  <2>2. p.cache[b].code = EmptyCode /\ p.cache[b].nonce = IF b = who THEN n + 1 ELSE n
    BY <1>7, <2>1
  <2>3. CASE kept.cache[b] = p.cache[b]
    <3>1. kept.cache[b].alive
      BY <2>1, <2>3 DEF Formed
    <3>2. tr[b] = [nonce |-> p.cache[b].nonce, balance |-> p.cache[b].balance,
                   root |-> StorageOf(p.cache[b]), code |-> p.cache[b].code]
      BY <1>2, <1>5, <1>9, <2>3, <3>1
    <3>3. tr[b] # NoAccount
      BY <3>2 DEF Keyed
    <3>4. tr[b].nonce = p.cache[b].nonce /\ tr[b].code = p.cache[b].code
      BY <3>2
    <3>5. NonceIn(tr, b) = IF b = who THEN n + 1 ELSE n
      BY <2>2, <3>3, <3>4 DEF NonceIn
    <3> QED BY <1>1, <1>3, <1>6, <2>2, <3>4, <3>5
  <2>4. CASE kept.cache[b] = DeadAccount /\ IsEmpty(p.cache[b])
    <3>1. tr[b] = NoAccount
      BY <1>2, <1>5, <1>9, <2>4 DEF DeadAccount
    <3>2. p.cache[b].nonce = 0
      BY <2>4 DEF IsEmpty
    <3>3. b # who /\ n = 0
      BY <2>2, <3>2
    <3>4. NonceIn(tr, b) = AccountStartNonce
      BY <3>1 DEF NonceIn
    <3> QED BY <1>1, <1>3, <1>6, <3>1, <3>3, <3>4, StateAssumption
  <2> QED BY <1>2, <1>9, <2>3, <2>4
<1> QED BY <1>8, <1>9

Spending ==
    tx # NoTx /\ tx' = NoTx /\ trie' # trie =>
       \A a \in Senders :
          IF a = tx.sender THEN NonceIn(trie', a) = NonceIn(trie, a) + 1
          ELSE NonceIn(trie', a) >= NonceIn(trie, a)

\* No transaction, and an empty cache.
LEMMA SettledSpent ==
    ASSUME FrameInv', tx' = NoTx, m_cache' = <<>>, frames' = <<>>, suicides' = {}, NoCode(trie')
    PROVE  SpentInv'
<1>1. Effects' = {}
  BY DEF Effects
<1>2. \A j \in 1..Len(<<>>) : FALSE
  OBVIOUS
<1> QED BY <1>1, <1>2 DEF SpentInv

LEMMA CommitSpent ==
    ASSUME Keyed, FrameInv, SpentInv, NEW gas \in 0..TxGas, Commit(gas)
    PROVE  SpentInv' /\ Spending
<1>1. /\ tx.phase = "over" /\ tx' = NoTx /\ suicides' = {} /\ UNCHANGED frames
      /\ m_cache' = <<>>
  BY DEF Commit, Becomes
<1>2. frames = <<>> /\ FrameInv' /\ NoCode(trie)
  BY <1>1, OverDef, CommitStep DEF SpentInv
<1>3. suicides \cap Senders = {}
  BY DEF SpentInv, Effects
<1>4. PICK p : /\ Sound(p) /\ p.trie = trie /\ Signed(World(p), trie, {tx.sender})
               /\ Finalized(Now, gas) = Kill(p, suicides)
  BY <1>1, FinalizedSigned
<1>5. PICK tr : tr = Committed(LET k == Kill(p, suicides) IN
                               IF EIP158 THEN RemoveEmptyAccounts(k) ELSE k)
  OBVIOUS
<1>6. trie' = tr
  BY <1>4, <1>5 DEF Commit
<1>7. ASSUME NEW b \in Senders
      PROVE  /\ b = tx.sender => NonceIn(tr, b) = NonceIn(trie, b) + 1
             /\ b # tx.sender => NonceIn(tr, b) >= NonceIn(trie, b)
             /\ tr[b] # NoAccount => tr[b].code = EmptyCode
  <2>1. b \notin suicides /\ NoCode(p.trie)
    BY <1>2, <1>3, <1>4
  <2> QED BY <1>4, <1>5, <2>1, CommittedNonce
<1>8. NoCode(trie')
  BY <1>6, <1>7 DEF NoCode
<1>9. SpentInv'
  BY <1>1, <1>2, <1>8, SettledSpent
<1>10. Spending
  BY <1>6, <1>7 DEF Spending
<1> QED BY <1>9, <1>10

LEMMA NextSpent ==
    ASSUME Keyed, FrameInv, SpentInv, [Next]_vars
    PROVE  SpentInv' /\ Spending
<1>0. FrameInv'
  BY NextInv
<1>1. CASE UNCHANGED vars
  <2>1. UNCHANGED <<trie, m_cache, m_changeLog, m_nonExistingAccountsCache,
                    m_unchangedCacheEntries, frames, tx, suicides, saved>>
    BY <1>1 DEF vars, stateVars
  <2>2. Now' = Now /\ Effects' = Effects
    BY <2>1 DEF Now, Effects
  <2> QED BY <2>1, <2>2 DEF SpentInv, Spending
<1>2. ASSUME trie' = trie PROVE Spending
  BY <1>2 DEF Spending
<1>3. ASSUME NEW sender \in Senders, NEW picked, BeginTx(sender, picked)
      PROVE  SpentInv' /\ Spending
  BY <1>2, <1>3, BeginSpent DEF BeginTx
<1>4. ASSUME NEW code \in Addresses, NEW to \in Addresses, NEW v \in Nat, NEW picked,
             Call(code, to, v, picked), to = code \/ to = Top.addr
      PROVE  SpentInv' /\ Spending
  BY <1>2, <1>4, CallSpent DEF Call
<1>5. ASSUME NEW code \in Addresses, NEW picked, Running, Call(code, Top.addr, 0, picked)
      PROVE  SpentInv' /\ Spending
  <2>1. frames # <<>>
    BY <1>5 DEF FrameInv, Running
  <2>2. PICK to : to = Top.addr
    OBVIOUS
  <2>3. to \in Addresses /\ 0 \in Nat
    BY <2>1, <2>2, RunningSpent
  <2> QED BY <1>4, <1>5, <2>2, <2>3
<1>6. ASSUME NEW v \in Amounts, NEW picked, Create(v, picked)
      PROVE  SpentInv' /\ Spending
  BY <1>2, <1>6, CreateSpent DEF Create
<1>7. ASSUME NEW k \in Keys, NEW picked, Load(k, picked) \/ \E v \in Values : Store(k, v, picked)
      PROVE  SpentInv' /\ Spending
  BY <1>2, <1>7, StoreSpent DEF Load, Store
<1>8. ASSUME NEW code, NEW picked, Return(code, picked)
      PROVE  SpentInv' /\ Spending
  BY <1>2, <1>8, ReturnSpent DEF Return
<1>9. ASSUME NEW heir \in Addresses, NEW picked, Suicide(heir, picked)
      PROVE  SpentInv' /\ Spending
  BY <1>2, <1>9, SuicideSpent DEF Suicide
<1>10. ASSUME Revert
       PROVE  SpentInv' /\ Spending
  BY <1>2, <1>10, RevertSpent DEF Revert
<1>11. ASSUME NEW gas \in 0..TxGas, Drop(gas)
       PROVE  SpentInv' /\ Spending
  <2>1. /\ tx.phase = "over" /\ tx' = NoTx /\ suicides' = {} /\ UNCHANGED <<trie, frames>>
        /\ Becomes([Finalized(Now, gas) EXCEPT !.cache = <<>>])
    BY <1>11 DEF Drop
  <2>2. PICK p : Sound(p) /\ p.trie = trie /\ Finalized(Now, gas) = Kill(p, suicides)
    BY <2>1, OverDef
  <2>3. suicides \in SUBSET Addresses /\ frames = <<>>
    BY <2>1, OverDef
  <2>4. PICK k : k = Kill(p, suicides)
    OBVIOUS
  <2>5. k = [cache |-> k.cache, log |-> k.log, absent |-> k.absent, clean |-> k.clean,
             trie |-> k.trie]
    BY <2>2, <2>3, <2>4, KillDef
  <2>6. m_cache' = <<>>
    BY <2>1, <2>2, <2>4, <2>5 DEF Becomes
  <2>7. NoCode(trie')
    BY <2>1 DEF SpentInv
  <2> QED BY <1>0, <1>2, <2>1, <2>3, <2>6, <2>7, SettledSpent
<1>12. ASSUME SetRoot
       PROVE  SpentInv' /\ Spending
  <2>1. /\ tx = NoTx /\ trie' = Genesis /\ UNCHANGED <<frames, tx, suicides>>
        /\ Becomes([Now EXCEPT !.cache = <<>>, !.clean = {}, !.absent = {}])
    BY <1>12 DEF SetRoot
  <2>2. m_cache' = <<>>
    BY <2>1 DEF Becomes, Now
  <2>3. frames = <<>> /\ suicides = {}
    BY <2>1 DEF FrameInv, NoTx
  <2>4. NoCode(trie')
    BY <2>1 DEF Keyed, NoCode
  <2>5. Spending
    BY <2>1 DEF Spending
  <2> QED BY <1>0, <2>1, <2>2, <2>3, <2>4, <2>5, SettledSpent
<1>13. \A v \in Amounts : v \in Nat
  BY ExecutionAssumption
<1>14. ASSUME NEW to \in Addresses, NEW v \in Amounts, NEW picked, Call(to, to, v, picked)
       PROVE  SpentInv' /\ Spending
  BY <1>4, <1>13, <1>14
<1>15. ASSUME NEW gas \in 0..TxGas, Commit(gas)
       PROVE  SpentInv' /\ Spending
  BY <1>15, CommitSpent
<1>16. CASE Next
  BY <1>16, <1>3, <1>5, <1>6, <1>7, <1>8, <1>9, <1>10, <1>11, <1>12, <1>14, <1>15 DEF Next
<1> QED BY <1>1, <1>16

(***************************************************************************)
(* A transaction that is committed spends its nonce and sets back nobody   *)
(* else's, for any number of signers, nesting of frames and cache limit,   *)
(* as long as no contract can be at the address of a signer, which is what *)
(* a collision of hashes would be (Executive::call, State::incNonce).      *)
(***************************************************************************)
THEOREM NonceAlwaysSpent == ASSUME Keyed PROVE Spec => NonceSpent
<1>1. Init => SpentInv
  <2> SUFFICES ASSUME Init PROVE SpentInv
    OBVIOUS
  <2>1. /\ trie = Genesis /\ m_cache = <<>> /\ frames = <<>> /\ tx = NoTx /\ suicides = {}
    BY DEF Init
  <2>2. Effects = {}
    BY <2>1 DEF Effects
  <2>3. NoCode(trie)
    BY <2>1 DEF Keyed, NoCode
  <2>4. \A j \in 1..Len(<<>>) : FALSE
    OBVIOUS
  <2> QED BY <2>1, <2>2, <2>3, <2>4 DEF SpentInv
<1>2. FrameInv /\ SpentInv /\ [Next]_vars => SpentInv' /\ Spending
  BY NextSpent
<1>3. Spending <=> (tx # NoTx /\ tx' = NoTx /\ trie' # trie =>
                      \A a \in Senders :
                         IF a = tx.sender THEN NonceIn(trie', a) = NonceIn(trie, a) + 1
                         ELSE NonceIn(trie', a) >= NonceIn(trie, a))
  BY DEF Spending
<1> QED BY <1>1, <1>2, <1>3, FramesAlwaysKept, PTL DEF Spec, NonceSpent
=============================================================================
