------------------------------- MODULE QueueOps -------------------------------
(***************************************************************************)
(* Operators on queues, represented as sequences, written without          *)
(* recursion so that they can be reasoned about.                           *)
(***************************************************************************)
EXTENDS Integers, Sequences, FiniteSets

RangeOf(s) == {s[i] : i \in DOMAIN s}

\* No member occurs twice.
Distinct(s) == \A i, j \in DOMAIN s : s[i] = s[j] => i = j

\* The n-th smallest member of a finite set of numbers.
NthOf(K, n) == CHOOSE i \in K : Cardinality({j \in K : j <= i}) = n

\* The members of q at the positions in K, in their order.
KeptAt(q, K) == [n \in 1..Cardinality(K) |-> q[NthOf(K, n)]]

\* The sequences that list every member of the finite set S exactly once.
Orderings(S) ==
    {s \in [1..Cardinality(S) -> S] : \A x \in S : \E i \in DOMAIN s : s[i] = x}

\* The sum of f over the members of the sequence s.
PartialSums(f, s) ==
    LET sum[n \in 0..Len(s)] == IF n = 0 THEN 0 ELSE sum[n - 1] + f[s[n]] IN sum
SumOf(f, s) == PartialSums(f, s)[Len(s)]
=============================================================================
