----------------------------- MODULE ChainPromise -----------------------------
(***************************************************************************)
(* What the block chain database promises to the rest of the node: a set   *)
(* of blocks that only grows and holds the parent of each, and a head that *)
(* moves to a stored block at least as heavy, or is rewound.  A stop of    *)
(* the process, wherever it falls, changes neither.                        *)
(***************************************************************************)
EXTENDS Integers

CONSTANTS Blocks, Genesis, Parent, Number, TotalDifficulty

VARIABLES stored, head

Init == stored = {Genesis} /\ head = Genesis

Adopt(b) == Parent[b] \in stored /\ stored' = stored \cup {b} /\ UNCHANGED head

Advance(b) ==
    /\ b \in stored /\ TotalDifficulty[b] >= TotalDifficulty[head]
    /\ head' = b /\ UNCHANGED stored

Rewind(h) ==
    /\ h \in stored /\ Number[h] < Number[head]
    /\ head' = h /\ UNCHANGED stored

Next == \/ \E b \in Blocks : Adopt(b) \/ Advance(b)
        \/ \E h \in Blocks \cup {Genesis} : Rewind(h)

Spec == Init /\ [][Next]_<<stored, head>>
=============================================================================
