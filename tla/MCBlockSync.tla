------------------------------ MODULE MCBlockSync ------------------------------
(***************************************************************************)
(* Instances of BlockSync.  The blocks are the chain b1, b2, b3 and the    *)
(* fork b4, a sibling of b1; an instance takes the blocks it needs.        *)
(***************************************************************************)
EXTENDS BlockSync, TLC

CONSTANTS b1, b2, b3, b4, v1, v2, v3

Tree == (b1 :> Genesis) @@ (b2 :> b1) @@ (b3 :> b2) @@ (b4 :> Genesis)
Height == (b1 :> 1) @@ (b2 :> 2) @@ (b3 :> 3) @@ (b4 :> 1)

MCParent == [b \in Blocks |-> Tree[b]]
MCNumber == [b \in Blocks |-> Height[b]]
NoFutureTime == [b \in Blocks |-> 0]
\* b2 arrives before its time.
FutureTime == [b \in Blocks |-> IF b = b2 THEN 1 ELSE 0]
UnitDifficulty == [b \in Blocks |-> 1]
\* With unit difficulties the total difficulty is the height.
UnitTotal == MCNumber

VerifierSymmetry == Permutations(Verifiers)
=============================================================================
