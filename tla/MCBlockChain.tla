------------------------------ MODULE MCBlockChain ------------------------------
(***************************************************************************)
(* Instances of BlockChain: the chain x1, x2, x3 and its heavier rival y1, *)
(* y2; z2 is a sibling of x2 that ties with it and has used more gas.      *)
(***************************************************************************)
EXTENDS BlockChain, TLC

CONSTANTS x1, x2, x3, y1, y2, z2, r1

Tree == (x1 :> Genesis) @@ (x2 :> x1) @@ (x3 :> x2) @@ (y1 :> Genesis) @@ (y2 :> y1) @@ (z2 :> x1)
Heights == (Genesis :> 0) @@ (x1 :> 1) @@ (x2 :> 2) @@ (x3 :> 3) @@ (y1 :> 1) @@ (y2 :> 2) @@ (z2 :> 2)
Lines == (Genesis :> {Genesis}) @@ (x1 :> {Genesis, x1}) @@ (x2 :> {Genesis, x1, x2})
           @@ (x3 :> {Genesis, x1, x2, x3}) @@ (y1 :> {Genesis, y1}) @@ (y2 :> {Genesis, y1, y2})
           @@ (z2 :> {Genesis, x1, z2})
Weights == (Genesis :> 1) @@ (x1 :> 2) @@ (x2 :> 3) @@ (x3 :> 4) @@ (y1 :> 2) @@ (y2 :> 5) @@ (z2 :> 3)

MCParent == [b \in Blocks |-> Tree[b]]
MCNumber == [h \in Blocks \cup {Genesis} |-> Heights[h]]
MCLine == [h \in Blocks \cup {Genesis} |-> Lines[h]]
MCTotalDifficulty == [h \in Blocks \cup {Genesis} |-> Weights[h]]
MCGasUsed == [h \in Blocks \cup {Genesis} |-> IF h = z2 THEN 1 ELSE 0]
=============================================================================
