--------------------------- MODULE MCTransactionSync ---------------------------
(***************************************************************************)
(* Instances of TransactionSync: a0, a1 are two nonces of account A, c0 a  *)
(* dearer and d0 a cheaper rival of a0, c1 of a1; b0 is of account B.       *)
(***************************************************************************)
EXTENDS TransactionSync, TLC

CONSTANTS A, B, a0, a1, b0, d0, c0, c1, v1

AccountOf == (a0 :> A) @@ (a1 :> A) @@ (c0 :> A) @@ (c1 :> A) @@ (b0 :> B) @@ (d0 :> A)
NonceOf == (a0 :> 0) @@ (a1 :> 1) @@ (c0 :> 0) @@ (c1 :> 1) @@ (b0 :> 0) @@ (d0 :> 0)
PriceOf == (a0 :> 2) @@ (a1 :> 2) @@ (c0 :> 3) @@ (c1 :> 3) @@ (b0 :> 1) @@ (d0 :> 0)

MCAccount == [t \in Transactions |-> AccountOf[t]]
MCNonce == [t \in Transactions |-> NonceOf[t]]
MCGasPrice == [t \in Transactions |-> PriceOf[t]]
=============================================================================
