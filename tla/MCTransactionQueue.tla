-------------------------- MODULE MCTransactionQueue --------------------------
(***************************************************************************)
(* Instances of TransactionQueue: a0, a1, a2 are three nonces of account A,*)
(* c1 is a dearer rival of a1, and b0 is of account B.                     *)
(***************************************************************************)
EXTENDS TransactionQueue, TLC

CONSTANTS A, B, a0, a1, a2, b0, c1, v1

AccountOf == (a0 :> A) @@ (a1 :> A) @@ (a2 :> A) @@ (c1 :> A) @@ (b0 :> B)
NonceOf == (a0 :> 0) @@ (a1 :> 1) @@ (a2 :> 2) @@ (c1 :> 1) @@ (b0 :> 0)
PriceOf == (a0 :> 1) @@ (a1 :> 2) @@ (a2 :> 1) @@ (c1 :> 3) @@ (b0 :> 1)

MCAccount == [t \in Transactions |-> AccountOf[t]]
MCNonce == [t \in Transactions |-> NonceOf[t]]
MCGasPrice == [t \in Transactions |-> PriceOf[t]]
=============================================================================
