------------------------------ MODULE MCExecution ------------------------------
(***************************************************************************)
(* Instances of Execution: two accounts that sign, one of them without     *)
(* ether, a contract, an address left with storage and neither code nor    *)
(* nonce by a failed creation, an empty account at the address of a        *)
(* precompiled contract, and an address without an account.                *)
(***************************************************************************)
EXTENDS Execution

CONSTANTS eoa, eob, con, left, pre, nil, k, byteCode

Plain(nonce, balance) == [nonce |-> nonce, balance |-> balance, root |-> EmptyTrie, code |-> EmptyCode]
MCGenesis == [a \in Addresses |->
    CASE a = eoa -> Plain(1, 4)
      [] a = con -> [Plain(1, 1) EXCEPT !.code = byteCode]
      [] a = left -> [Plain(0, 0) EXCEPT !.root = [x \in Keys |-> 1]]
      [] a = pre -> Plain(0, 0)
      [] a = eob -> Plain(1, 0)
      [] OTHER -> NoAccount]
MCNewAddresses(sender, nonce) == {left, nil} \cap Addresses
=============================================================================
