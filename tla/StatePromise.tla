------------------------------ MODULE StatePromise ------------------------------
(***************************************************************************)
(* What the execution of a transaction promises about the world state,     *)
(* whatever it is built from: a call keeps a copy of the world as it was   *)
(* when it began, and a call that fails puts the copy back, with the       *)
(* effects (the accounts to be destroyed) that were pending then.          *)
(***************************************************************************)
EXTENDS Integers, Sequences

VARIABLES
    world,      \* what every account is seen to hold
    effects,    \* the accounts to be destroyed at the end of the transaction
    saved       \* the copies the calls in progress keep, innermost last

Beside(w, field) == [a \in DOMAIN w |-> [w[a] EXCEPT ![field] = 0]]

Init ==
    /\ effects = {}
    /\ saved = <<>>

(***************************************************************************)
(* Between transactions, and when one begins or ends.                      *)
(***************************************************************************)
Settle ==
    /\ saved = <<>> /\ Len(saved') <= 1
    /\ effects' = {}

(***************************************************************************)
(* The innermost call changes the world and adds to the effects.           *)
(***************************************************************************)
Write ==
    /\ saved # <<>> /\ saved' = saved
    /\ effects \subseteq effects'

(***************************************************************************)
(* The innermost call makes another.  Its copy is the world of now, with   *)
(* the nonce of the caller advanced when it is a creation.                 *)
(***************************************************************************)
Open ==
    /\ saved # <<>>
    /\ Len(saved') = Len(saved) + 1
    /\ SubSeq(saved', 1, Len(saved)) = saved
    /\ Beside(saved'[Len(saved')].world, "nonce") = Beside(world, "nonce")
    /\ saved'[Len(saved')].effects = effects
    /\ effects' = effects

(***************************************************************************)
(* The innermost call succeeds; at most it leaves code where it created.   *)
(***************************************************************************)
Keep ==
    /\ saved # <<>> /\ saved' = SubSeq(saved, 1, Len(saved) - 1)
    /\ Beside(world', "code") = Beside(world, "code")
    /\ effects' = effects

(***************************************************************************)
(* It fails.                                                               *)
(***************************************************************************)
Fail ==
    /\ saved # <<>> /\ saved' = SubSeq(saved, 1, Len(saved) - 1)
    /\ world' = saved[Len(saved)].world
    /\ effects' = saved[Len(saved)].effects

Next == Settle \/ Write \/ Open \/ Keep \/ Fail

Spec == Init /\ [][Next]_<<world, effects, saved>>
=============================================================================
