------------------------------- MODULE MCSealing -------------------------------
(***************************************************************************)
(* Instances of Sealing.                                                   *)
(***************************************************************************)
EXTENDS Sealing, TLC

MinerSymmetry == Permutations(Miners)
=============================================================================
