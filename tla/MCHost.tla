--------------------------------- MODULE MCHost --------------------------------
(***************************************************************************)
(* Instances of Host.                                                      *)
(***************************************************************************)
EXTENDS Host
=============================================================================
