------------------------------- MODULE MCDownload -------------------------------
(***************************************************************************)
(* Instances of Download: a chain b1 .. b4 of the peers, and forks of it.  *)
(***************************************************************************)
EXTENDS Download

CONSTANTS g, b1, b2, b3, b4, c1, c2, d3, x, y, z, p1, p2

MCParent ==
    [b \in Blocks \ {g} |-> CASE b = b1 -> g [] b = b2 -> b1 [] b = b3 -> b2 [] b = b4 -> b3
                              [] b = c1 -> g [] b = c2 -> b1 [] b = d3 -> b2]
MCBody == [b \in Blocks |-> CASE b = b1 -> x [] b = b3 -> y [] b = c1 -> z [] b = c2 -> z [] b = d3 -> z [] OTHER -> EmptyBody]
SlowSecond == [p \in Peers |-> IF p = p1 THEN b4 ELSE g]
BothFar == [p \in Peers |-> b4]
Close == [p \in Peers |-> IF p = p1 THEN b2 ELSE b1]
=============================================================================
