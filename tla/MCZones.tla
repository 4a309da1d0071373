------------------------------ MODULE MCZones ------------------------------
(***************************************************************************)
(* Zone lists and zone cleans on small instances.                          *)
(***************************************************************************)
EXTENDS Zones, TLC

Symmetry == Permutations(Clients) \cup Permutations(Lists)
=============================================================================
