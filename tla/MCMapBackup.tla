---------------------------- MODULE MCMapBackup ----------------------------
(***************************************************************************)
(* Uploads, exports and restores on small instances.                       *)
(***************************************************************************)
EXTENDS MapBackup, TLC

Symmetry == Permutations(Sns) \cup Permutations(Blobs)
=============================================================================
