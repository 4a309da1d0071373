----------------------------- MODULE MCSteering -----------------------------
(***************************************************************************)
(* Steering on small instances.                                            *)
(***************************************************************************)
EXTENDS Steering
=============================================================================
