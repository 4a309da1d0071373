----------------------------- MODULE MCGateway -----------------------------
(***************************************************************************)
(* The gateway with two connection slots and two serial numbers, so that   *)
(* connections replace each other and move from one number to the other.   *)
(* No symmetry: the runs check liveness too.                               *)
(***************************************************************************)
EXTENDS Gateway
=============================================================================
