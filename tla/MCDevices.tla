----------------------------- MODULE MCDevices -----------------------------
(***************************************************************************)
(* One robot's registration and binding on small instances.                *)
(***************************************************************************)
EXTENDS Devices, TLC
=============================================================================
