---------------------------- MODULE Identities ----------------------------
(***************************************************************************)
(* The names the gateway and the command table share.                      *)
(***************************************************************************)
EXTENDS Naturals

CONSTANTS
    Sns,       \* serial numbers of robots
    Commands,  \* ids of rows of the `commands` table
    NoSn       \* no serial number

ASSUME IdentitiesAssumption ==
    /\ NoSn \notin Sns
    /\ Commands \subseteq Nat \ {0}
=============================================================================
