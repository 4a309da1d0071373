---------------------------- MODULE CommandLife ----------------------------
(***************************************************************************)
(* What the command queue promises of every row, and nothing of how: a row *)
(* is claimed before its frame is handed to a writer, the frame is handed  *)
(* over at most once, a row is acknowledged only out of `sent`, and an     *)
(* acknowledged row never changes again.  A finished row that was not      *)
(* acknowledged can still be given another reason for having failed.       *)
(***************************************************************************)
EXTENDS Naturals

CONSTANT Commands

VARIABLES
    life,       \* the state of a row
    handovers   \* how often its frame was handed to a writer

lifeVars == <<life, handovers>>

LifeInit ==
    /\ life = [r \in Commands |-> "none"]
    /\ handovers = [r \in Commands |-> 0]

Become(S, st) == life' = [r \in Commands |-> IF r \in S THEN st ELSE life[r]]
In(S, states) == \A r \in S : life[r] \in states

Created(r) ==
    In({r}, {"none"}) /\ Become({r}, "pending") /\ UNCHANGED handovers

Claimed(S) ==
    In(S, {"pending"}) /\ Become(S, "sent") /\ UNCHANGED handovers

Expired(S) ==
    In(S, {"pending", "sent"}) /\ Become(S, "expired") /\ UNCHANGED handovers

Failed(r) ==
    /\ In({r}, {"pending", "sent", "expired", "failed"})
    /\ Become({r}, "failed")
    /\ UNCHANGED handovers

Acked(r) ==
    In({r}, {"sent"}) /\ Become({r}, "acked") /\ UNCHANGED handovers

HandedOver(r) ==
    /\ life[r] \in {"sent", "acked", "expired", "failed"}
    /\ handovers[r] = 0
    /\ handovers' = [handovers EXCEPT ![r] = 1]
    /\ UNCHANGED life

LifeNext ==
    \/ \E S \in SUBSET Commands : Claimed(S) \/ Expired(S)
    \/ \E r \in Commands : Created(r) \/ Failed(r) \/ Acked(r) \/ HandedOver(r)

LifeSpec == LifeInit /\ [][LifeNext]_lifeVars
=============================================================================
