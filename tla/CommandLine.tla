---------------------------- MODULE CommandLine ----------------------------
(***************************************************************************)
(* What the command queue promises of the rows of each robot among         *)
(* themselves: they stand in a line, in the order of their ids.  A new row *)
(* goes to the end, behind all that wait and all that went before; the     *)
(* first is given to the robot's connection; and any may be lost at any    *)
(* time, but none comes back or is passed by a later one.                  *)
(***************************************************************************)
EXTENDS Naturals

CONSTANTS Sns, Commands

VARIABLES
    waiting,   \* the rows of each robot that may still be given to it
    given      \* the rows that were

lineVars == <<waiting, given>>

LineInit ==
    /\ waiting = [s \in Sns |-> {}]
    /\ given = [s \in Sns |-> {}]

Joins(s, r) ==
    /\ \A q \in waiting[s] \cup given[s] : q < r
    /\ waiting' = [waiting EXCEPT ![s] = @ \cup {r}]
    /\ UNCHANGED given

IsGiven(s, r) ==
    /\ r \in waiting[s]
    /\ \A q \in waiting[s] : r <= q
    /\ waiting' = [waiting EXCEPT ![s] = @ \ {r}]
    /\ given' = [given EXCEPT ![s] = @ \cup {r}]

AreLost(gone) ==
    /\ waiting' = [s \in Sns |-> waiting[s] \ gone]
    /\ UNCHANGED given

LineNext ==
    \/ \E gone \in SUBSET Commands : AreLost(gone)
    \/ \E s \in Sns, r \in Commands : Joins(s, r) \/ IsGiven(s, r)

LineSpec == LineInit /\ [][LineNext]_lineVars
=============================================================================
