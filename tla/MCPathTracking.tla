--------------------------- MODULE MCPathTracking ---------------------------
(***************************************************************************)
(* PathTracking for TLC.  Two paths, so that the robot can change jobs     *)
(* while answers are on their way.                                         *)
(***************************************************************************)
EXTENDS PathTracking

\* The robot changes jobs, or it docks a second time or a status comes late.
JobsOrDocks == job = 1 \/ (visits <= 1 /\ late = 0)
=============================================================================
