--------------------------- MODULE MCCommandQueue ---------------------------
(***************************************************************************)
(* The command queue on small instances: one robot, one connection, two    *)
(* rows, write queues of one frame.                                        *)
(***************************************************************************)
EXTENDS CommandQueue

\* The robot answers a second time or a claimed row is let go of, not both.
PostsOrOrphans ==
    orphaned = {} \/ \A s \in Sns, ty \in InfoTypes : posted[s][ty] <= 1
=============================================================================
