------------------------- MODULE MCCommandQueueLive -------------------------
(***************************************************************************)
(* The command queue with two robots, for what one robot's connection does *)
(* to the rows of the other: the poller waits for room in the queue of one *)
(* while the other's rows wait for the poller.                             *)
(*                                                                         *)
(* Each robot has a connection of its own and goes by its own number on    *)
(* it; a connection and its robot have the same name here.  Some robots    *)
(* get no pongs.                                                           *)
(***************************************************************************)
EXTENDS CommandQueue

CONSTANT Unanswered   \* robots that get no pongs

ASSUME Sns = Conns /\ Unanswered \subseteq Conns

Apart ==
    /\ \A c \in Conns : bound[c] \in {c, NoSn}
    /\ \A c \in Unanswered : reader[c] # "sending"

ApartSpec == Init /\ [][Next /\ Apart']_vars /\ Fairness
=============================================================================
