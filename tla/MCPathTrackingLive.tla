------------------------- MODULE MCPathTrackingLive -------------------------
(***************************************************************************)
(* PathTracking for TLC under fairness, with one path and no dock.  A      *)
(* status then changes only what the poller reads: its handler starts only *)
(* where no handler runs, and only a repeated answer starts beside it.     *)
(* MCPathTracking has all of them overlap.                                 *)
(***************************************************************************)
EXTENDS PathTracking

InTurn == telling = {} \/ (handling = {} /\ Cardinality(telling) = 1)

InTurnNext ==
    \/ Drives \/ Cleans \/ HeadsBack \/ Docks
    \/ AnswerIsLost
    \/ (StatusPosted \/ OldStatusPosted) /\ InTurn'
    \/ StatusStored \/ StatusNotStored \/ MapStored
    \/ PollAsks
    \/ RequestAnswered \/ RequestIsLost \/ RequestEnds
    \/ Posted /\ InTurn'
    \/ PostedAgain \/ HandlerStores \/ HandlerFails
    \/ Restarts

InTurnSpec == Init /\ [][InTurnNext]_vars /\ Fairness
=============================================================================
