------------------------------ MODULE Steering ------------------------------
(***************************************************************************)
(* Manual steering (src/web.rs): the control endpoint that writes to a     *)
(* robot past the command queue, the list of robots being steered, and the *)
(* watchdog that ends manual mode when the client has gone quiet.          *)
(*                                                                         *)
(* A request looks the connection up, waits for room in its write queue,   *)
(* and notes what it sent only afterwards; requests run side by side, and  *)
(* the watchdog beside them.  A connection is its write queue here: one    *)
(* that is gone stays in the hands of whoever looked it up before.         *)
(***************************************************************************)
EXTENDS Naturals, Sequences

CONSTANTS
    Sns,          \* robots
    Handlers,     \* control requests under way at once
    NoSn,
    Room,         \* WRITE_QUEUE, the capacity of a write queue
    Overlapping   \* clients send 4000 beside their other orders, as the page does

ASSUME SteeringAssumption ==
    /\ NoSn \notin Sns
    /\ Room \in Nat \ {0}
    /\ Overlapping \in BOOLEAN

\* CONTROL_CODES: the STEERING_CODES, 4000, and the one-shot frames
Codes == {"steer", "leave", "other"}

VARIABLES
    link,      \* is the robot in the registry
    queue,     \* the write queue of its connection
    mode,      \* what the orders of this connection have made of the robot
    watched,   \* Controls.last_frame: absent, recent, or CONTROL_WATCHDOG_MS old
    req,       \* the requests under way
    dog        \* the watchdog's pass

vars == <<link, queue, mode, watched, req, dog>>

Request == [at : {"idle", "sending", "sent"}, sn : Sns \cup {NoSn}, code : Codes,
            old : BOOLEAN]
NoRequest == [at |-> "idle", sn |-> NoSn, code |-> "other", old |-> FALSE]

Pass == [at : {"idle", "listed", "looking", "sending"}, list : SUBSET Sns,
         sn : Sns \cup {NoSn}, old : BOOLEAN]
NoPass == [at |-> "idle", list |-> {}, sn |-> NoSn, old |-> FALSE]

SteeringTypeOK ==
    /\ link \in [Sns -> {"up", "down"}]
    /\ queue \in [Sns -> Seq(Codes)]
    /\ \A s \in Sns : Len(queue[s]) <= Room
    /\ mode \in [Sns -> {"manual", "free"}]
    /\ watched \in [Sns -> {"no", "fresh", "stale"}]
    /\ req \in [Handlers -> Request]
    /\ \A h \in Handlers : req[h].at # "idle" => req[h].sn \in Sns
    /\ dog \in Pass
    /\ dog.at \in {"looking", "sending"} => dog.sn \in Sns

Init ==
    /\ link = [s \in Sns |-> "down"]
    /\ queue = [s \in Sns |-> <<>>]
    /\ mode = [s \in Sns |-> "free"]
    /\ watched = [s \in Sns |-> "no"]
    /\ req = [h \in Handlers |-> NoRequest]
    /\ dog = NoPass

-----------------------------------------------------------------------------
(* The connection                                                          *)

DialsIn(s) ==
    /\ link[s] = "down"
    /\ link' = [link EXCEPT ![s] = "up"]
    /\ UNCHANGED <<queue, mode, watched, req, dog>>

\* The queue is lost, and the robot with it: what it does now is its own 30 s
\* timeout's business.  Handles looked up before are of a connection gone.
HangsUp(s) ==
    /\ link[s] = "up"
    /\ link' = [link EXCEPT ![s] = "down"]
    /\ queue' = [queue EXCEPT ![s] = <<>>]
    /\ mode' = [mode EXCEPT ![s] = "free"]
    /\ req' = [h \in Handlers |->
                 IF req[h].sn = s THEN [req[h] EXCEPT !.old = TRUE] ELSE req[h]]
    /\ dog' = IF dog.at = "sending" /\ dog.sn = s THEN [dog EXCEPT !.old = TRUE] ELSE dog
    /\ UNCHANGED watched

\* The writer's frame reaches the robot.
Receives(s) ==
    /\ queue[s] # <<>>
    /\ queue' = [queue EXCEPT ![s] = Tail(@)]
    /\ mode' = [mode EXCEPT ![s] = CASE Head(queue[s]) = "steer" -> "manual"
                                     [] Head(queue[s]) = "leave" -> "free"
                                     [] OTHER -> @]
    /\ UNCHANGED <<link, watched, req, dog>>

HasRoom(s) == Len(queue[s]) < Room

\* A slip: the frame goes in whether or not there is room.
QueuedAnyway(s, code) == queue' = [queue EXCEPT ![s] = Append(@, code)]

\* handle.tx.send has returned Ok on the robot's connection.
Queued(s, code) ==
    /\ HasRoom(s)
    /\ queue' = [queue EXCEPT ![s] = Append(@, code)]

-----------------------------------------------------------------------------
(* The control endpoint                                                    *)

Active(s, code) == \E h \in Handlers : /\ req[h].at # "idle"
                                       /\ req[h].sn = s
                                       /\ req[h].code = code

\* Clients that take turns send 4000 only once their steering was answered, and
\* steer again only once the 4000 was.
TakesTurn(s, code) ==
    /\ code = "leave" => ~ Active(s, "steer")
    /\ code = "steer" => ~ Active(s, "leave")

\* control, up to the handle; an unknown code or an offline robot is refused.
Asks(h, s, code) ==
    /\ req[h].at = "idle"
    /\ Overlapping \/ TakesTurn(s, code)
    /\ link[s] = "up"
    /\ req' = [req EXCEPT ![h] = [at |-> "sending", sn |-> s, code |-> code, old |-> FALSE]]
    /\ UNCHANGED <<link, queue, mode, watched, dog>>

Sends(h) ==
    /\ req[h].at = "sending"
    /\ ~ req[h].old
    /\ Queued(req[h].sn, req[h].code)
    /\ req' = [req EXCEPT ![h].at = "sent"]
    /\ UNCHANGED <<link, mode, watched, dog>>

\* The connection is gone, and its writer is or is not: 409, or a frame that
\* reaches nobody.
SendsToNobody(h) ==
    /\ req[h].at = "sending"
    /\ req[h].old
    /\ \/ req' = [req EXCEPT ![h].at = "sent"]
       \/ req' = [req EXCEPT ![h] = NoRequest]
    /\ UNCHANGED <<link, queue, mode, watched, dog>>

\* A slip: steering does not arm the watchdog.
NotedLeavesOnly(w, code) == IF code = "leave" THEN "no" ELSE w

\* Controls::clear and touch, by the code that was sent
Noted(w, code) ==
    CASE code = "leave" -> "no"
      [] code = "steer" -> "fresh"
      [] OTHER -> w

Notes(h) ==
    /\ req[h].at = "sent"
    /\ watched' = [watched EXCEPT ![req[h].sn] = Noted(@, req[h].code)]
    /\ req' = [req EXCEPT ![h] = NoRequest]
    /\ UNCHANGED <<link, queue, mode, dog>>

-----------------------------------------------------------------------------
(* The watchdog                                                            *)

\* CONTROL_WATCHDOG_MS have passed since the last frame was noted, by a wall
\* clock that may have been set forward.
GrowsStale(s) ==
    /\ watched[s] = "fresh"
    /\ watched' = [watched EXCEPT ![s] = "stale"]
    /\ UNCHANGED <<link, queue, mode, req, dog>>

\* A slip: the comparison is the wrong way round.
FreshOnes == {s \in Sns : watched[s] = "fresh"}

\* Controls::stale
StaleOnes == {s \in Sns : watched[s] = "stale"}

\* poll_control_watchdog_once lists the stale ones once ...
Lists ==
    /\ dog.at = "idle"
    /\ StaleOnes # {}
    /\ dog' = [dog EXCEPT !.at = "listed", !.list = StaleOnes]
    /\ UNCHANGED <<link, queue, mode, watched, req>>

\* ... forgets each, whatever was noted since ...
Forgets(s) ==
    /\ dog.at = "listed"
    /\ s \in dog.list
    /\ watched' = [watched EXCEPT ![s] = "no"]
    /\ dog' = [at |-> "looking", list |-> dog.list \ {s}, sn |-> s, old |-> FALSE]
    /\ UNCHANGED <<link, queue, mode, req>>

NextOne(d) == [at |-> IF d.list = {} THEN "idle" ELSE "listed", list |-> d.list,
               sn |-> NoSn, old |-> FALSE]

\* ... looks its connection up, if it has one ...
Looks ==
    /\ dog.at = "looking"
    /\ dog' = IF link[dog.sn] = "up" THEN [dog EXCEPT !.at = "sending"] ELSE NextOne(dog)
    /\ UNCHANGED <<link, queue, mode, watched, req>>

\* A slip: try_send, which gives up when there is no room.
TriesToStop ==
    /\ dog.at = "sending"
    /\ IF dog.old \/ ~ HasRoom(dog.sn) THEN UNCHANGED queue ELSE Queued(dog.sn, "leave")
    /\ dog' = NextOne(dog)
    /\ UNCHANGED <<link, mode, watched, req>>

\* ... and sends 4000, waiting for room, the others of the list behind it.
Stops ==
    /\ dog.at = "sending"
    /\ IF dog.old THEN UNCHANGED queue ELSE Queued(dog.sn, "leave")
    /\ dog' = NextOne(dog)
    /\ UNCHANGED <<link, mode, watched, req>>

-----------------------------------------------------------------------------
Robot(s) == DialsIn(s) \/ HangsUp(s) \/ Receives(s)

Handler(h) ==
    \/ \E s \in Sns, code \in Codes : Asks(h, s, code)
    \/ Sends(h) \/ SendsToNobody(h) \/ Notes(h)

Watchdog == Lists \/ (\E s \in Sns : Forgets(s)) \/ Looks \/ Stops

Next ==
    \/ \E s \in Sns : Robot(s) \/ GrowsStale(s)
    \/ \E h \in Handlers : Handler(h)
    \/ Watchdog

Spec == Init /\ [][Next]_vars

\* Tasks that can run do run, the clock goes on, and a writer writes or its
\* connection is lost.  A queue serves those who wait for room in turn.
\* Nobody has to ask for anything, and no robot has to dial in.
Fairness ==
    /\ \A s \in Sns : /\ WF_vars(Receives(s))
                      /\ WF_vars(GrowsStale(s))
    /\ \A h \in Handlers : /\ SF_vars(Sends(h))
                           /\ WF_vars(SendsToNobody(h) \/ Notes(h))
    /\ WF_vars(Lists \/ (\E s \in Sns : Forgets(s)) \/ Looks)
    /\ SF_vars(Stops)

FairSpec == Spec /\ Fairness

-----------------------------------------------------------------------------
(* Properties                                                              *)

\* The last order a robot got, or will get from what is queued, is to drive.
Driven(s) ==
    \/ \E i \in DOMAIN queue[s] :
         /\ queue[s][i] = "steer"
         /\ \A j \in DOMAIN queue[s] : j > i => queue[s][j] = "other"
    \/ /\ mode[s] = "manual"
       /\ \A j \in DOMAIN queue[s] : queue[s][j] = "other"

\* A robot left driving is never forgotten: it is on the watchdog's list, or
\* the request that put it there is about to note it, or the watchdog has just
\* taken it off and is about to send its 4000 (control,
\* poll_control_watchdog_once), however long they wait for room and however
\* often the robot dials in anew meanwhile.
DrivenIsWatched ==
    \A s \in Sns : Driven(s) =>
        \/ watched[s] # "no"
        \/ \E h \in Handlers : req[h].at = "sent" /\ req[h].sn = s /\ req[h].code = "steer"
        \/ dog.sn = s /\ ~ dog.old

\* "after 2 s without a control frame the server sends 4000 itself, so a closed
\* tab or dead Wi-Fi leaves the robot ... out of manual mode" (doc/PLAN.md
\* 20.4): no robot stays driven for ever once nobody asks anything of it.
ManualModeEnds ==
    \A s \in Sns :
        \/ []<> ~ Driven(s)
        \/ []<> <<\E h \in Handlers, code \in Codes : Asks(h, s, code)>>_vars
=============================================================================
