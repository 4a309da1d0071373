------------------------------- MODULE Zones -------------------------------
(***************************************************************************)
(* Zone lists, zone cleans and map deletion (web.rs): operators edit a     *)
(* cached copy of one robot's zone list under an etag, start zone cleans   *)
(* as two commands, and delete the map, each behind the newest status the  *)
(* server has stored.  A handler is several statements, and the handlers   *)
(* of several operators, the robot's replies and its statuses interleave   *)
(* between them.                                                           *)
(*                                                                         *)
(* The command table is a line here: its rows reach the robot in the order *)
(* of their ids or not at all, which CommandQueueProofs shows of the real  *)
(* one (AlwaysPushedInOrder, AlwaysKeepsLife).  A request to a robot that  *)
(* is offline is refused at once and changes nothing: it is left out.      *)
(***************************************************************************)
EXTENDS Naturals, Sequences

CONSTANTS
    Clients,        \* operators' requests that may be under way at once
    Lists,          \* zone lists
    NoList,
    MaxVersion,     \* bound: updates of the cache
    MaxLine         \* bound: rows that wait when a request comes

ASSUME ZonesAssumption ==
    /\ NoList \notin Lists
    /\ MaxVersion \in Nat /\ MaxLine \in Nat

VARIABLES
    area,           \* area_settings: the etag and the list it names
    cleaning,       \* whether the newest stored status is one of a clean
    page,           \* page[c]: the etag and the list c last saw
    request,        \* request[c]: c's request and the statement it is at
    line,           \* the commands the robot has not been given yet
    zones,          \* the robot's own list
    running,        \* whether the robot is cleaning
    answers,        \* the lists in 21004 replies on their way
    backed          \* history: the lists the robot had or was sent

robotVars == <<zones, running, answers>>
vars == <<area, cleaning, page, request, line, zones, running, answers, backed>>

-----------------------------------------------------------------------------
(* Rows, requests and caches.                                              *)

WriteRow(l) == [op |-> "write", list |-> l]         \* 21003
ReadRow == [op |-> "read"]                          \* 21004
SelectRow(c) == [op |-> "select", of |-> c]         \* 21023
StartRow(c) == [op |-> "start", of |-> c]           \* 21005 appointClean
DeleteRow == [op |-> "delete"]                      \* 21024 delCurMap

Rows == {WriteRow(l) : l \in Lists} \cup {ReadRow, DeleteRow}
            \cup {SelectRow(c) : c \in Clients} \cup {StartRow(c) : c \in Clients}

Cached == [version : 0 .. MaxVersion, list : Lists \cup {NoList}]
Unread == [version |-> 0, list |-> NoList]

\* What a request is about to do; a save carries the etag its page echoes.
Steps == {"idle", "guardSave", "version", "write", "record",
          "guardClean", "select", "start", "guardDelete", "delete"}
Requests == [step : Steps, copy : Cached]
Idle == [step |-> "idle", copy |-> Unread]

ZonesTypeOK ==
    /\ area \in Cached
    /\ cleaning \in BOOLEAN
    /\ page \in [Clients -> Cached]
    /\ request \in [Clients -> Requests]
    /\ line \in Seq(Rows)
    /\ zones \in Lists
    /\ running \in BOOLEAN
    /\ answers \in SUBSET Lists
    /\ backed \in SUBSET Lists

Init ==
    /\ area = Unread
    /\ cleaning = FALSE
    /\ page = [c \in Clients |-> Unread]
    /\ request = [c \in Clients |-> Idle]
    /\ line = <<>>
    /\ zones \in Lists
    /\ running = FALSE
    /\ answers = {}
    /\ backed = {zones}

-----------------------------------------------------------------------------
(* Requests.  A handler starts with the guard on the stored status; it ends *)
(* by answering, by a statement that fails, or with the process.           *)

\* GET zones: the page takes the cached list with its etag.
Reads(c) ==
    /\ request[c].step = "idle"
    /\ page' = [page EXCEPT ![c] = area]
    /\ UNCHANGED <<area, cleaning, request, line, robotVars, backed>>

\* Bound: requests come while no more than MaxLine rows wait.
LineHasRoom == Len(line) <= MaxLine

Asks(c, step, copy) ==
    /\ request[c].step = "idle"
    /\ request' = [request EXCEPT ![c] = [step |-> step, copy |-> copy]]
    /\ UNCHANGED <<area, cleaning, page, line, robotVars, backed>>

\* PUT zones: the list as edited, under the etag the page holds.
AsksToSave(c, l) ==
    LineHasRoom /\ Asks(c, "guardSave", [version |-> page[c].version, list |-> l])

OnItsWay(c) == \E i \in DOMAIN line : line[i] \in {SelectRow(c), StartRow(c)}

\* POST zones/clean and spot: c names the area picked, so c asks again only
\* when its last clean has left the line.
AsksToClean(c) == LineHasRoom /\ ~OnItsWay(c) /\ Asks(c, "guardClean", Unread)

\* POST map/delete.
AsksToDelete(c) == LineHasRoom /\ Asks(c, "guardDelete", Unread)

\* The request is answered, or dies with a failed statement or the process.
Ends(c) == request' = [request EXCEPT ![c] = Idle]
GoesOn(c, step) == request' = [request EXCEPT ![c].step = step]

Fails(c) ==
    /\ request[c].step # "idle"
    /\ Ends(c)
    /\ UNCHANGED <<area, cleaning, page, line, robotVars, backed>>

\* cleaning_in_progress: 409 while the newest stored status is a clean; a
\* status that cannot be read counts as none (latest_mode).
Guards(c, step, next) ==
    /\ request[c].step = step
    /\ (cleaning /\ Ends(c)) \/ GoesOn(c, next)
    /\ UNCHANGED <<area, cleaning, page, line, robotVars, backed>>

\* load_area_settings: 409 if nothing was read yet, or under another etag.
ChecksVersion(c) ==
    /\ request[c].step = "version"
    /\ IF area.version # 0 /\ request[c].copy.version = area.version
       THEN GoesOn(c, "write") ELSE Ends(c)
    /\ UNCHANGED <<area, cleaning, page, line, robotVars, backed>>

\* Slip: the newest row is pushed first.
InsertsInFront(row) == line' = <<row>> \o line

\* insert_command: the row is the last of the line.
Inserts(row) == line' = Append(line, row)

\* Slip: an insert that failed does not end the handler.
InsertsWriteOrNot(c) ==
    /\ request[c].step = "write"
    /\ \/ /\ Inserts(WriteRow(request[c].copy.list))
          /\ backed' = backed \cup {request[c].copy.list}
       \/ UNCHANGED <<line, backed>>
    /\ GoesOn(c, "record")
    /\ UNCHANGED <<area, cleaning, page, robotVars>>

InsertsWrite(c) ==
    /\ request[c].step = "write"
    /\ Inserts(WriteRow(request[c].copy.list))
    /\ backed' = backed \cup {request[c].copy.list}
    /\ GoesOn(c, "record")
    /\ UNCHANGED <<area, cleaning, page, robotVars>>

\* Slips: the etag stays when the list is replaced; or skips one.
RenewedUnderSame(l) == [area EXCEPT !.list = l]
RenewedTwice(l) == [version |-> area.version + 2, list |-> l]

\* One statement: another list, the next etag.
Renewed(l) == [version |-> area.version + 1, list |-> l]

\* record_zone_write: the list is taken for the robot's, and the page that
\* gets the answer goes on from it.
Records(c) ==
    /\ request[c].step = "record"
    /\ area.version < MaxVersion
    /\ area' = Renewed(request[c].copy.list)
    /\ page' \in {page, [page EXCEPT ![c] = area']}
    /\ Ends(c)
    /\ UNCHANGED <<cleaning, line, robotVars, backed>>

\* The selection is queued first and so pushed first.
InsertsSelection(c) ==
    /\ request[c].step = "select"
    /\ Inserts(SelectRow(c))
    /\ GoesOn(c, "start")
    /\ UNCHANGED <<area, cleaning, page, robotVars, backed>>

InsertsStart(c) ==
    /\ request[c].step = "start"
    /\ Inserts(StartRow(c))
    /\ Ends(c)
    /\ UNCHANGED <<area, cleaning, page, robotVars, backed>>

InsertsDelete(c) ==
    /\ request[c].step = "delete"
    /\ Inserts(DeleteRow)
    /\ Ends(c)
    /\ UNCHANGED <<area, cleaning, page, robotVars, backed>>

\* POST zones/refresh: no guard but that the robot is online.
Refreshes(c) ==
    /\ request[c].step = "idle" /\ LineHasRoom
    /\ Inserts(ReadRow)
    /\ UNCHANGED <<area, cleaning, page, request, robotVars, backed>>

-----------------------------------------------------------------------------
(* What the robot is given, and what it does.                              *)

Given(op) == line # <<>> /\ Head(line).op = op /\ line' = Tail(line)

TakesList ==
    /\ Given("write")
    /\ zones' = Head(line).list
    /\ UNCHANGED <<area, cleaning, page, request, running, answers, backed>>

AnswersRead ==
    /\ Given("read")
    /\ answers' = answers \cup {zones}
    /\ UNCHANGED <<area, cleaning, page, request, zones, running, backed>>

\* appointClean cleans the selected area.
StartsAppointed ==
    /\ Given("start")
    /\ running' = TRUE
    /\ UNCHANGED <<area, cleaning, page, request, zones, answers, backed>>

\* A selection or a deletion reached the robot; or any row failed, expired,
\* or was claimed when the process ended.
RowLeaves ==
    /\ line # <<>> /\ line' = Tail(line)
    /\ UNCHANGED <<area, cleaning, page, request, robotVars, backed>>

\* smartClean and the robot's button start, and every job ends.
StartsOrEnds ==
    /\ running' = ~running
    /\ UNCHANGED <<area, cleaning, page, request, line, zones, answers, backed>>

\* A map restore replaces the robot's zones.
Restores ==
    /\ zones' \in Lists
    /\ backed' = backed \cup {zones'}
    /\ UNCHANGED <<area, cleaning, page, request, line, running, answers>>

-----------------------------------------------------------------------------
(* What the robot posts.                                                   *)

\* store_event, some time after the robot's mode changed.
StatusStored ==
    /\ cleaning' = running
    /\ UNCHANGED <<area, page, request, line, robotVars, backed>>

\* store_zones, store_area_settings: the list just read back is the truth.
\* A reply may be posted twice, or late.
AnswerStored(l) ==
    /\ l \in answers /\ answers' \in {answers, answers \ {l}}
    /\ area.version < MaxVersion
    /\ area' = Renewed(l)
    /\ UNCHANGED <<cleaning, page, request, line, zones, running, backed>>

AnswerIsLost(l) ==
    /\ l \in answers /\ answers' = answers \ {l}
    /\ UNCHANGED <<area, cleaning, page, request, line, zones, running, backed>>

-----------------------------------------------------------------------------
ClientStep(c) ==
    \/ Reads(c)
    \/ \E l \in Lists : AsksToSave(c, l)
    \/ AsksToClean(c)
    \/ AsksToDelete(c)
    \/ Refreshes(c)

HandlerStep(c) ==
    \/ Fails(c)
    \/ Guards(c, "guardSave", "version")
    \/ Guards(c, "guardClean", "select")
    \/ Guards(c, "guardDelete", "delete")
    \/ ChecksVersion(c)
    \/ InsertsWrite(c)
    \/ Records(c)
    \/ InsertsSelection(c)
    \/ InsertsStart(c)
    \/ InsertsDelete(c)

RobotStep ==
    \/ TakesList
    \/ AnswersRead
    \/ StartsAppointed
    \/ RowLeaves
    \/ StartsOrEnds
    \/ Restores

Next ==
    \/ \E c \in Clients : ClientStep(c) \/ HandlerStep(c)
    \/ RobotStep
    \/ StatusStored
    \/ \E l \in Lists : AnswerStored(l) \/ AnswerIsLost(l)

Spec == Init /\ [][Next]_vars

-----------------------------------------------------------------------------
(* Properties.                                                             *)

\* An etag names one list: a page that holds the cache's etag holds the
\* cache's list, whatever was written, read back, lost or recorded twice in
\* between ("an editor can only save the list it actually read").
EtagNamesList ==
    \A c \in Clients : page[c].version = area.version => page[c] = area

\* The cache shows no list that the robot never had and nobody sent it, also
\* when a statement of a save fails (zones_write).
CacheIsBacked == area.list # NoList => area.list \in backed

\* No start of a zone clean waits for the robot ahead of its own selection:
\* the selection is ahead of it, was taken, or was lost (zones_clean,
\* spot_clean).
StartFollowsSelection ==
    \A c \in Clients, i \in DOMAIN line : line[i] = StartRow(c) =>
        /\ request[c].step # "select"
        /\ \A j \in DOMAIN line : line[j] = SelectRow(c) => j < i

\* "A newer version means someone else (or our own last write) touched the
\* list, so we 409 instead of stomping it" (web.rs): a save replaces the list
\* its page has read.
SavesReplaceWhatWasRead ==
    [][\A c \in Clients : Records(c) => page[c].list = area.list]_vars
=============================================================================
