---------------------------- MODULE PathTracking ----------------------------
(***************************************************************************)
(* How the server comes by a robot's clean path: the path poller asks for  *)
(* it piece by piece while somebody watches (src/web.rs), the robot        *)
(* answers over channel A, each answer is merged into the stored assembly  *)
(* (src/proto/dispatch.rs), and the status pushes cut the stored paths     *)
(* into runs, from one dock to the next (src/db/queries.rs).               *)
(*                                                                         *)
(* One robot.  It drives, docks and starts jobs as it likes; each job has  *)
(* a path id of its own.  Requests, answers and statuses may be lost, come *)
(* late, out of order and twice, handlers run concurrently, and the        *)
(* process may restart.  The life of the 21011 row is CommandQueue's,      *)
(* reduced to what the poller sees.                                        *)
(***************************************************************************)
EXTENDS PathAssembly

CONSTANTS
    MaxPath,      \* bound: the robot's path ids are 1 .. MaxPath
    MaxPoints,    \* bound: points of one path
    MaxVisits,    \* bound: times the robot docks
    ChunkSize,    \* points that fit into one answer
    MaxInFlight,  \* bound: answers on their way or being handled
    MaxLate,      \* bound: statuses handled after a later one
    History       \* the build's `history` feature

ASSUME PathAssumption ==
    /\ {MaxPoints, MaxVisits, MaxInFlight, MaxLate} \subseteq Nat
    /\ {MaxPath, ChunkSize} \subseteq Nat \ {0}
    /\ History \in BOOLEAN

VARIABLES
    job,       \* the robot: the id of its present path
    driven,    \* the robot: how many points each path has
    mode,      \* the robot: what its status says
    visits,    \* history: how often the robot has docked
    told,      \* the statuses it may have posted, handled or still on their way
    answers,   \* chunks on their way to /cleanPack/response
    handling,  \* handlers that have loaded a row and not stored theirs
    telling,   \* what status handlers have observed and not stored yet
    shown,     \* whether the newest stored status says to poll
    mapJob,    \* path_id of the newest map
    dock,      \* path_state: docked and current_run_id
    heard,     \* history: the latest of the robot's stays that was told
    late,      \* history: statuses handled after one of a later stay
    stored,    \* clean_paths: the assembly and the run of each path
    rows,      \* the ids of the stored rows
    newer,     \* <<p, q>>: row q was stored after row p, by updated_ms
    request      \* the live 21011 row, if there is one

Paths == 1 .. MaxPath
NoPath == 0
Modes == {"clean", "backcharge", "charge"}

robotVars == <<job, driven, mode, visits, told>>
rowVars == <<stored, rows, newer>>
runVars == <<dock, heard, late>>
statusVars == <<telling, shown, mapJob, runVars>>
vars == <<robotVars, answers, rowVars, statusVars, request, handling>>

Starts == 0 .. MaxPoints
Chunk == [path : Paths, start : Starts, count : 0 .. ChunkSize, total : Starts]
Assembly == [span : Starts, have : SUBSET Slots(MaxPoints)]
Unstored == [run |-> 0, points |-> NoPoints]
Status == [mode : Modes, visit : 0 .. MaxVisits]
InFlight == Cardinality(answers) + Cardinality(handling)
NoRequest == [state |-> "none", start |-> 0]

PathTypeOK ==
    /\ job \in Paths
    /\ driven \in [Paths -> Starts]
    /\ mode \in Modes
    /\ visits \in 0 .. MaxVisits
    /\ told \in SUBSET Status
    /\ answers \in SUBSET Chunk
    /\ handling \in SUBSET [chunk : Chunk, loaded : Assembly]
    /\ telling \in SUBSET {"poll", "skip"}
    /\ shown \in {"poll", "skip"}
    /\ mapJob \in Paths \cup {NoPath}
    /\ dock \in [docked : BOOLEAN, run : Nat]
    /\ heard \in [docked : BOOLEAN, visit : Nat]
    /\ late \in Nat
    /\ stored \in [Paths -> [run : Nat, points : Assembly]]
    /\ rows \in SUBSET Paths
    /\ newer \in SUBSET (Paths \X Paths)
    /\ request \in [state : {"none", "pending", "sent"}, start : Starts]

Init ==
    /\ job = 1
    /\ driven = [p \in Paths |-> 0]
    /\ \/ mode = "clean" /\ visits = 0
       \/ mode = "charge" /\ visits = 1 /\ MaxVisits > 0
    /\ told = {[mode |-> mode, visit |-> visits]}
    /\ answers = {}
    /\ handling = {}
    /\ telling = {}
    /\ shown = "skip"                           \* no status event
    /\ mapJob = NoPath
    /\ dock = [docked |-> FALSE, run |-> 0]     \* no path_state row yet
    /\ heard = [docked |-> FALSE, visit |-> 0]
    /\ late = 0
    /\ stored = [p \in Paths |-> Unstored]
    /\ rows = {}
    /\ newer = {}
    /\ request = NoRequest

-----------------------------------------------------------------------------
(* The robot.  It posts its status again and again while it lasts.         *)

Tells == told' = told \cup {[mode |-> mode', visit |-> visits']}

Drives ==
    /\ mode # "charge"
    /\ driven[job] < MaxPoints
    /\ driven' = [driven EXCEPT ![job] = @ + 1]
    /\ UNCHANGED <<job, mode, visits, told, answers, rowVars, statusVars, request, handling>>

\* A job in the path it has, or a new path: within one clean, too.
Cleans ==
    /\ mode' = "clean"
    /\ \/ mode # "clean" /\ job' = job
       \/ job < MaxPath /\ job' = job + 1
    /\ UNCHANGED <<driven, visits, answers, rowVars, statusVars, request, handling>>
    /\ Tells

HeadsBack ==
    /\ mode = "clean"
    /\ mode' = "backcharge"
    /\ UNCHANGED <<job, driven, visits, answers, rowVars, statusVars, request, handling>>
    /\ Tells

Docks ==
    /\ mode # "charge"
    /\ visits < MaxVisits
    /\ mode' = "charge"
    /\ visits' = visits + 1
    /\ UNCHANGED <<job, driven, answers, rowVars, statusVars, request, handling>>
    /\ Tells

\* It echoes the start it was asked for; at or past the end of the path the
\* answer is a header without points.
Answer(start) ==
    [path |-> job, start |-> start, total |-> driven[job],
     count |-> IF start < driven[job]
               THEN IF driven[job] - start < ChunkSize
                    THEN driven[job] - start ELSE ChunkSize
               ELSE 0]

\* It is lost on the way.
AnswerIsLost ==
    \E c \in answers :
        /\ answers' = answers \ {c}
        /\ UNCHANGED <<robotVars, rowVars, statusVars, request, handling>>

-----------------------------------------------------------------------------
(* Status and map uploads.                                                 *)

\* A slip: the docked modes are taken to be those the poller skips.
AnyCharge(m) == m \in {"charge", "backcharge"}

\* observe_path_mode: `charge` and `fullcharge` are docked.
IsDocked(m) == m = "charge"

\* A slip: one run too many is kept.
PrunesLate(run) ==
    LET kept == {p \in rows : History \/ run < 3 \/ stored[p].run >= run - 2}
    IN  /\ rows' = kept
        /\ newer' = newer \cap (kept \X kept)
        /\ stored' = [p \in Paths |-> IF p \in kept THEN stored[p] ELSE Unstored]

\* DELETE FROM clean_paths WHERE run_id < run - 1, when run >= 2.
Prunes(run) ==
    LET kept == {p \in rows : History \/ run < 2 \/ stored[p].run >= run - 1}
    IN  /\ rows' = kept
        /\ newer' = newer \cap (kept \X kept)
        /\ stored' = [p \in Paths |-> IF p \in kept THEN stored[p] ELSE Unstored]

\* The poller skips every mode with "charge" in its name.
Pollable(m) == m \notin {"charge", "backcharge"}

\* A status tells of an earlier stay, on a dock or away from it, than `heard`.
IsLate(m) ==
    \/ m.visit < heard.visit
    \/ m.visit = heard.visit /\ m.mode = "charge" /\ ~heard.docked

Hears(m) ==
    IF IsLate(m)
    THEN late < MaxLate /\ late' = late + 1 /\ UNCHANGED heard
    ELSE heard' = [docked |-> m.mode = "charge", visit |-> m.visit] /\ UNCHANGED late

\* observe_path_mode, in one transaction.  Without `history`, a dock prunes
\* the runs before the previous one.
Observes(m) ==
    LET enters == IsDocked(m.mode) /\ ~dock.docked
        run == IF enters THEN dock.run + 1 ELSE dock.run
    IN  /\ dock' = [docked |-> IsDocked(m.mode), run |-> run]
        /\ IF enters THEN Prunes(run) ELSE UNCHANGED rowVars
        /\ Hears(m)

\* What the poller will make of a status, once its event is stored.
Verdict(m) == IF Pollable(m.mode) THEN "poll" ELSE "skip"

\* A status push: the transaction, or its failure, and then the event.  Of
\* each verdict, one handler at a time is between the two.
StatusHandled(m) ==
    /\ Verdict(m) \notin telling
    /\ telling' = telling \cup {Verdict(m)}
    /\ Observes(m) \/ UNCHANGED <<runVars, rowVars>>
    /\ UNCHANGED <<robotVars, answers, shown, mapJob, request, handling>>

\* The present status, or one from before that was on its way for long, comes
\* out of order or comes again.  One that is lost is never handled.
StatusPosted == StatusHandled([mode |-> mode, visit |-> visits])
OldStatusPosted ==
    \E m \in told \ {[mode |-> mode, visit |-> visits]} : StatusHandled(m)

\* store_event, of whichever handler comes first
StatusStored ==
    \E verdict \in telling :
        /\ shown' = verdict
        /\ telling' = telling \ {verdict}
        /\ UNCHANGED <<robotVars, answers, rowVars, mapJob, runVars, request, handling>>

\* insert_event failed.
StatusNotStored ==
    \E verdict \in telling :
        /\ telling' = telling \ {verdict}
        /\ UNCHANGED <<robotVars, answers, rowVars, shown, mapJob, runVars, request, handling>>

\* insert_map_upload
MapStored ==
    /\ mapJob' = job
    /\ UNCHANGED <<robotVars, answers, rowVars, telling, shown, runVars, request, handling>>

-----------------------------------------------------------------------------
(* The path poller: poll_paths_once, for this robot.                       *)

\* clean_path_summary(None): ORDER BY updated_ms DESC LIMIT 1.
IsNewest(p) == p \in rows /\ \A q \in rows \ {p} : <<q, p>> \in newer

\* Where the next fetch starts: from the first point missing in the newest
\* path, unless the newest map is of another path.
StartsFrom(start) ==
    \/ rows = {} /\ start = 0
    \/ \E p \in rows :
          /\ IsNewest(p)
          /\ start = IF mapJob \in {NoPath, p} THEN NextIndex(stored[p].points) ELSE 0

\* No live row, or one found stale and failed: how long PATH_REQUEST_STALE_MS
\* is plays no part, it may have passed whenever the row is looked at.  The
\* pass reads the mode, the row, the newest map and the newest path, and then
\* inserts; the delay in between is that of the `pending` row.  A path stored
\* between the last two reads at most makes it ask from 0.
PollAsks ==
    /\ shown = "poll"
    /\ \E start \in Starts :
          StartsFrom(start) /\ request' = [state |-> "pending", start |-> start]
    /\ UNCHANGED <<robotVars, answers, rowVars, statusVars, handling>>

RequestSent ==
    /\ request.state = "pending"
    /\ request' = [request EXCEPT !.state = "sent"]
    /\ UNCHANGED <<robotVars, rowVars, statusVars, handling>>

\* The row is claimed and pushed and the robot answers: whatever delays the
\* request on its way shows as a `pending` row, what delays its answer as an
\* element of `answers`.
RequestAnswered ==
    /\ RequestSent
    /\ InFlight < MaxInFlight
    /\ answers' = answers \cup {Answer(request.start)}

\* The frame is lost, or the robot gives no answer.
RequestIsLost == RequestSent /\ UNCHANGED answers

\* The row failed or expired.
RequestEnds ==
    /\ request.state # "none"
    /\ request' = NoRequest
    /\ UNCHANGED <<robotVars, answers, rowVars, statusVars, handling>>

-----------------------------------------------------------------------------
(* /cleanPack/response and store_path.                                     *)

\* A slip: the answer is taken to be of the job the newest map names.
PathOfMap(c) == IF mapJob = NoPath THEN c.path ELSE mapJob

\* The row an answer belongs to.
PathOf(c) == c.path

\* An answer acknowledges the `sent` row, whichever request it is an answer
\* to; then the handler loads the stored assembly.
HandlerLoads(c) ==
    /\ handling' = handling \cup {[chunk |-> c, loaded |-> stored[PathOf(c)].points]}
    /\ request' = IF request.state = "sent" THEN NoRequest ELSE request
    /\ UNCHANGED <<robotVars, rowVars, statusVars>>

\* The robot may post an answer again.
Posted == \E c \in answers : HandlerLoads(c) /\ answers' = answers \ {c}
PostedAgain ==
    /\ InFlight < MaxInFlight
    /\ \E c \in answers : HandlerLoads(c) /\ UNCHANGED answers

\* ON CONFLICT leaves run_id alone; a new row joins the run in progress.
RunOf(p) == IF p \in rows THEN stored[p].run ELSE dock.run

\* upsert_clean_path writes the whole list that was loaded and merged.
HandlerStores ==
    \E h \in handling :
        LET p == PathOf(h.chunk)
        IN  /\ handling' = handling \ {h}
            /\ stored' = [stored EXCEPT ![p] =
                            [run |-> RunOf(p), points |-> Merge(h.loaded, h.chunk)]]
            /\ rows' = rows \cup {p}
            /\ newer' = {e \in newer : e[1] # p} \cup {<<q, p>> : q \in rows \ {p}}
            /\ UNCHANGED <<robotVars, answers, statusVars, request>>

\* The load or the upsert failed; the robot is answered `ok` all the same.
HandlerFails ==
    \E h \in handling :
        /\ handling' = handling \ {h}
        /\ UNCHANGED <<robotVars, answers, rowVars, statusVars, request>>

\* The process ends and starts again: handlers, the poller's pass and the
\* watchers are gone.  Without `history`, db::connect prunes.
Restarts ==
    /\ handling' = {}
    /\ telling' = {}
    /\ Prunes(dock.run)
    /\ UNCHANGED <<robotVars, answers, shown, mapJob, runVars, request>>

Next ==
    \/ Drives \/ Cleans \/ HeadsBack \/ Docks
    \/ AnswerIsLost
    \/ StatusPosted \/ OldStatusPosted \/ StatusStored \/ StatusNotStored \/ MapStored
    \/ PollAsks
    \/ RequestAnswered \/ RequestIsLost \/ RequestEnds
    \/ Posted \/ PostedAgain \/ HandlerStores \/ HandlerFails
    \/ Restarts

Spec == Init /\ [][Next]_vars

\* The poller's interval and the command queue go on, the robot pushes its
\* status and its map, and handlers end.  Strong fairness where steps may
\* fail or messages be lost: not for ever; and no answer and no status is
\* late or repeated for ever.  Nothing makes the robot drive, or anybody watch.
Fairness ==
    /\ SF_vars(StatusPosted) /\ SF_vars(StatusStored) /\ WF_vars(MapStored)
    /\ SF_vars(PollAsks)
    /\ SF_vars(RequestAnswered)
    /\ SF_vars(Posted) /\ SF_vars(HandlerStores)
    /\ <>[][~PostedAgain /\ ~OldStatusPosted]_vars

FairSpec == Spec /\ Fairness

-----------------------------------------------------------------------------
(* Properties.                                                             *)

\* What is stored under a path id are points the robot has driven on that
\* path, whatever order answers, jobs and docks come in ("assembly is keyed
\* by (sn, pathID)", path.rs); so is what handlers hold and what is on its
\* way, which is why no total claims more than was driven.
Driven(p, points) == points \subseteq Slots(driven[p])
ChunkIsDriven(c) ==
    Driven(c.path, Carried(c)) /\ c.total <= driven[c.path] /\ c.start + c.count <= MaxPoints
StoredIsDriven ==
    /\ \A p \in Paths : Driven(p, stored[p].points.have)
    /\ \A c \in answers : ChunkIsDriven(c)
    /\ \A h \in handling : ChunkIsDriven(h.chunk) /\ Driven(PathOf(h.chunk), h.loaded.have)

\* The runs are the robot's own, though statuses are lost, repeated and fail
\* to be stored and the server restarts: a robot on its way back closes no
\* run, and a dock closes one at most.  What the code cannot rule out is a
\* dock counted twice because a status from before or after it was handled
\* late; each such status adds one run at most, and no path is in a run that
\* has not begun (observe_path_mode).
RunsAreVisits ==
    /\ dock.run <= visits + late
    /\ ~dock.docked /\ mode = "charge" => dock.run < visits + late
    /\ \A p \in Paths : stored[p].run <= dock.run

\* Without `history`, only "paths from the current and immediately previous
\* dock-bounded runs" (prune_clean_paths_before_previous_run) are stored,
\* though handlers that loaded a row before a prune store it after.
OnlyLastRuns ==
    \A p \in rows : History \/ dock.run < 2 \/ stored[p].run >= dock.run - 1

\* While somebody watches a robot that cleans, all of its path is stored in
\* the end: a lost request or answer, a stale row, a restart and an update
\* lost between two handlers are made up for (poll_paths_once asks from the
\* first hole).  For this, handlers must stop overlapping at some time: as
\* each writes back the whole list it loaded, two that always overlap could
\* undo each other's points for ever.
StoredInFull == stored[job].points.have = Slots(driven[job])
HandlersApart == Cardinality(handling) <= 1
WatchedPathIsStored ==
    <>[](mode = "clean" /\ HandlersApart) => <>[]StoredInFull
=============================================================================
