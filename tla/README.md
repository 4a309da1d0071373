# Verification of noobscenic

noobscenic is a local replacement for the cloud server of the Proscenic M7 Pro robot vacuum. Robots
talk to it over two channels: channel A is HTTP (registration, binding, uploads, telemetry posts and
the replies to commands), channel B is a TCP socket on which the robot pings, reports and receives
commands. Operators use a web page, a console and a CLI. All durable state is one SQLite file.

This directory holds TLA+ modules translated from the code in `src/` (paths below are relative to
the repository's root), TLC configurations that check them on small instances, and TLAPS proofs of
theorems about them. `PROJECT.json` lists components, runs, mutants, findings, hazards and theorems,
and maps each definition to the lines it stands for.

To run: `tlc -config <cfg> <MC module>` for a run, `tlapm <module>Proofs.tla` for the proofs.

## 1. Inventory

For each component: where it is, the state it keeps, its operations, and how far it is modelled.

| Component | Source | State | Operations | Status |
|---|---|---|---|---|
| Gateway | `src/channel_b/{mod,conn,registry}.rs` | registry sn → connection, per connection: sn, last ping, write queue, two tasks | accept, handshake (10001), ping, telemetry, reply, watchdog, write, hang up, shutdown | modelled (`Gateway`) |
| Command table | `src/db/queries.rs`, `commands` | rows: sn, infoType, state, created, sent, acked | insert, claim, fail, expire, ack, active | the history build (`CommandTable`); the lean build not |
| Command queue | `src/commands.rs`, `channel_a/handlers/response.rs` | the poller's place in its pass | drain pass, push, retire, reply, restart | modelled (`CommandQueue`) |
| Clean paths | `src/path.rs`, `src/proto/dispatch.rs`, `src/web.rs` (`poll_paths_once`), `clean_paths`, `path_state` | assembled points per path id, the dock-bounded run | status, map, 21011 answers, poll, prune, restart | modelled (`PathTracking`) |
| Zone edits and guarded starts | `src/web.rs`, `area_settings` | cached zone list and its etag, per page: what it read | read, save, refresh, zone clean, spot clean, map delete, read-back | the guarded ones (`Zones`) |
| Steering | `src/web.rs` (`control`, `Controls`, `poll_control_watchdog_once`) | last control frame per robot | control orders, watchdog | modelled (`Steering`) |
| Sessions, registration | `src/session.rs`, `channel_a/handlers/register.rs`, `sessions` | a row per session: key, cookie, when made, whether revoked | register, look up, gate, revoke, prune | modelled (`Devices`) |
| Binding, recovery | `channel_a/handlers/binding.rs`, `web.rs` (`recover_bind_ids`), `devices`, `events` | the robot's bound user id, its newest bind event | bind, unbind, sync, recovery at every start | modelled (`Devices`) |
| Channel A routing, cookie gate | `src/channel_a/mod.rs` | none | routes, gate, fallback | gate, sync and `getSockAddr` in `Devices`, the tap in `WireTap`; benign answers not |
| Uploads, map backups | `channel_a/handlers/uploads.rs`, `src/backup.rs`, `web.rs`, `map_backups` | one slot per robot, export files | upload, export, import, download by token | the backups (`MapBackup`); archives of logs and statistics not |
| Frame codec | `channel_b/codec.rs` | the decoder's buffer | split a byte stream into frames; write a frame | the decoder (`FrameCodec`) |
| Wire tap | `src/wire/` | sequence number, open trace file, trace directory | record, rotate, prune, refer to a record | the JSONL sink (`TraceFile`, `WireTap`) |
| Telemetry dispatch | `src/proto/dispatch.rs` | none of its own | route a message by infoType to a store | statuses, maps, paths, zones, in the modules of those; caches for display not |
| Web API, page handlers | `src/web.rs` | `Watchers`, `Controls` | endpoints, path poller, control watchdog | those with a guard or an effect on a robot, in the modules above; pages and summaries not |
| Map decoding | `src/map.rs` | none | LZ4 blocks to a grid | not modelled |
| Encryption | `channel_b/crypto.rs` | none | AES of a payload | not modelled |
| Console, CLI | `src/console.rs`, `src/main.rs` | none | parse a line, enqueue, send now | not modelled |
| Configuration | `src/config.rs` | none after start | read at start | not modelled |
| Privilege drop | `src/runas.rs` | none after start | a few system calls | not modelled |
| Page, tools | `web/index.html`, `tools/` | | | not modelled |

How they interact:

* Producers (web handlers, console, CLI, the path poller) insert rows. The command poller is one
  task for all robots: it expires, lists, claims and pushes through the handle the registry has for a
  robot. The connection's writer puts the frame on the socket. The robot replies over **channel A**,
  with the infoType and no row id; `response` acknowledges the newest `sent` row of that type and
  gives the payload to dispatch. Control orders go past the table, straight into the write queue.
* Dispatch fills the caches (zones, consumables, device info), the assembled paths and the event
  table. The web handlers read the newest stored status as a guard, and the path poller reads it to
  decide whether and from where to ask for more points.
* The key a command is encrypted with is the newest session's, which a registration on channel A
  made. The restore order of a backup is a row of the queue; its file is fetched over channel A.
* Every frame, request and response passes the tap, and the event stored for it refers to its trace line.
* Every SQL statement is atomic, and few are grouped in transactions. Between two statements of a
  handler any other handler, poller or reply may run, and the process may end.

What is hard, and what a component must therefore guarantee (`PROJECT.json` has each hazard at its
line):

* **Gateway**: a robot reconnects before its old connection has noticed; tasks wait for each other
  over bounded queues; a connection may change its serial number. The registry must only name
  connections that live and serve that robot, an older connection must not evict its successor, and
  every connection must wind down.
* **Command queue**: claims, pushes, replies, expiry and retirement touch the same rows in different
  statements; the handle may be stale; the process may end between claim and push. A row is pushed at
  most once and in order, lives no longer than the TTL and ends; an answer, which names no row and may be
  late, doubled or of another frame, acknowledges one row at most, and the newest.
* **Paths**: requests, answers and statuses are lost, doubled and late across path ids, docks and
  restarts; two handlers load and write back the same list. Stored points are the path's own, a dock is
  one run unless a late status divides it, pruning removes what it should, and a watched path is complete
  in the end.
* **Zones**: version check and write are separate statements; a save is two statements; a clean is
  two rows. An etag names one list, the cache shows only lists that exist, and a start never overtakes
  its selection.
* **Steering**: an order is sent first and noted afterwards, and either waits for room; the watchdog
  forgets a robot before it stops it. No robot stays in manual mode unwatched.
* **Devices**: answers to registrations are lost, registrations overlap, the clock steps back, and a
  boot may be of the other build, which prunes. The key in use must be the one the robot holds, a
  binding must be what the next boot finds, and a robot without a session must get one.
* **Backups**: a clean, or another import, may replace the slot between a restore's order and its
  download. What the robot downloads is what its order names, or nothing. A map that came damaged is
  refused, and its robot keeps it.
* **Decoder, wire tap**: however a stream is cut into reads, the frames are the same; a trace
  reference leads to the whole line of its record, also after rotations, failed writes and restarts.

## 2. Modules

| Module | Models |
|---|---|
| `Identities` | the serial numbers and row ids that the others share |
| `Gateway` | channel B |
| `CommandTable` | the `commands` table: each SQL statement as an operator on the table |
| `CommandLife` | abstract specification: the life of a row and how often it is handed over |
| `CommandLine` | abstract specification: the rows of each robot as a line |
| `CommandQueue` | composes `Gateway` and `CommandTable` with the pollers, producers, replies and the crash |
| `PathAssembly` | the assembly of one path from chunks, and where the next fetch starts |
| `PathTracking` | paths of one robot: what it drives, what it is asked and posts, what handlers store, runs and pruning |
| `Zones` | zone lists, zone cleans, map deletion |
| `Steering` | control orders and the watchdog that ends manual mode |
| `SessionTable` | the `sessions` table of one robot: each statement as an operator on it |
| `Devices` | registration, the cookie gate, binding, starts of either build |
| `MapBackup` | backup slots, uploads, export files, restores |
| `FrameCodec` | the decoder: bytes to frames |
| `TraceFile` | the rotating trace files: each operation as an operator on the sink and the files |
| `WireTap` | composes `FrameCodec` and `TraceFile` with the tasks that record and store references |
| `GatewayProofs`, `CommandQueueProofs`, `PathTrackingProofs`, `ZonesProofs`, `SteeringProofs`, `DevicesProofs`, `MapBackupProofs`, `WireTapProofs` | theorems |
| `MC*` | instances for TLC |

A module also holds "slips": operators whose comment starts with "Slip" (or "A slip") state a bug the
code could have had. No action uses one; they exist to be put in place of the definition below them,
which shows that the property they are listed with in `PROJECT.json` notices.

### Gateway

`Conns` are slots; a slot whose tasks have both ended stands for the next connection. The reader
(`read_task`) is waiting for bytes, waiting for room in its own queue (`Conn::send`, for acks and
pongs), or over. The writer (`write_task`) is waiting, writing one frame, or over. `bound` is
`Conn.sn` together with its `Registration` guard, so that `Remove` in `Handshake` and `EndReader` is
the guard's `Drop`, which removes an entry only if it is this connection's. `silent` counts ticks
since the last *ping*; telemetry does not reset it. `held` are handles other tasks have cloned: a
writer ends only when nobody holds a sender. `ProcessEnds` resets everything in memory. Frame bytes,
telemetry contents and trace records are left out.

### CommandTable and CommandQueue

A row has a robot, an infoType, a state, an age and the time since it was sent. `Expire`, `Claim`,
`Fail`, `Ack` and `IsActive` have the WHERE clauses of their statements; `Older` saturates at
`MaxAge`. `CommandQueue` splits `drain_once` at every await: `Sweeps`, `Lists`, `LooksUp` or `Skips`
per robot, `Claims`, then one `Pushes`, `Refuses` (no key, or too long) or `FindsWriterGone` per row,
`RobotDone`. Pushing waits for room in the connection's queue, which blocks the whole pass.
`SweepFails`, `ListFails`, `ClaimFails` and the failing branches of `Rejects` and `Retires` are failed
statements (`DbFails`). `Responds` is a robot's answer posted to channel A. It names the robot and the
command number and no row, so the model ties it to no frame: any answer may come at any time and any
number of times (`MaxPosts`), of a row that has long failed, expired or been superseded, of a frame the
console sent past the queue, or of none. `posted` counts them. `Restart` keeps the table and loses all
else. The `history` feature decides whether finished rows stay; the model is the build with it.

### PathAssembly and PathTracking

`have` are the points an assembly holds and `span` its slots. Values of points are left out: a point
is its index on its path. The robot `Drives`, `Cleans`, `HeadsBack` and `Docks`; `visits` counts
docks. A status is a message: whatever the robot's mode has been is in `told`, and a handler may get the
present one (`StatusPosted`) or any older one, lost, late, out of order or again (`OldStatusPosted`); `late`
counts those handled after one of a later stay on or off the dock (`heard`, history). A handler is two
statements (`dispatch`): `Observes` is the transaction of `observe_path_mode`, which advances the run and
in the lean build prunes, and which may fail; then the event is stored (`StatusStored`, `StatusNotStored`),
and handlers overlap in between (`telling`: of what the poller can make of a status, "poll" or "skip", one
handler each at a time). `MapStored` is the newest map's path id.
`PollAsks` is one pass of the path poller over this robot: it reads several tables, but the only
writes are its own row, and every value it reads may be stale already, so one step loses nothing.
Requests (`pending`) and answers (`answers`) take any time; `Posted` and `PostedAgain` hand an answer
to a handler, which has loaded the assembly, and `HandlerStores` merges and writes back; a row keeps the
run it was first stored in (`RunOf`). Left out: several users' ids, other robots (rows never mix: every statement
has `sn = ?`), and the joining of pieces of several path ids for display. The `backcharge` tail of a
path is not polled, by design.

### Zones

A client `c` is an operator's page with one request at a time. Every handler is its statements: guard
on the newest stored status, version check, insert, record; or guard, selection, start; or guard,
delete. Offline refusals are left out, as they change nothing. `Fails` ends a request after any
statement: a failed statement, a body `validate_zones` refuses, or the end of the process. A guard
whose read fails lets the request through, as the code does (`latest_mode` turns an error into "no
mode"). The command table is a `line` of rows that leave it from the front, taken by the robot or
lost: that rows are given to a robot's connection in order or not at all is what `AlwaysKeepsLine` proves
of the full queue. (A row lost in the middle there is lost here when it comes to the front. That a robot
reads no frame of a connection it has replaced is assumed.) Replies to 21004 may be late, doubled and lost. A map
restore replaces the robot's zones.

### Steering

A request of `control` `Asks` (looks the connection up), `Sends` (waits for room in `queue`) and
`Notes` (`Controls::touch` or `clear`), in this order, beside other requests and the watchdog, which
`Lists` the quiet robots once and then `Forgets`, `Looks` up and `Stops` them one by one. A handle
looked up before its connection was lost is `old`: what is sent through it reaches nobody. `mode` is
what a connection's orders made of the robot, and is forgotten with the connection: from then on the robot's
own 30 s timeout decides, which is not modelled. A restart of the process, which ends every
connection and forgets the list, is not an action either. With `Overlapping` FALSE clients take turns: nobody sends 4000
while a steering order of the same robot is unanswered, nor the reverse. The page does not (finding 2).

### SessionTable and Devices

One robot, since no statement touches another's rows. A handler is its statements: the gate's lookup and
revocation, `device_exists`, `upsert_device_seen`, the registration's transaction, and the two
statements of a (un)binding; each may fail, and what the handler then does is the branch named
`...Fails` or `...Not`. A robot that gives up leaves its handler running and asks again, so
handlers overlap. `Crashes` and `Starts` end the process between any two statements and start it as
either build: the lean one prunes sessions and events, each boot runs `recover_bind_ids`.
`ClockIsSetBack` is the wall clock that stamps sessions. A cookie and its key are one name, since
they are made together and read together. The server keeps no key in memory: a command is encrypted
with that of the newest row (`latest_session_key`). `Init` is a
new database, one of an older release with its catch-all's events, or one in use.

### MapBackup

A restore is `StagesImport` (decode, compare serial numbers, replace the slot with a new token),
`QueuesRestore` (the 21025 row), `Delivers`, `Serves` or `NotFound`, and `Restores`, where the robot compares the md5. Between any two the
robot may upload (`Makes`, `Uploads`, `Stages`) or another import may run. A bad transfer leaves a map whose md5
is not the declared one (`Damaged`, on upload or of an export file), which is `Refuses`d with 500, or a body
in which no map is found: cut short, over the 16 MiB limit, not quite multipart, or without the part's name.
That one the code takes for an upload without a map and answers with code 0 (`Overlooks`), as it does if
staging fails (`StageFails`). A crash between two statements does what a failed statement and
a lost answer do. An upload is assumed to name its robot; tokens are random and never repeat.

### FrameCodec, TraceFile and WireTap

`Split` is the loop of `Decoder::push` as a recursive function over the buffer; the whole call is one
step, because the decoder belongs to one task. `Fits` has the size checks with the offsets the code uses. A
task `Numbers` its record (`fetch_add`), then takes the lock and writes (`WritesLine`, or `TearsLine` and
`OpenFails` when the file system fails), then `Stores` the row with its reference; tasks and midnight run in between. `TraceFile` has
the choice of the day's file, the rotation and the pruning. A crash within a write is `TearsLine` and then `Restarts`. Lines are their
number, author and length; masking and JSON are left out. A reference is a file and a number; the `boot` and the author of a
line, and what record a stored row is about (`record`), are history, to say which line is the right one.

## 3. Runs

| Run | Instance | Checks | Size |
|---|---|---|---|
| `gateway` | 2 connections, 2 robots, queues of 1, watchdog after 1 tick | `GatewayTypeOK`, `EntriesAreLive`, `EntriesAreStable`, `SilenceIsNoticed`, `WindsDown` | 30 thousand states |
| `queue` | 1 connection, 2 rows, TTL 1, answers at any time, statements fail | `TypeOK`, `LiveRowsAreFresh`, `AcksAreBacked`, `NewestIsCredited`, `SentIsAccountedFor`, `KeepsLife`, `KeepsLine`, `PushedInOrder` | 0.9 million |
| `queue_live` | 2 robots with a connection each, 2 rows, queues of 1, fair | `PendingLeaves`, `SentLeaves` | 0.3 million |
| `path` | 2 paths of 1 point or 2 docks, 1 message in flight, 1 late status, lean build | `PathTypeOK`, `StoredIsDriven`, `RunsAreVisits`, `OnlyLastRuns` | 2.2 million |
| `path_live` | 1 path of 2 points, no dock, 2 in flight, fair | `WatchedPathIsStored` | 60 thousand |
| `zones` | 2 clients, 2 lists, 3 etags, cleans of both in the line | `ZonesTypeOK`, `EtagNamesList`, `CacheIsBacked`, `StartFollowsSelection` | 3.2 million |
| `zones_stomp` | as `zones` | violation of `SavesReplaceWhatWasRead` | |
| `steering` | 1 robot, 3 requests that take turns, queue of 2, fair | `SteeringTypeOK`, `DrivenIsWatched`, `ManualModeEnds` | 0.3 million |
| `steering_page` | 1 robot, 2 requests as the page sends them, queue of 1, fair | violation of `ManualModeEnds` | |
| `devices` | 2 requests, 4 sessions, TTL 0, 2 faults, starts of both builds, fair | `DevicesTypeOK`, `KeyIsCurrent`, `CalmKeyIsCurrent`, `BindIsRemembered`, `RobotsComeBack` | 1.0 million |
| `backup` | 2 robots, 2 maps, 7 tokens, 1 operator, 1 waiting order each, 2 faults | `BackupTypeOK`, `ServedIsOrdered`, `SlotsAreIntact`, `RestoredIsOwn`, `RefusedIsKept` | 3.6 million |
| `wiretap` | frames of up to 4 bytes in 3 pieces, 2 tasks, 2 days, rotation by each second line, 2 starts | `WireTypeOK`, `FramesAreTheStream`, `RefsLeadToRecords` | 3 million |

What the properties say is in a comment at each. Why the bounds are enough:

* Two connections are the old and the new one of a robot, the two that can contest an entry; two
  robots let a connection change its number under another's. A queue of one frame is full and empty.
* Two rows are an older and a newer one, of one robot and infoType, the most a claim, an order or an
  acknowledgement can confuse; `MaxPosts` lets a robot answer twice what it got once
  (not where a claimed row was let go of as well, constraint `PostsOrOrphans`; the proofs have both). Ages count up to one
  past what expiry and retirement compare. Of several connections the proofs speak, and `queue_live`, where
  each of two robots has one and keeps its number (`Apart`): a frame and a pong fill the queue of the
  one that is answered, and the other's row waits behind it. No answer comes there (`MaxPosts` 0), since a
  row must end without. Ages assume, as the code does, that the wall clock is not set back.
* Two paths give an answer of the wrong path, two docks the one prune there is of a run that was closed.
  `MaxLate` lets one status be handled after a later one, which counts a dock twice. A robot that changes
  paths and also docks twice, or has a late status, is left to the proofs (constraint `JobsOrDocks`).
  `path_live` has one path, since fetches of different paths share nothing but the in-flight bound, and two
  overlapping answers; without a dock a status, new or old, changes only what the poller reads, and only a
  repeated answer is handled beside it there (`InTurnNext`; the run `path` has them all overlap).
* Two clients and one reply race for one etag; three etags leave one more update after two that raced.
  `MaxLine` bounds the rows waiting when a request *starts*, so that the requests under way all insert.
* Three steering requests are one that waits, one that sends and one that notes; robots share nothing but the
  watchdog's pass, which waits for each in turn, and the proof is for any number.
* Two requests of a robot are the one it gave up and the one it repeats. Four sessions are the
  starting one, two of overlapping registrations, and one after. A TTL of 0 ends a session with
  the next tick. Two faults are, say, a lost answer and a crash, or a crash and a failed prune.
  `MaxWishes` bounds the phone's orders, `MaxRows` the sessions.
* Two robots could be given each other's map, two maps replace each other. Seven tokens are one for
  each slot, order followed, order waiting and import, so that `FreshToken` never runs out.
* The three pieces make up delimiters cut anywhere, several frames in one read, blank ones, and frames at the
  limit and beyond it. A file takes one line and overflows with the second. `MaxSeq` records (one fewer after a
  restart) give a rotated file and one more. `MaxEvents` allows one midnight, failed write or switched-off
  trace; the proof allows any number.

Symmetry is used in `zones` and `backup`, which have no temporal property. Deadlock is checked
everywhere but in the path runs, `backup` and `wiretap`, where the bounds on what the environment
does leave nothing to do.

Fairness:

* **Gateway**: `Accept`, `Handshake`, `Ping` owe nothing. Tasks that can go on do (weak fairness: tokio's
  executor is fair and a write ends with success or an error). The watchdog and a waiting send compete
  with the reader's other work or with other senders, and are taken if possible again and again (strong: `select!`
  picks among ready branches, and a channel's waiters are in a queue).
* **Queue**: the poller goes on whenever it can go on again and again (strong, `PollerGoesOn`: it is one task, and a
  sender that waits for room is served in its turn), expiry does not fail for ever, a connection's writer writes,
  fails or ends (weak), and time passes. Readers, robots, replies and producers owe nothing.
* **Paths**: strong fairness where a message can be lost or a statement fail, that is, not for ever;
  `PollAsks` says somebody keeps watching. No fairness makes a robot drive. No answer is repeated
  and no old status handled for ever. `WatchedPathIsStored` also needs `HandlersApart`: two handlers that always overlap could undo each
  other for ever, which is what the load and write back of `store_path` allow.
* **Steering**: handlers, the watchdog, the writer and the clock go on (weak); a send that waits for room gets it
  if there is room again and again (strong, as in the gateway). Nobody has to ask, and no robot has to dial in.
* **Devices**: the process is started again (its service manager), handlers go on, the robot keeps asking and
  listens (weak). Nothing is assumed of the phone, the clock and faults, but that faults are finitely many.

## 4. What the checks found

Two runs show the code at odds with its own words (quotes and lines are in `PROJECT.json`):

1. `zones_stomp` / `SavesReplaceWhatWasRead`: two saves under one etag both pass the version check, and the later
   one replaces a list its page never read.
2. `steering_page` / `ManualModeEnds`: the page closes its remote by sending a steering order and 4000 side by side.
   If the 4000 is delivered first and noted last, the robot stays in manual mode and off the watchdog's list.

Departures read from the code while modelling it, which have no run of their own (most are kept in a
model as the code has them, the others left out of it):

* `src/src/channel_b/conn.rs:320`: a connection that was replaced, and whose replacement has gone, is not
  registered when its robot handshakes on it again under the same number (`doc/PLAN.md:507-508`).
* `src/src/db/queries.rs:763`: a late reply to an older command acknowledges the newest `sent` row of its
  type (`doc/PLAN.md:575-576`).
* `src/src/path.rs:95`: an empty chunk from a start beyond a new path's end makes slots that are never filled
  (`doc/PLAN.md:607-608`).
* `src/src/db/queries.rs:448`: in the lean build two docks without a clean between them prune the last path
  (`src/src/db/queries.rs:470-471`).
* `src/src/db/queries.rs:389-441`: statuses carry no order, so one of before a dock that is handled after it, by a late or
  an overlapping handler, ends the dock for the server, and the next status counts it again: two runs of one dock, and in the
  lean build the last clean's path is pruned a dock too soon (`src/src/db/queries.rs:470-471`). `RunsAreVisits` says
  that each such status adds one run at most.
* `src/src/channel_a/handlers/uploads.rs:30-77`, `:161`: an upload in which no map is found, and one whose statement failed,
  are answered with code 0, upon which the robot deletes its only copy; `doc/PLAN.md:1430-1433` has the map "verified" and
  "only then acked". `RefusedIsKept` says that there is no other way to lose one.
* `src/src/wire/mod.rs:199`: numbers start at 1 with the process and a day's file is appended to, so after a restart within a
  day `file#seq` names a line of each start, where `wire/mod.rs:4-6` promises "the exact bytes". `RefsLeadToRecords` says that
  the right one is among them, and that there is one only of each start. The raw sink writes over the files of the day's
  earlier start (`wire/raw.rs:20-25`).
* `src/src/wire/jsonl.rs:46-50`: a line appended after a torn one shares its text line; and as the number is taken before
  the lock, lines may lie out of order (`wire/mod.rs:9-10`).
* `src/src/channel_b/codec.rs:176`: the size of a frame is measured from the start of the buffer, so a short
  frame may be refused when others come in the same read, and those before it are then dropped too. `Split` and `Fits`
  have it so; `FramesAreTheStream` is about what is returned.

Everything else that was checked holds.

## 5. Proofs

All theorems hold for every value of the constants that meets the named assumptions
(`IdentitiesAssumption`, `GatewayAssumption`, `TableAssumption`, `QueueAssumption`, `PathAssumption`,
`ZonesAssumption`, `SteeringAssumption`, `SessionAssumption`, `DevicesAssumption`, `BackupAssumption`,
`FrameAssumption`, `TraceAssumption`, `TapAssumption`: distinct "none" values, natural bounds, non-empty
queues), and TLC evaluates those assumptions in every run. The theorems of `SteeringProofs` also assume
`~Overlapping`: with overlapping orders they do not hold.

| Module | Theorems | Inductive invariant |
|---|---|---|
| `GatewayProofs` | `GatewayTypeCorrect`, `EntriesAreAlwaysLive`, `EntriesAreAlwaysStable` | `GatewayTypeOK` and `EntriesAreLive` |
| `CommandQueueProofs` | `QueueTypeCorrect`, `RowsAreAlwaysConsistent`, `IdsAlwaysFollowProgress`, `SentIsAlwaysAccountedFor`, `LiveRowsAreAlwaysFresh`, `AlwaysPushedInOrder`, `AlwaysKeepsLife`, `AckedIsAlwaysFinal`, `AlwaysKeepsLine`, `FramesAreInOnePlace`, `AcksAreAlwaysBacked`, `NewestIsAlwaysCredited` | `QueueInv`; for the last three also `FramesInOnePlace`, `AcksInv` and `SentInOrder` |
| `PathTrackingProofs` | `PathTypeCorrect`, `StoredIsAlwaysDriven`, `RunsAreAlwaysVisits`, `OnlyLastRunsAreKept`, and of the assembly `MergeCommutes`, `MergeIsIdempotent`, `MergeKeepsPoints`, `NextIndexIsFirstHole` | `PathInv` |
| `ZonesProofs` | `ZonesTypeCorrect`, `EtagsAlwaysNameLists`, `CacheIsAlwaysBacked`, `StartsAlwaysFollow` | `ZonesInv` |
| `SteeringProofs` | `SteeringTypeCorrect`, `DrivenIsAlwaysWatched` | `SteeringInv` |
| `DevicesProofs` | `DevicesTypeCorrect`, `KeyIsAlwaysCurrent`, `BindIsAlwaysRemembered`, `CalmInvariance`, `CalmKeyIsAlwaysCurrent` | `DevicesInv`; for the last two `CalmInv` |
| `MapBackupProofs` | `BackupTypeCorrect`, `ServedIsAlwaysOrdered`, `SlotsAreAlwaysIntact`, `RestoredIsAlwaysOwn`, `RefusedIsAlwaysKept` | `BackupInv` |
| `WireTapProofs` | `TapTypeCorrect`, `RefsAlwaysLeadToRecords`, `WireTypeCorrect`, `FramesAreAlwaysTheStream`, and of the decoder `CutAnywhere` | `TapInv`, `ReaderInv` |

* `EntriesAreAlwaysStable` needs `EntriesAreLive`: that a guard's drop removes only its own entry says
  something only if a connection that is named is bound to the number it is named under.
* `QueueInv` is the type invariant, liveness of entries, and four relations. `RowsAreConsistent` ties a
  row's state to the poller's hold on it and to how often it was handed over; `IdsFollowProgress` orders
  handed-over before claimed before pending rows; `SentIsAccountedFor` and `LiveRowsAreFresh` relate
  `sent` rows and ages to the poller. The order of pushes follows because a push takes the
  smallest claimed id and nothing later has been handed over; `AlwaysKeepsLife` maps each step of the
  queue to a step of `CommandLife` or a stutter, and needs `RowsAreConsistent` to know that a row being
  pushed was never pushed before. `AlwaysKeepsLine` maps each to a step of `CommandLine`: a robot's pending
  and claimed rows are its line, an insertion joins it at the end because ids have no gaps, a push takes
  its first because claimed rows precede pending ones (`IdsFollowProgress`), and all else only loses rows.
* `AcksInv` counts: an answer acknowledges at most one row, as `AckTarget` is one row or none, and no step but an answer
  acknowledges any; what has been acknowledged is finite, though the table need not be. `SentInOrder` says that of two `sent` rows of
  a robot the one with the greater id was sent no earlier, and that a pending row comes after both: then the newest by
  `sent_ms`, which `ack_command` looks for, is the last enqueued. `FramesInOnePlace`: a row's frame is at one place of one connection (in the
  queue or with the writer) and set out from a push. A push keeps that because its row was never handed over.
* `PathInv` is the type invariant, `StoredIsDriven`, `OnlyLastRuns` and `RunsAreHeard`. `StoredIsDriven` also speaks of answers on their
  way and of what handlers have loaded, which is what makes it inductive, and `OnlyLastRuns` rests on no row being in
  a run that has not begun. `RunsAreHeard`, which implies `RunsAreVisits`, counts runs against the latest stay that was told
  (`heard`) instead of the robot's own docks, and adds the run still to come when a late status has ended a dock that
  lasts (`Recounts`); no status tells of a stay that has not begun (`Begun`).
* `ZonesInv` strengthens three properties. `PagesAreRead`: no page is ahead of the cache, so a new etag
  is new to all. `ListsAreBacked`: also a list in a reply, on the robot, or about to be recorded is backed.
  `CleansAreOrdered`: a request about to insert its selection has nothing in the line, and one about to
  insert its start has no other start there.
* `SteeringInv` adds what makes `DrivenIsWatched` inductive: a queue belongs to a live connection
  (`DownIsFree`, `LinkedIsUp`), clients take turns (`TurnsAreTaken`), and a 4000 that has been sent but not
  noted is not followed by steering (`LeaversHaveLeft`), so that noting it forgets nothing.
* `DevicesInv`: a tidy table of the lean build has at most one row (`TidyIsSingle`), which gives the key; and a
  handler that can still store its transition whole has written the device row last (`WholeIsRecorded`), which
  gives the binding. `DownIsQuiet`: no handler outlives its process.
* `CalmInv` is about times without overlapping registrations or a clock set back (`calm`): the robot
  awaits the one registration there is (`RegistersAreAwaited`), so rows are in the order of their making
  (`InOrder`), and the last row is the one the robot will hear of next, or its own (`LastIsItsOwn`). An older
  row that is still live may then be in the table, but is not the one `latest_session_key` picks.
* `BackupInv`: an order that waits or is followed and whose token is a slot's has that slot's md5
  (`OrdersNameMaps`), and every map
  in a robot's hands, in its slot, on its way to it or in its export files was made by it (`MapsAreOwn`).
* `TapInv`: an open sink goes by the name of a file (`SinkIsNamed`), no two tasks hold one number
  (`NumbersDiffer`), lines have numbers already given out (`LinesAreNumbered`), and a number not yet written is
  in no file (`NumberedIsUnwritten`); so in a file a start has one line of a number (`LinesDiffer`), and a reference
  leads to its record as soon as a task holds it (`TracedLeads`).
* `ReaderInv` says that the frames returned and the buffer tile the bytes that came (`Tiles`): their
  concatenation is the whole, each frame ends at its first delimiter, and the rest has none. `Split` is a
  recursive function, and what it computes is proved by induction over the places it can start from. The
  induction is about a *set* of numbers (`LEMMA Induction`, proved from the library's pigeonhole
  principle), since a principle that takes a predicate cannot be instantiated. A stream has one tiling
  (`TilesAreOne`), which gives `CutAnywhere`: reading a stream in two pieces, cut anywhere, gives the
  frames and the rest of reading it at once. It is about the splitting; the size check, which does depend
  on the cuts (section 4), is in `Fits`.

Every invariant and every action property of the passing runs is proved. Only model-checked are the
liveness properties (`SilenceIsNoticed`, `WindsDown`, `PendingLeaves`, `SentLeaves`,
`WatchedPathIsStored`, `ManualModeEnds`, `RobotsComeBack`), since the prover does not reason about fairness
and ENABLED.

`RowsAreConsistent`, `IdsFollowProgress`, `FramesInOnePlace` and `CalmInv` are proved and in no run: other
proofs rest on them. `AckedIsFinal` is in none because `KeepsLife`, which a run checks, implies it.

## 6. Not modelled

* The lean build's `commands` table, which deletes finished rows so that ids come back.
* Bytes: encodings, AES, LZ4, JSON shapes, multipart and form bodies. A malformed body ends as the code
  ends it (`Overlooks` for an upload). Only whether a row can be encrypted matters (`Refuses` of `CommandQueue`).
* Map decoding: a pure function of bytes, whose properties are about bytes.
* The archive of logs and statistics, and uploads that carry no backup: nothing reads them.
* The raw sink, masking, and the contents of trace lines.
* Console and CLI: parsing and printing; they are producers of the queue (`Enqueue`) and holders of handles (`TakeHandle`, `SendAndDrop`).
* Configuration (its values are CONSTANTS), the privilege drop (a sequence at start), the page and the tools (clients).
* Other users of the SQLite file, and statements that take effect although they report an error.

## 7. What is left

1. The lean statements of `CommandTable`, and what reused ids mean for `Fail` and `Ack`.
2. That `Zones`' line of rows and `MapBackup`'s orders are lines in the sense of `CommandLine` (they have
   no ids).
3. An abstract registry without tasks and queues, and that `Gateway` implements it.
4. The joining of pieces of several path ids for display.
