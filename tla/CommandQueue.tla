--------------------------- MODULE CommandQueue ---------------------------
(***************************************************************************)
(* The outbound command queue (src/commands.rs) over the gateway and the   *)
(* `commands` table: producers insert rows, the poller claims the rows of  *)
(* robots that are online and hands their frames to the connection's       *)
(* writer, the robot answers over channel A, and the path poller retires   *)
(* a fetch that was not answered.  The process may end at any time; the    *)
(* table survives it.                                                      *)
(*                                                                         *)
(* Every SQL statement and every await of the poller is a step, so that    *)
(* replies, disconnections, other producers and the crash fall in between. *)
(* A blocked send blocks the poller: it is one task for all robots.        *)
(***************************************************************************)
EXTENDS Gateway, CommandTable

CONSTANTS
    PathType,    \* 21011, the command the path poller retires
    PathStale,   \* PATH_REQUEST_STALE_MS, in ticks
    DbFails,     \* whether the pollers' statements can fail
    MaxPosts     \* bound on the answers of one robot to one command number

ASSUME QueueAssumption ==
    /\ PathType \in InfoTypes
    /\ PathStale \in Nat
    /\ DbFails \in BOOLEAN
    /\ MaxPosts \in Nat

VARIABLES
    cmds,        \* the `commands` table
    poller,      \* where the poller is in drain_once
    todo,        \* the serial numbers this pass has still to look at
    robot,       \* the serial number whose rows are being pushed
    handle,      \* the connection looked up for it
    claimed,     \* rows claimed for it and not pushed yet
    retiring,    \* rows the path poller found stale and is about to fail
    posted,      \* history: the answers a robot posted to a command number
    handovers,   \* history: how often a row's frame was handed to a writer
    orphaned,    \* history: claimed rows let go of and not handed over: the
                 \* process ended, or their failure could not be recorded
    sinceSweep   \* history: ticks since the last expiry that succeeded

pollerVars == <<poller, todo, robot, handle, claimed>>
historyVars == <<posted, handovers, orphaned, sinceSweep>>
commandVars == <<cmds, pollerVars, retiring, historyVars>>
vars == <<gatewayVars, commandVars>>

TypeOK ==
    /\ GatewayTypeOK
    /\ cmds \in Table
    /\ poller \in {"list", "next", "claim", "push"}
    /\ todo \in SUBSET Sns
    /\ robot \in Sns \cup {NoSn}
    /\ handle \in Conns \cup {NoConn}
    /\ claimed \in SUBSET Commands
    /\ retiring \in SUBSET Commands
    /\ posted \in [Sns -> [InfoTypes -> Nat]]
    /\ handovers \in [Commands -> Nat]
    /\ orphaned \in SUBSET Commands
    /\ sinceSweep \in 0 .. MaxAge

Init ==
    /\ GatewayInit
    /\ cmds = EmptyTable
    /\ poller = "next"
    /\ todo = {}
    /\ robot = NoSn
    /\ handle = NoConn
    /\ claimed = {}
    /\ retiring = {}
    /\ posted = [s \in Sns |-> [ty \in InfoTypes |-> 0]]
    /\ handovers = [r \in Commands |-> 0]
    /\ orphaned = {}
    /\ sinceSweep = 0

-----------------------------------------------------------------------------
(* Producers: the console, the CLI, the web API and the path poller.       *)

Enqueue(s, ty) ==
    /\ \E i \in Commands : IsNextId(cmds, i) /\ cmds' = Insert(cmds, i, s, ty)
    /\ UNCHANGED <<gatewayVars, pollerVars, retiring, historyVars>>

-----------------------------------------------------------------------------
(* drain_once.                                                             *)

PollerIdle == poller = "next" /\ todo = {}

\* The tick of the interval: expire first.
DrainStarts ==
    /\ PollerIdle
    /\ poller' = "list"
    /\ UNCHANGED <<gatewayVars, todo, robot, handle, claimed, retiring, posted,
                   handovers, orphaned>>

Sweeps ==
    /\ DrainStarts
    /\ cmds' = Expire(cmds)
    /\ sinceSweep' = 0

\* The statement failed; the pass goes on all the same.
SweepFails ==
    /\ DrainStarts
    /\ DbFails
    /\ UNCHANGED <<cmds, sinceSweep>>

ListsAs(sns) ==
    /\ poller = "list"
    /\ todo' = sns
    /\ poller' = "next"
    /\ UNCHANGED <<gatewayVars, cmds, robot, handle, claimed, retiring, historyVars>>

Lists == ListsAs(PendingSns(cmds))
ListFails == DbFails /\ ListsAs({})    \* the statement failed: the pass is over

\* Offline: its rows wait.  (The code takes the numbers in order; here any
\* order is possible.)
Skips(s) ==
    /\ poller = "next" /\ s \in todo
    /\ registry[s] = NoConn
    /\ todo' = todo \ {s}
    /\ UNCHANGED <<gatewayVars, cmds, poller, robot, handle, claimed, retiring,
                   historyVars>>

LooksUp(s) ==
    /\ poller = "next" /\ s \in todo
    /\ registry[s] # NoConn
    /\ handle' = registry[s]
    /\ held' = {registry[s]}
    /\ robot' = s
    /\ poller' = "claim"
    /\ UNCHANGED <<reader, writer, bound, silent, queue, inflight, registry,
                   cmds, todo, claimed, retiring, historyVars>>

\* One statement: what it marks `sent` is what it returns.
Claims ==
    /\ poller = "claim"
    /\ claimed' = PendingOf(cmds, robot)
    /\ cmds' = Claim(cmds, robot)
    /\ poller' = "push"
    /\ UNCHANGED <<gatewayVars, todo, robot, handle, retiring, historyVars>>

ClaimFails ==
    /\ DbFails
    /\ poller = "claim"
    /\ poller' = "push"
    /\ UNCHANGED <<gatewayVars, cmds, todo, robot, handle, claimed, retiring,
                   historyVars>>

\* A slip: rows go out in whatever order the statement returned them.
AnyClaimed(r) == r \in claimed

\* sort_by_key(id): the smallest id first.
FirstClaimed(r) == r \in claimed /\ \A q \in claimed : r <= q

\* push: the frame could be built and the writer's queue took it.
Pushes(r) ==
    /\ poller = "push" /\ FirstClaimed(r)
    /\ WriterAlive(handle) /\ SendReturns(handle, r)
    /\ claimed' = claimed \ {r}
    /\ handovers' = [handovers EXCEPT ![r] = @ + 1]
    /\ UNCHANGED <<reader, writer, bound, silent, inflight, registry, held,
                   cmds, poller, todo, robot, handle, retiring, posted,
                   orphaned, sinceSweep>>

\* A slip: one failure ends the loop over the claimed rows.
GivesUp(r) == {}

\* What is left to push when r's turn is over.
AfterFailure(r) == claimed \ {r}

\* push ends in fail_command; if that fails too, the row stays `sent`.
Rejects(r) ==
    /\ poller = "push" /\ FirstClaimed(r)
    /\ \/ cmds' = Fail(cmds, r) /\ UNCHANGED orphaned
       \/ DbFails /\ UNCHANGED cmds /\ orphaned' = orphaned \cup {r}
    /\ claimed' = AfterFailure(r)
    /\ UNCHANGED <<gatewayVars, poller, todo, robot, handle, retiring, posted,
                   handovers, sinceSweep>>

\* The payload is not JSON, encryption is off, or there is no usable key: any
\* row may be such a row.
Refuses(r) == Rejects(r)

\* The connection's writer is gone.
FindsWriterGone(r) ==
    poller = "push" /\ ~WriterAlive(handle) /\ Rejects(r)

\* The loop over claimed rows is through; the handle is dropped.
RobotDone ==
    /\ poller = "push" /\ claimed = {}
    /\ poller' = "next"
    /\ todo' = todo \ {robot}
    /\ robot' = NoSn
    /\ handle' = NoConn
    /\ held' = {}
    /\ UNCHANGED <<reader, writer, bound, silent, queue, inflight, registry,
                   cmds, claimed, retiring, historyVars>>

-----------------------------------------------------------------------------
(* The robot and its replies.                                              *)

\* POST cleanPack/response: it names the serial number and the command
\* number, never the row.  A robot answers any frame it has, one sent past
\* the queue (console.rs) like one of a row, late and more than once, so an
\* answer may come at any time.  (An ack_command that fails is an answer that
\* never came.)
Responds(s, ty) ==
    /\ posted[s][ty] < MaxPosts
    /\ posted' = [posted EXCEPT ![s][ty] = @ + 1]
    /\ cmds' = Ack(cmds, s, ty)
    /\ UNCHANGED <<gatewayVars, pollerVars, retiring, handovers, orphaned, sinceSweep>>

-----------------------------------------------------------------------------
(* poll_paths_once: active_command, and later fail_command.                *)

FindsStale(s) ==
    /\ retiring = {}
    /\ \E i \in Commands :
          /\ IsActive(cmds, s, PathType, i)
          /\ SinceSent(cmds[i]) >= PathStale
          /\ retiring' = {i}
    /\ UNCHANGED <<gatewayVars, cmds, pollerVars, historyVars>>

Retires(r) ==
    /\ r \in retiring
    /\ retiring' = {}
    /\ cmds' = Fail(cmds, r) \/ (DbFails /\ UNCHANGED cmds)
    /\ UNCHANGED <<gatewayVars, pollerVars, historyVars>>

-----------------------------------------------------------------------------
(* Time and the process.                                                   *)

Tick ==
    /\ SilenceGrows
    /\ cmds' = Aged(cmds)
    /\ sinceSweep' = Older(sinceSweep)
    /\ UNCHANGED <<reader, writer, bound, queue, inflight, registry, held,
                   pollerVars, retiring, posted, handovers, orphaned>>

Restart ==
    /\ ProcessEnds
    /\ poller' = "next"
    /\ todo' = {}
    /\ robot' = NoSn
    /\ handle' = NoConn
    /\ claimed' = {}
    /\ retiring' = {}
    /\ orphaned' = orphaned \cup claimed
    /\ UNCHANGED <<cmds, posted, handovers, sinceSweep>>

\* Steps of the gateway; none touches the table.
GatewayStep ==
    /\ \E c \in Conns : Accept(c) \/ ReaderStep(c) \/ WriterStep(c)
    /\ UNCHANGED commandVars

PollerStep ==
    \/ Sweeps
    \/ SweepFails
    \/ Lists
    \/ ListFails
    \/ \E s \in Sns : Skips(s) \/ LooksUp(s)
    \/ Claims
    \/ ClaimFails
    \/ \E r \in Commands : Pushes(r) \/ Refuses(r) \/ FindsWriterGone(r)
    \/ RobotDone

Next ==
    \/ GatewayStep
    \/ PollerStep
    \/ \E s \in Sns, ty \in InfoTypes : Enqueue(s, ty) \/ Responds(s, ty)
    \/ \E r \in Commands : Retires(r)
    \/ \E s \in Sns : FindsStale(s)
    \/ Tick
    \/ Restart

Spec == Init /\ [][Next]_vars

\* What the poller does when nothing fails.
PollerGoesOn ==
    \/ Sweeps
    \/ Lists
    \/ \E s \in Sns : Skips(s) \/ LooksUp(s)
    \/ Claims
    \/ \E r \in Commands : Pushes(r) \/ FindsWriterGone(r)
    \/ RobotDone

\* The poller is one task: it goes on whenever it can, and gets room in a
\* queue that has room again and again (senders are served in turn).  Expiry
\* does not fail for ever, writers write or fail, and time passes.  No
\* fairness for readers, robots, producers or refusals.
Fairness ==
    /\ \A c \in Conns : WF_gatewayVars(WriterStep(c))
    /\ SF_vars(PollerGoesOn)
    /\ DbFails => SF_vars(Sweeps)
    /\ WF_vars(Tick)

FairSpec == Spec /\ Fairness

-----------------------------------------------------------------------------
(* Properties.                                                             *)

\* Rows and frames keep the promises of CommandLife: claimed before handed
\* over, handed over at most once ("a poll can never push the same row
\* twice"), acknowledged only out of `sent`, and never changed after that.
Life == INSTANCE CommandLife
            WITH life <- [r \in Commands |-> cmds[r].state]
KeepsLife == Life!LifeSpec

\* Each robot's rows keep the promises of CommandLine, which is all that the
\* zone and map handlers rely on: a new row goes behind all before it, only
\* the first that still waits is handed over, and one that failed, expired or
\* was let go of never comes back into the line (drain_once, push).
Waits(r) == r \in claimed \/ cmds[r].state = "pending"
Line == INSTANCE CommandLine
            WITH waiting <- [s \in Sns |-> {r \in Commands : cmds[r].sn = s /\ Waits(r)}],
                 given <- [s \in Sns |->
                              {r \in Commands : cmds[r].sn = s /\ handovers[r] > 0}]
KeepsLine == Line!LineSpec

\* Frames of one robot are handed over in the order their rows were
\* enqueued, across passes, connections and restarts: the start of a zone
\* clean never overtakes its selection (drain_once).
PushedInOrder ==
    [][\A r, q \in Commands :
          (/\ handovers'[r] > handovers[r]
           /\ handovers[q] > 0
           /\ cmds[q].sn = cmds[r].sn) => q < r]_vars

\* An acknowledged row stays acknowledged, whoever is about to fail it: the
\* push that loses the writer or the path poller that found it stale.
AckedIsFinal ==
    [][\A r \in Commands :
          cmds[r].state = "acked" => cmds'[r].state = "acked"]_vars

\* What holds between a row, the pass it is in and the rows around it, and
\* what the order of pushes rests on.  Of one robot's rows, those handed over
\* have smaller ids than those claimed, and these than those pending.
RowsAreConsistent ==
    /\ poller \in {"claim", "push"} => handle \in Conns
    /\ poller # "push" => claimed = {}
    /\ \A r \in Commands :
          /\ cmds[r].state # "none" => cmds[r].sn \in Sns
          /\ cmds[r].state \in {"none", "pending"} =>
                handovers[r] = 0 /\ cmds[r].sentAge = Never
          /\ r \in claimed => cmds[r].state \notin {"none", "pending"}
          /\ r \in claimed => handovers[r] = 0
          /\ r \in retiring => cmds[r].state # "none"
    /\ \A q, r \in Commands :
          q < r /\ cmds[r].state # "none" => cmds[q].state # "none"

HandedBefore(q, r) ==
    handovers[q] > 0 /\ (r \in claimed \/ cmds[r].state = "pending") => q < r
ClaimedBefore(q, r) ==
    q \in claimed /\ cmds[r].state = "pending" => q < r

IdsFollowProgress ==
    \A q, r \in Commands :
        cmds[q].sn = cmds[r].sn => HandedBefore(q, r) /\ ClaimedBefore(q, r)

\* No live row is older than the TTL plus the time since expiry last ran, so
\* a reply that was lost, a connection that died or a restart leaves nothing
\* in `sent` (expire_commands).
LiveRowsAreFresh ==
    \A r \in Commands : cmds[r].state \in Live =>
        \/ SinceSent(cmds[r]) <= Ttl + sinceSweep
        \/ sinceSweep = MaxAge

\* A row marked `sent` whose frame no writer got is still being pushed, or
\* was when the process ended or the database refused to record its failure:
\* one row's failure loses no other row.
SentIsAccountedFor ==
    \A r \in Commands :
        cmds[r].state = "sent" /\ handovers[r] = 0 => r \in claimed \cup orphaned

\* Every answer acknowledges one row at most: of each robot and command
\* number, no more rows are acknowledged than answers were posted, however
\* late, doubled or never asked for these are (ack_command).
AckedOf(s, ty) ==
    {r \in Commands : cmds[r].sn = s /\ cmds[r].infoType = ty /\ cmds[r].state = "acked"}
AcksAreBacked ==
    \A s \in Sns, ty \in InfoTypes :
        Cardinality(AckedOf(s, ty)) <= posted[s][ty]

\* "The newest `sent` command takes the credit" (response.rs), and the newest
\* is the last that was enqueued, across passes and restarts: while a row is
\* out, no answer acknowledges an earlier row of its robot and number.
NewestIsCredited ==
    [][\A q, r \in Commands :
          (/\ q < r
           /\ cmds[r].state = "sent"
           /\ cmds[q].sn = cmds[r].sn /\ cmds[q].infoType = cmds[r].infoType
           /\ cmds[q].state # "acked") => cmds'[q].state # "acked"]_vars

\* Every row leaves the queue: it is claimed, failed or expired, however
\* long its robot is away, and whatever the other robots' connections do.
PendingLeaves ==
    \A r \in Commands : (cmds[r].state = "pending") ~> (cmds[r].state # "pending")

\* Every claimed row comes to an end, answered or not.
SentLeaves ==
    \A r \in Commands : (cmds[r].state = "sent") ~> (cmds[r].state # "sent")
=============================================================================
