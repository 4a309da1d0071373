------------------------------ MODULE Devices ------------------------------
(***************************************************************************)
(* One robot's registration and binding: the requests it makes on channel  *)
(* A, the cookie gate in front of them (src/channel_a/mod.rs), the         *)
(* handlers (src/channel_a/handlers/), the tables they write and what a    *)
(* boot makes of those tables (src/lib.rs, src/db/mod.rs, src/web.rs).     *)
(*                                                                         *)
(* Every statement of a handler is a step.  A robot that gives up waiting  *)
(* leaves its request's handler running and asks again, the process may    *)
(* end between any two steps and start as the other build, the wall clock  *)
(* may be set, and any statement may fail.  `faults` counts all of these   *)
(* up to MaxFaults; steps count no faults of their own.                    *)
(***************************************************************************)
EXTENDS SessionTable

CONSTANTS
    Slots,       \* the robot's requests the server can be working on
    NoSlot,
    Users,       \* the ids a phone binds a robot to
    NoUser,      \* NULL
    Builds,      \* the builds a boot may run: history on, history off
    AcceptAll,   \* registration.accept_all
    MaxRows,     \* bound: a table with more session rows is full
    MaxFaults,   \* bound on faults
    MaxWishes    \* bound on what the robot's phone asks for

ASSUME DevicesAssumption ==
    /\ Keys # {}
    /\ NoSlot \notin Slots
    /\ NoUser \notin Users
    /\ Keys \cap {"absent", "empty", "ok", "without", "stale", "refused"} = {}
    /\ Builds \subseteq BOOLEAN
    /\ Builds # {}
    /\ AcceptAll \in BOOLEAN
    /\ MaxRows \in Nat
    /\ MaxFaults \in Nat
    /\ MaxWishes \in Nat

\* What a robot has for a cookie when it has no key: no header at all, or the
\* empty value that a register without a session leaves it with.
Absent == "absent"
Empty == "empty"
Cookies == Keys \cup {Absent, Empty}

\* A bind or an unbind, with the userId of its form.
Transitions == [on : BOOLEAN, user : Users \cup {NoUser}]
Unbound == [on |-> FALSE, user |-> NoUser]

\* The devices row after a transition.
BoundRow(t) ==
    [known |-> TRUE, bound |-> t.on, user |-> IF t.on THEN t.user ELSE NoUser]

VARIABLES
    up,          \* whether the process runs
    history,     \* the build that runs
    clock,       \* the server's wall clock
    sessions,    \* the sessions table
    device,      \* the robot's row of devices: whether there is one, its
                 \* bind_state and its bind_user
    events,      \* its bind and unbind requests in the events table
    legacy,      \* the newest of those an old build's catch-all stored
                 \* (Unbound when there is none: a boot does the same)
    req,         \* the requests under way
    key,         \* what the robot holds
    must,        \* whether the robot has to register
    waits,       \* the request whose answer the robot waits for
    asked,       \* the transition its phone last asked for
    done,        \* whether that was answered with code 0
    wishes,
    tidy,        \* history: a prune or a registration of this boot of the
                 \* lean build succeeded
    calm,        \* history: no register went unheard and the clock was not
                 \* set back
    settled,     \* history: the transition, if any, that was stored whole,
                 \* with none begun, cut short or failed since
    faults

serverVars == <<up, history, clock, sessions, device, events, legacy>>
robotVars == <<key, must, waits, asked, done, wishes>>
vars == <<serverVars, req, robotVars, tidy, calm, settled, faults>>

Steps == {"free", "gate", "exists", "seen", "mint", "record", "event", "answer"}
Kinds == {"register", "ask", "bind"}
Answers == Keys \cup {"ok", "without", "stale", "refused"}

Request == [at : Steps, kind : Kinds, cookie : Cookies, change : Transitions,
            answer : Answers, whole : BOOLEAN]

NoRequest == [at |-> "free", kind |-> "ask", cookie |-> Absent, change |-> Unbound,
              answer |-> "ok", whole |-> FALSE]

DevicesTypeOK ==
    /\ up \in BOOLEAN
    /\ history \in BOOLEAN
    /\ clock \in Clock
    /\ sessions \in Seq(SessionRow)
    /\ device \in [known : BOOLEAN, bound : BOOLEAN, user : Users \cup {NoUser}]
    /\ events \in Seq(Transitions)
    /\ legacy \in Transitions
    /\ req \in [Slots -> Request]
    /\ key \in Cookies
    /\ must \in BOOLEAN
    /\ waits \in Slots \cup {NoSlot}
    /\ asked \in Transitions
    /\ done \in BOOLEAN
    /\ wishes \in 0 .. MaxWishes
    /\ tidy \in BOOLEAN
    /\ calm \in BOOLEAN
    /\ settled \in SUBSET Transitions
    /\ faults \in 0 .. MaxFaults

\* The process is not up yet, and its database is new, or that of a release
\* whose catch-all answered every request, or one that served this robot.
NewDatabase ==
    /\ sessions = <<>>
    /\ device = [known |-> FALSE, bound |-> FALSE, user |-> NoUser]
    /\ events = <<>>
    /\ legacy = Unbound
    /\ key = Absent
    /\ asked = Unbound
    /\ settled = {}

CatchAllDatabase ==
    /\ sessions = <<>>
    /\ device \in [known : BOOLEAN, bound : {FALSE}, user : {NoUser}]
    /\ events = <<>>
    /\ legacy \in Transitions
    /\ key = Empty
    /\ asked = legacy
    /\ settled = {}

ServedDatabase ==
    LET k == CHOOSE k \in Keys : TRUE
    IN \E t \in Transitions :
        /\ sessions = <<[key |-> k, created |-> 0, revoked |-> FALSE]>>
        /\ device = BoundRow(t)
        /\ events = <<t>>
        /\ legacy = Unbound
        /\ key = k
        /\ asked = t
        /\ settled = {t}

Init ==
    /\ up = FALSE
    /\ history \in Builds
    /\ clock = 0
    /\ NewDatabase \/ CatchAllDatabase \/ ServedDatabase
    /\ req = [h \in Slots |-> NoRequest]
    /\ must = (key = Absent)
    /\ waits = NoSlot
    /\ done = TRUE
    /\ wishes = 0
    /\ tidy = FALSE
    /\ calm = TRUE
    /\ faults = 0

-----------------------------------------------------------------------------
(* Starting: db::connect and recover_bind_ids                              *)

\* What the newest stored request says, the catch-all's rows included.
Newest == IF events = <<>> THEN legacy ELSE events[Len(events)]

\* A slip: the newest of several, bind or unbind, is believed.
AdoptedAnyway(d, newest) ==
    IF d.known /\ d.user = NoUser /\ newest.user \in Users
    THEN [d EXCEPT !.bound = TRUE, !.user = newest.user]
    ELSE d

\* recover_bind_ids with adopt_bind
Adopted(d, newest) ==
    IF d.known /\ d.user = NoUser /\ newest.on /\ newest.user \in Users
    THEN [d EXCEPT !.bound = TRUE, !.user = newest.user]
    ELSE d

\* prune_events_latest_only, what it does to these rows
PruneEvents(e) == IF e = <<>> THEN e ELSE <<e[Len(e)]>>

Cost(succeeds) == IF succeeds THEN 0 ELSE 1

Starts ==
    /\ ~ up
    /\ up' = TRUE
    /\ history' \in Builds
    /\ \E prunesEvents, prunesSessions, recovers \in BOOLEAN :
         LET failures == Cost(prunesEvents) + Cost(prunesSessions) + Cost(recovers)
         IN /\ history' => prunesEvents /\ prunesSessions
            /\ faults + failures <= MaxFaults
            /\ faults' = faults + failures
            /\ events' = IF ~ history' /\ prunesEvents THEN PruneEvents(events) ELSE events
            /\ sessions' = IF ~ history' /\ prunesSessions
                           THEN PruneSessions(sessions) ELSE sessions
            /\ tidy' = (~ history' /\ prunesSessions)
            /\ device' = IF recovers THEN Adopted(device, Newest) ELSE device
    /\ UNCHANGED <<clock, legacy, req, robotVars, calm, settled>>

-----------------------------------------------------------------------------
(* The cookie gate and session::check                                      *)

\* A step of one request, and what a failed statement costs.
At(h, step) == up /\ req[h].at = step

Fails ==
    /\ faults < MaxFaults
    /\ faults' = faults + 1

Goes(h, step) == req' = [req EXCEPT ![h].at = step]

\* An answer nobody waits for goes nowhere.
Replies(h, answer) ==
    req' = [req EXCEPT ![h] = IF waits = h THEN [@ EXCEPT !.at = "answer", !.answer = answer]
                              ELSE NoRequest]

\* The lookup failed: the request is served.
GateFails(h) ==
    /\ At(h, "gate")
    /\ req[h].cookie # Absent
    /\ Fails
    /\ Goes(h, "seen")
    /\ UNCHANGED <<serverVars, robotVars, tidy, calm, settled>>

\* No header, or a live cookie: served.
GateServes(h) ==
    /\ At(h, "gate")
    /\ LET c == req[h].cookie
       IN \/ c = Absent
          \/ c \in Keys /\ Finds(sessions, c) /\ ~ Expired(sessions, c, clock)
    /\ Goes(h, "seen")
    /\ UNCHANGED <<serverVars, robotVars, tidy, calm, settled, faults>>

\* A slip: an unknown cookie is none.
GateRefusesEmpty(h) ==
    /\ At(h, "gate")
    /\ LET c == req[h].cookie
       IN \/ c = Empty /\ Replies(h, "stale")
          \/ c \in Keys /\ ~ Finds(sessions, c) /\ Goes(h, "seen")
    /\ UNCHANGED <<serverVars, robotVars, tidy, calm, settled, faults>>

\* An empty or unknown cookie: code 102.
GateRefuses(h) ==
    /\ At(h, "gate")
    /\ LET c == req[h].cookie
       IN \/ c = Empty
          \/ c \in Keys /\ ~ Finds(sessions, c)
    /\ Replies(h, "stale")
    /\ UNCHANGED <<serverVars, robotVars, tidy, calm, settled, faults>>

\* An expired session is revoked: code 102.
GateRevokes(h) ==
    /\ At(h, "gate")
    /\ req[h].cookie \in Keys
    /\ Expired(sessions, req[h].cookie, clock)
    /\ sessions' = Revoke(sessions, req[h].cookie)
    /\ Replies(h, "stale")
    /\ UNCHANGED <<up, history, clock, device, events, legacy, robotVars, tidy, calm, settled,
                   faults>>

-----------------------------------------------------------------------------
(* register                                                                *)

\* device_exists, when unknown devices are not accepted
Checks(h) ==
    /\ At(h, "exists")
    /\ ~ AcceptAll => device.known
    /\ Goes(h, "seen")
    /\ UNCHANGED <<serverVars, robotVars, tidy, calm, settled, faults>>

\* Code 212, also when the lookup fails.
Refuses(h) ==
    /\ At(h, "exists")
    /\ ~ AcceptAll
    /\ \/ ~ device.known /\ UNCHANGED faults
       \/ device.known /\ Fails
    /\ Replies(h, "refused")
    /\ UNCHANGED <<serverVars, robotVars, tidy, calm, settled>>

GoesOn(h) == CASE req[h].kind = "register" -> Goes(h, "mint")
               [] req[h].kind = "bind" -> Goes(h, "record")
               [] req[h].kind = "ask" -> Replies(h, "ok")

\* upsert_device_seen, upsert_device_sync
Adopts(h) ==
    /\ At(h, "seen")
    /\ device' = [device EXCEPT !.known = TRUE]
    /\ GoesOn(h)
    /\ UNCHANGED <<up, history, clock, sessions, events, legacy, robotVars, tidy, calm, settled,
                   faults>>

\* The statement failed, or the request (getSockAddr) has none: it goes on.
AdoptsNot(h) ==
    /\ At(h, "seen")
    /\ IF req[h].kind = "ask" THEN UNCHANGED faults ELSE Fails
    /\ GoesOn(h)
    /\ UNCHANGED <<serverVars, robotVars, tidy, calm, settled>>

\* A cookie is 16 random bytes: which of the unused ones makes no difference.
Held == KeysOf(sessions) \cup {key} \cup {req[h].cookie : h \in Slots}
                         \cup {req[h].answer : h \in Slots}
Fresh == CHOOSE k \in Keys : k \notin Held
CanMint == Keys \ Held # {} /\ Len(sessions) < MaxRows /\ device.known

\* mint and insert_session
Mints(h) ==
    /\ At(h, "mint")
    /\ CanMint
    /\ sessions' = InsertSession(sessions, Fresh, clock, history)
    /\ Replies(h, Fresh)
    /\ tidy' = (tidy \/ ~ history)
    /\ UNCHANGED <<up, history, clock, device, events, legacy, robotVars, calm, settled, faults>>

\* The transaction failed, a foreign key or a full disk included: code 0
\* without a session.
MintFails(h) ==
    /\ At(h, "mint")
    /\ IF CanMint THEN Fails ELSE UNCHANGED faults
    /\ Replies(h, "without")
    /\ UNCHANGED <<serverVars, robotVars, tidy, calm, settled>>

-----------------------------------------------------------------------------
(* binding, unbinding                                                      *)

\* A slip: an unbind keeps the id.
BoundKeepingUser(d, t) ==
    IF ~ d.known THEN d ELSE [d EXCEPT !.bound = t.on, !.user = IF t.on THEN t.user ELSE @]

\* record_bind: an UPDATE, which finds no row for a device nobody adopted
BoundAs(d, t) == IF d.known THEN BoundRow(t) ELSE d

\* History: of the requests between their two statements only the last to
\* write the device row can still be stored whole.
Records(h) ==
    /\ At(h, "record")
    /\ device' = BoundAs(device, req[h].change)
    /\ req' = [g \in Slots |->
                 IF g = h THEN [req[g] EXCEPT !.at = "event", !.whole = device.known]
                 ELSE [req[g] EXCEPT !.whole = FALSE]]
    /\ settled' = {}
    /\ UNCHANGED <<up, history, clock, sessions, events, legacy, robotVars, tidy, calm, faults>>

\* Logged only: code 0 all the same.
RecordFails(h) ==
    /\ At(h, "record")
    /\ Fails
    /\ req' = [req EXCEPT ![h].at = "event", ![h].whole = FALSE]
    /\ UNCHANGED <<serverVars, robotVars, tidy, calm, settled>>

\* A slip: without history the row there is stays.
StoredOnce(e, t, keeps) == IF keeps \/ e = <<>> THEN Append(e, t) ELSE e

\* insert_event for a bind endpoint
Stored(e, t, keeps) == IF keeps THEN Append(e, t) ELSE <<t>>

Stores(h) ==
    /\ At(h, "event")
    /\ events' = Stored(events, req[h].change, history)
    /\ settled' = IF req[h].whole THEN {req[h].change} ELSE {}
    /\ Replies(h, "ok")
    /\ UNCHANGED <<up, history, clock, sessions, device, legacy, robotVars, tidy, calm, faults>>

\* Logged only: code 0 all the same.
StoreFails(h) ==
    /\ At(h, "event")
    /\ Fails
    /\ Replies(h, "ok")
    /\ UNCHANGED <<serverVars, robotVars, tidy, calm, settled>>

-----------------------------------------------------------------------------
(* The robot and its phone                                                 *)

\* Which of the free slots a request takes makes no difference.
FreeSlot == CHOOSE h \in Slots : req[h].at = "free"

\* One request at a time: it registers when it has to, repeats a bind that was
\* not answered, and polls otherwise.
Sends(h) ==
    /\ up
    /\ waits = NoSlot
    /\ req[h].at = "free" /\ h = FreeSlot
    /\ waits' = h
    /\ \/ /\ must
          /\ req' = [req EXCEPT ![h] = [NoRequest EXCEPT !.kind = "register", !.at = "exists"]]
       \/ /\ ~ must
          /\ ~ done
          /\ req' = [req EXCEPT ![h] = [NoRequest EXCEPT !.kind = "bind", !.at = "gate",
                                                         !.cookie = key, !.change = asked]]
       \/ /\ ~ must
          /\ req' = [req EXCEPT ![h] = [NoRequest EXCEPT !.at = "gate", !.cookie = key]]
    /\ UNCHANGED <<serverVars, key, must, asked, done, wishes, tidy, calm, settled, faults>>

\* On code 102 it throws its session away and registers.
Hears(h) ==
    /\ At(h, "answer")
    /\ waits = h
    /\ waits' = NoSlot
    /\ req' = [req EXCEPT ![h] = NoRequest]
    /\ LET answer == req[h].answer
       IN /\ key' = CASE answer \in Keys -> answer
                      [] answer = "without" -> Empty
                      [] answer = "stale" -> Absent
                      [] OTHER -> key
          /\ must' = CASE answer \in Keys \cup {"without"} -> FALSE
                       [] answer = "stale" -> TRUE
                       [] OTHER -> must
          /\ done' = (done \/ (req[h].kind = "bind" /\ answer = "ok"))
    /\ UNCHANGED <<serverVars, asked, wishes, tidy, calm, settled, faults>>

Unanswered == [h \in Slots |-> IF req[h].at = "answer" THEN NoRequest ELSE req[h]]

Registers == waits # NoSlot /\ req[waits].kind = "register"

\* Its answer is late or lost; the handler does not notice.
GivesUp ==
    /\ waits # NoSlot
    /\ Fails
    /\ waits' = NoSlot
    /\ req' = Unanswered
    /\ calm' = (calm /\ ~ Registers)
    /\ UNCHANGED <<serverVars, key, must, asked, done, wishes, tidy, settled>>

\* The robot registers whenever it boots.
Reboots ==
    /\ Fails
    /\ waits' = NoSlot
    /\ req' = Unanswered
    /\ must' = TRUE
    /\ calm' = (calm /\ ~ Registers)
    /\ UNCHANGED <<serverVars, key, asked, done, wishes, tidy, settled>>

Wants ==
    /\ done
    /\ wishes < MaxWishes
    /\ wishes' = wishes + 1
    /\ asked' \in {t \in Transitions : t.on # asked.on}
    /\ done' = FALSE
    /\ UNCHANGED <<serverVars, req, key, must, waits, tidy, calm, settled, faults>>

\* `GET /?version=1`, before any register and past the gate
VersionCheck ==
    /\ up
    /\ device' = [device EXCEPT !.known = TRUE]
    /\ UNCHANGED <<up, history, clock, sessions, events, legacy, req, robotVars, tidy, calm,
                   settled, faults>>

TimePasses ==
    /\ clock < MaxClock
    /\ clock' = clock + 1
    /\ UNCHANGED <<up, history, sessions, device, events, legacy, req, robotVars, tidy, calm,
                   settled, faults>>

ClockIsSetBack ==
    /\ Fails
    /\ clock' \in {c \in Clock : c < clock}
    /\ calm' = FALSE
    /\ UNCHANGED <<up, history, sessions, device, events, legacy, req, robotVars, tidy,
                   settled>>

Crashes ==
    /\ up
    /\ Fails
    /\ up' = FALSE
    /\ req' = [h \in Slots |-> NoRequest]
    /\ waits' = NoSlot
    /\ tidy' = FALSE
    /\ calm' = (calm /\ ~ Registers)
    /\ UNCHANGED <<history, clock, sessions, device, events, legacy, key, must, asked, done,
                   wishes, settled>>

-----------------------------------------------------------------------------
Handles(h) ==
    \/ GateServes(h) \/ GateRefuses(h) \/ GateRevokes(h)
    \/ Checks(h) \/ Refuses(h) \/ Adopts(h) \/ Mints(h) \/ MintFails(h)
    \/ Records(h) \/ Stores(h)

HandlesBadly(h) == GateFails(h) \/ AdoptsNot(h) \/ RecordFails(h) \/ StoreFails(h)

Next ==
    \/ Starts
    \/ \E h \in Slots : \/ Handles(h) \/ HandlesBadly(h)
                         \/ Sends(h) \/ Hears(h)
    \/ GivesUp \/ Reboots \/ Wants \/ VersionCheck
    \/ TimePasses \/ ClockIsSetBack \/ Crashes

Spec == Init /\ [][Next]_vars

\* The process is started again, every handler runs on, and the robot asks
\* and listens.  Nothing is assumed of the phone, of time and of faults, but
\* that these are finitely many.
FairSpec ==
    /\ Spec
    /\ WF_vars(Starts)
    /\ WF_vars(\E h \in Slots : Sends(h))
    /\ \A h \in Slots : WF_vars(Handles(h) \/ Hears(h) \/ AdoptsNot(h))

-----------------------------------------------------------------------------
(* Properties                                                              *)

Accepted == key \in Keys /\ Finds(sessions, key) /\ ~ Expired(sessions, key, clock)

\* Without history, and once the prune at start or a registration since has
\* succeeded (`tidy`), a robot whose cookie passes the gate holds the key that
\* commands to it are encrypted under, whatever answers were lost, however
\* registrations overlapped and whichever way the clock was set
\* (insert_session, prune_sessions_latest_only, latest_session_key).
KeyIsCurrent ==
    ~ history /\ tidy /\ key \in Keys /\ Finds(sessions, key) => Latest(sessions) = {key}

\* With history the rows of older sessions stay, and the same holds, with any
\* number of registrations, as long as each is heard before the next is sent
\* and the clock is not set back (insert_session, latest_session_key).
CalmKeyIsCurrent ==
    calm /\ ~ Registers /\ key \in Keys /\ Finds(sessions, key)
        => Latest(sessions) = {key}

\* A transition whose two statements both succeeded, with no other's in
\* between, is what the device row says from then on, after every boot too:
\* the stored request that recovery believes says the same
\* (binding.rs transition, recover_bind_ids, prune_events_latest_only).
BindIsRemembered ==
    \A t \in settled : /\ device = BoundRow(t)
                       /\ events # <<>> /\ events[Len(events)] = t

\* A robot whose session is lost, expired, replaced or never was gets one the
\* gate accepts and keeps it, once faults stop (cookie_gate, register).
RobotsComeBack ==
    <>[](\/ Accepted
         \/ (~ AcceptAll /\ ~ device.known)
         \/ Len(sessions) >= MaxRows)
=============================================================================
