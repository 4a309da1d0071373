------------------------------ MODULE Gateway ------------------------------
(***************************************************************************)
(* Channel B, the push gateway (src/channel_b): the connections robots     *)
(* dial in on, the registry that says which connection a serial number is  *)
(* addressed on, and each connection's bounded write queue.                *)
(*                                                                         *)
(* A connection is two tasks.  The reader owns the `Conn` state: the       *)
(* serial number, the registry guard and the time of the last ping.  The   *)
(* writer owns the receiving end of the queue.  The reader's own answers   *)
(* (acks and pongs) and everybody else's frames go through that queue, and *)
(* a full queue makes the sender wait.                                     *)
(*                                                                         *)
(* A member of Conns is a slot: once both tasks of a connection have ended *)
(* the slot stands for the next connection accepted, whose id is new.      *)
(***************************************************************************)
EXTENDS Identities, Sequences, FiniteSets

CONSTANTS
    Conns,         \* connection slots
    NoConn,        \* no registry entry
    NoCommand,     \* Outbound::frame: a frame that belongs to no row
    WriteQueue,    \* WRITE_QUEUE, the capacity of a write queue
    PingTimeout,   \* ping_timeout_secs, in ticks; 0 turns the watchdog off
    AckHandshake   \* gateway.ack_handshake

ASSUME GatewayAssumption ==
    /\ NoConn \notin Conns
    /\ NoCommand \notin Commands
    /\ WriteQueue \in Nat \ {0}
    /\ PingTimeout \in Nat
    /\ AckHandshake \in BOOLEAN

VARIABLES
    reader,     \* the read task: waiting for bytes, waiting to queue, no task
    writer,     \* the write task: waiting for a frame, writing one, no task
    bound,      \* Conn.sn, and with it the Registration guard
    silent,     \* ticks since the last ping, as far as the watchdog counts
    queue,      \* the write queue
    inflight,   \* the frame the writer has taken and not yet written
    registry,   \* the connection a serial number is addressed on
    held        \* connections whose handle some other task has cloned

gatewayVars ==
    <<reader, writer, bound, silent, queue, inflight, registry, held>>

Frame == Commands \cup {NoCommand}

\* The frames a robot has not taken are bounded, whoever sends.
GatewayTypeOK ==
    /\ reader \in [Conns -> {"reading", "sending", "done"}]
    /\ writer \in [Conns -> {"waiting", "writing", "done"}]
    /\ bound \in [Conns -> Sns \cup {NoSn}]
    /\ silent \in [Conns -> 0 .. PingTimeout]
    /\ queue \in [Conns -> Seq(Frame)]
    /\ inflight \in [Conns -> Frame]
    /\ registry \in [Sns -> Conns \cup {NoConn}]
    /\ held \in SUBSET Conns
    /\ \A c \in Conns : Len(queue[c]) <= WriteQueue

GatewayInit ==
    /\ reader = [c \in Conns |-> "done"]
    /\ writer = [c \in Conns |-> "done"]
    /\ bound = [c \in Conns |-> NoSn]
    /\ silent = [c \in Conns |-> 0]
    /\ queue = [c \in Conns |-> <<>>]
    /\ inflight = [c \in Conns |-> NoCommand]
    /\ registry = [s \in Sns |-> NoConn]
    /\ held = {}

-----------------------------------------------------------------------------
(* The registry (registry.rs).                                             *)

\* Registry::register: the entry of s becomes c, whatever it was.
Register(reg, s, c) == [reg EXCEPT ![s] = c]

\* A slip this module is checked against: the connection is not compared.
RemoveAny(reg, s, c) == IF s \in Sns THEN [reg EXCEPT ![s] = NoConn] ELSE reg

\* A slip this module is checked against: nothing is ever taken out.
RemoveNone(reg, s, c) == reg

\* Registry::remove: only while the entry still belongs to c.
Remove(reg, s, c) ==
    IF s \in Sns /\ reg[s] = c THEN [reg EXCEPT ![s] = NoConn] ELSE reg

-----------------------------------------------------------------------------
(* Helpers.                                                                *)

ReaderAlive(c) == reader[c] \in {"reading", "sending"}
WriterAlive(c) == writer[c] \in {"waiting", "writing"}
Finished(c) == ~ReaderAlive(c) /\ ~WriterAlive(c) /\ c \notin held

HasRoom(c) == Len(queue[c]) < WriteQueue

\* A slip: nobody waits, and a slow robot's queue has no limit.
SendsAnyway(c, f) ==
    queue' = [queue EXCEPT ![c] = IF WriterAlive(c) THEN Append(@, f) ELSE @]

\* mpsc::Sender::send has returned: queued, or refused because the receiver
\* is gone.  While the queue of a live writer is full the sender waits.
SendReturns(c, f) ==
    \/ /\ WriterAlive(c)
       /\ HasRoom(c)
       /\ queue' = [queue EXCEPT ![c] = Append(@, f)]
    \/ /\ ~WriterAlive(c)
       /\ UNCHANGED queue

\* Somebody still holds a sender for c's queue.
HasSender(c) == ReaderAlive(c) \/ c \in held \/ \E s \in Sns : registry[s] = c

-----------------------------------------------------------------------------
(* The reader.                                                             *)

\* serve accepts and spawns handle, which spawns the writer.
Accept(c) ==
    /\ Finished(c)
    /\ reader' = [reader EXCEPT ![c] = "reading"]
    /\ writer' = [writer EXCEPT ![c] = "waiting"]
    /\ bound' = [bound EXCEPT ![c] = NoSn]
    /\ silent' = [silent EXCEPT ![c] = 0]
    /\ queue' = [queue EXCEPT ![c] = <<>>]
    /\ inflight' = [inflight EXCEPT ![c] = NoCommand]
    /\ UNCHANGED <<registry, held>>

\* A slip: a second serial number leaves the entry of the first behind.
BindKeepsOldEntry(c, s) ==
    IF s = NoSn \/ bound[c] = s
    THEN UNCHANGED <<registry, bound>>
    ELSE /\ registry' = Register(registry, s, c)
         /\ bound' = [bound EXCEPT ![c] = s]

\* bind: nothing when c already goes by s; otherwise register first, then
\* replace the guard, which takes the entry of the old number out.
Bind(c, s) ==
    IF s = NoSn \/ bound[c] = s
    THEN UNCHANGED <<registry, bound>>
    ELSE /\ registry' = Remove(Register(registry, s, c), bound[c], c)
         /\ bound' = [bound EXCEPT ![c] = s]

\* 10001; s is NoSn for a handshake without data.sn.
Handshake(c, s) ==
    /\ reader[c] = "reading"
    /\ Bind(c, s)
    /\ reader' = [reader EXCEPT ![c] = IF AckHandshake THEN "sending" ELSE @]
    /\ UNCHANGED <<writer, silent, queue, inflight, held>>

\* 21006.  The console may have switched pongs off, at any time.
Ping(c) ==
    /\ reader[c] = "reading"
    /\ silent' = [silent EXCEPT ![c] = 0]
    /\ \E answered \in BOOLEAN :
          reader' = [reader EXCEPT ![c] = IF answered THEN "sending" ELSE @]
    /\ UNCHANGED <<writer, bound, queue, inflight, registry, held>>

\* Any other frame is dispatched; nothing of the connection changes, and
\* above all not the time of the last ping.
Telemetry(c) ==
    /\ reader[c] = "reading"
    /\ UNCHANGED gatewayVars

\* The ack or pong the reader is waiting to queue goes in, or is dropped
\* because the writer is gone; the reader reads on either way.
Reply(c) ==
    /\ reader[c] = "sending"
    /\ SendReturns(c, NoCommand)
    /\ reader' = [reader EXCEPT ![c] = "reading"]
    /\ UNCHANGED <<writer, bound, silent, inflight, registry, held>>

\* read_task returns: Conn is dropped and its guard with it.
EndReader(c) ==
    /\ reader' = [reader EXCEPT ![c] = "done"]
    /\ registry' = Remove(registry, bound[c], c)
    /\ bound' = [bound EXCEPT ![c] = NoSn]
    /\ UNCHANGED <<writer, silent, queue, inflight, held>>

\* End of file, a read error, or a framing error.
Hangup(c) == reader[c] = "reading" /\ EndReader(c)

\* The watchdog runs only while the reader waits for bytes.
WatchdogTrips(c) ==
    /\ PingTimeout > 0
    /\ reader[c] = "reading"
    /\ silent[c] = PingTimeout
    /\ EndReader(c)

-----------------------------------------------------------------------------
(* The writer.                                                             *)

WriterTakes(c) ==
    /\ writer[c] = "waiting"
    /\ queue[c] # <<>>
    /\ writer' = [writer EXCEPT ![c] = "writing"]
    /\ inflight' = [inflight EXCEPT ![c] = Head(queue[c])]
    /\ queue' = [queue EXCEPT ![c] = Tail(@)]
    /\ UNCHANGED <<reader, bound, silent, registry, held>>

\* write_all and flush went through.
WriterWrites(c) ==
    /\ writer[c] = "writing"
    /\ writer' = [writer EXCEPT ![c] = "waiting"]
    /\ inflight' = [inflight EXCEPT ![c] = NoCommand]
    /\ UNCHANGED <<reader, bound, silent, queue, registry, held>>

\* A write error ends the task; the receiver and what it held are dropped.
WriterFails(c) ==
    /\ writer[c] = "writing"
    /\ writer' = [writer EXCEPT ![c] = "done"]
    /\ inflight' = [inflight EXCEPT ![c] = NoCommand]
    /\ queue' = [queue EXCEPT ![c] = <<>>]
    /\ UNCHANGED <<reader, bound, silent, registry, held>>

\* recv returns None: the queue is drained and the last sender is gone.
WriterExits(c) ==
    /\ writer[c] = "waiting"
    /\ queue[c] = <<>>
    /\ ~HasSender(c)
    /\ writer' = [writer EXCEPT ![c] = "done"]
    /\ UNCHANGED <<reader, bound, silent, queue, inflight, registry, held>>

-----------------------------------------------------------------------------
(* Other tasks that write to a robot: the steering page, its watchdog and  *)
(* the console look the handle up, wait for room, and drop the handle.     *)

TakeHandle(s) ==
    /\ registry[s] \in Conns \ held
    /\ held' = held \cup {registry[s]}
    /\ UNCHANGED <<reader, writer, bound, silent, queue, inflight, registry>>

SendAndDrop(c) ==
    /\ c \in held
    /\ SendReturns(c, NoCommand)
    /\ held' = held \ {c}
    /\ UNCHANGED <<reader, writer, bound, silent, inflight, registry>>

-----------------------------------------------------------------------------
(* Time and the process.                                                   *)

\* The time since the last ping, as last_ping + ping_timeout sees it.
SilenceGrows ==
    silent' = [c \in Conns |->
                 IF ReaderAlive(c) /\ silent[c] < PingTimeout
                 THEN silent[c] + 1 ELSE silent[c]]

GatewayTick ==
    /\ \E c \in Conns : ReaderAlive(c) /\ silent[c] < PingTimeout
    /\ SilenceGrows
    /\ UNCHANGED <<reader, writer, bound, queue, inflight, registry, held>>

\* The process ends, by shutdown or crash, and everything of it with it.
ProcessEnds ==
    /\ reader' = [c \in Conns |-> "done"]
    /\ writer' = [c \in Conns |-> "done"]
    /\ bound' = [c \in Conns |-> NoSn]
    /\ silent' = [c \in Conns |-> 0]
    /\ queue' = [c \in Conns |-> <<>>]
    /\ inflight' = [c \in Conns |-> NoCommand]
    /\ registry' = [s \in Sns |-> NoConn]
    /\ held' = {}

ReaderStep(c) ==
    \/ \E s \in Sns \cup {NoSn} : Handshake(c, s)
    \/ Ping(c)
    \/ Telemetry(c)
    \/ Reply(c)
    \/ Hangup(c)
    \/ WatchdogTrips(c)

WriterStep(c) == WriterTakes(c) \/ WriterWrites(c) \/ WriterFails(c) \/ WriterExits(c)

GatewayNext ==
    \/ \E c \in Conns : Accept(c) \/ ReaderStep(c) \/ WriterStep(c) \/ SendAndDrop(c)
    \/ \E s \in Sns : TakeHandle(s)
    \/ GatewayTick
    \/ ProcessEnds

GatewaySpec == GatewayInit /\ [][GatewayNext]_gatewayVars

\* Tasks that can run do run, a socket write ends one way or the other, and
\* time passes.  Strong fairness where the runtime gives more than that: the
\* senders waiting on a queue are served in turn, and the reader's `select!`
\* picks among its ready branches at random.  Nothing makes a robot talk,
\* dial in or hang up.
GatewayWorks ==
    \A c \in Conns :
        /\ WF_gatewayVars(WriterTakes(c))
        /\ WF_gatewayVars(WriterWrites(c) \/ WriterFails(c))
        /\ WF_gatewayVars(WriterExits(c))
        /\ SF_gatewayVars(WatchdogTrips(c))
        /\ SF_gatewayVars(Reply(c))

GatewayFairness ==
    /\ GatewayWorks
    /\ WF_gatewayVars(GatewayTick)
    /\ \A c \in Conns : SF_gatewayVars(SendAndDrop(c))

GatewayFairSpec == GatewaySpec /\ GatewayFairness

-----------------------------------------------------------------------------
(* Properties.                                                             *)

\* "Entries live exactly as long as the connection that created them"
\* (registry.rs): an entry always names a connection that is still being
\* read and that still goes by that serial number.
EntriesAreLive ==
    \A s \in Sns : registry[s] # NoConn =>
        ReaderAlive(registry[s]) /\ bound[registry[s]] = s

\* A robot stays addressable on a connection until that connection stops
\* going by its number or another connection takes the number: the older
\* connections it replaced, however late they wind down or whatever number
\* they move to, never take its entry with them (Registration::drop).
EntriesAreStable ==
    [][\A s \in Sns : registry[s] # NoConn =>
          \/ registry'[s] = registry[s]
          \/ bound'[registry[s]] # s
          \/ /\ registry'[s] # NoConn
             /\ bound[registry'[s]] # s
             /\ bound'[registry'[s]] = s]_gatewayVars

\* The watchdog counts pings, not bytes (conn.rs): a connection cannot stay
\* registered for ever without pinging, however much telemetry it sends.
SilenceIsNoticed ==
    \A c \in Conns : \A s \in Sns :
        []<>(registry[s] # c) \/ []<><<Ping(c)>>_gatewayVars

\* A connection whose reader is done winds down: nothing keeps a sender, so
\* the writer drains its queue and ends, and `handle` returns.
WindsDown ==
    \A c \in Conns : (reader[c] = "done") ~> (~WriterAlive(c) \/ ReaderAlive(c))
=============================================================================
