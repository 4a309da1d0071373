------------------------------ MODULE WireTap -------------------------------
(***************************************************************************)
(* What the server keeps of what crosses its sockets: a connection's       *)
(* reader splits the robot's bytes into frames (src/channel_b/conn.rs),    *)
(* every frame, request and response is numbered and appended to a trace   *)
(* file (Tap::record, src/wire/mod.rs), and the row that is stored about   *)
(* it refers to that line.  Tasks run side by side; a number is taken      *)
(* before the lock on the file is, so lines may lie in another order than  *)
(* their numbers.  Days pass, writes fail half way, and the process ends   *)
(* and starts again on the same files.                                     *)
(*                                                                         *)
(* The JSONL sink alone; the raw sink has a file for each record.          *)
(***************************************************************************)
EXTENDS FrameCodec, TraceFile, SequencesExt

CONSTANTS
    Reader,      \* the task that reads a connection
    Others,      \* writers of connections and requests of channel A
    Chunks,      \* what one read can return
    LineSizes,   \* the lengths of lines
    MaxSeq,      \* bound on the records of a process, one less for each restart
    MaxBoots,    \* bound on the starts of the process
    MaxEvents    \* bound on midnights, failed writes and times the trace is off

ASSUME TapAssumption ==
    /\ Reader \notin Others
    /\ Chunks \subseteq Seq(Bytes)
    /\ LineSizes \subseteq Nat \ {0}
    /\ {MaxSeq, MaxBoots, MaxEvents} \subseteq Nat

VARIABLES
    buf,       \* Decoder: bytes of the frame that has not ended
    frames,    \* what the last read completed
    next,      \* the frame being handled
    whole,     \* history: the bytes `frames` and `buf` were made of
    enabled,   \* Tap: the console's switch
    seq,       \* Tap: the last number given out
    sink,      \* Tap: where lines go
    files,     \* the trace directory
    task,      \* the record each task is making
    rows,      \* references stored in the database
    today,
    boot,      \* history: starts of the process
    pruned,    \* history: files removed for their age
    events

readerVars == <<buf, frames, next, whole>>
tapVars == <<enabled, seq, sink, files>>
worldVars == <<today, boot, pruned, events>>
vars == <<readerVars, tapVars, task, rows, worldVars>>

Tasks == Others \cup {Reader}

Sizes == {n \in Nat : \E size \in LineSizes : n <= size}
Line == [boot : Nat, seq : Nat, by : Tasks, whole : BOOLEAN, len : Nat]
File == [there : BOOLEAN, lines : Seq(Line), len : Nat, touched : Days \cup {NoDay}]
Sink == [day : Days \cup {NoDay}, index : Nat, name : Names \cup {NoName},
         written : Nat]

\* A task that records nothing, one that has a number and its day, and one
\* that has its reference, which names no file if the line was not written.
Idle == [at |-> "idle", seq |-> 0, day |-> NoDay, name |-> NoName]
Task == [at : {"idle", "numbered", "traced"}, seq : Nat,
         day : Days \cup {NoDay}, name : Names \cup {NoName}]

\* A reference is a file and a number, and no more; `record` is history: the
\* record that the row is about.
Row == [ref : [name : Names, seq : Nat], record : [boot : Nat, by : Tasks]]

TapTypeOK ==
    /\ enabled \in BOOLEAN
    /\ seq \in Nat
    /\ sink \in Sink
    /\ files \in [Names -> File]
    /\ task \in [Tasks -> Task]
    /\ rows \subseteq Row
    /\ today \in Days
    /\ boot \in Nat
    /\ pruned \subseteq Names
    /\ events \in Nat

\* The bytes kept between two reads are bounded.
ReaderTypeOK ==
    /\ buf \in Seq(Bytes) /\ Len(buf) <= MaxFrame
    /\ frames \in Seq(Seq(Bytes))
    /\ next \in 1 .. Len(frames) + 1
    /\ whole \in Seq(Bytes)

WireTypeOK == TapTypeOK /\ ReaderTypeOK

Init ==
    /\ buf = <<>> /\ frames = <<>> /\ next = 1 /\ whole = <<>>
    /\ enabled = TRUE
    /\ seq = 0
    /\ sink = Closed
    /\ files = [n \in Names |-> Absent]
    /\ task = [t \in Tasks |-> Idle]
    /\ rows = {}
    /\ today = 1
    /\ boot = 1
    /\ pruned = {}
    /\ events = 0

-----------------------------------------------------------------------------
(* read_task.                                                              *)

AllHandled == next > Len(frames)

Reads(chunk) ==
    LET bytes == buf \o chunk IN
    /\ AllHandled
    /\ task[Reader].at = "idle"
    /\ Fits(bytes)
    /\ frames' = Split(bytes).frames
    /\ buf' = Rest(bytes)
    /\ next' = 1
    /\ whole' = bytes
    /\ UNCHANGED <<tapVars, task, rows, worldVars>>

Disconnected == buf' = <<>> /\ frames' = <<>> /\ next' = 1 /\ whole' = <<>>

\* A framing error, the watchdog, or the end of the stream; another
\* connection starts with a decoder of its own.  What the bytes of a framing
\* error completed is not handled.
Disconnects ==
    /\ AllHandled
    /\ task[Reader].at = "idle"
    /\ Disconnected
    /\ UNCHANGED <<tapVars, task, rows, worldVars>>

SkipsBlank ==
    /\ ~AllHandled
    /\ task[Reader].at = "idle"
    /\ Blank(frames[next])
    /\ next' = next + 1
    /\ UNCHANGED <<buf, frames, whole, tapVars, task, rows, worldVars>>

-----------------------------------------------------------------------------
(* Tap::record.                                                            *)

\* The reader records the frame it is about to handle, others whenever.
Records(t) ==
    /\ task[t].at = "idle"
    /\ t = Reader => ~AllHandled /\ ~Blank(frames[next])

\* handle_frame is over, or another task's work.
Finished(t) == IF t = Reader THEN next' = next + 1 ELSE UNCHANGED next

\* The console has switched the trace off: the row gets no reference.
Untraced(t) ==
    /\ Records(t)
    /\ ~enabled
    /\ Finished(t)
    /\ UNCHANGED <<buf, frames, whole, tapVars, task, rows, worldVars>>

\* fetch_add: no two records of a process have one number.
Numbers(t) ==
    /\ Records(t)
    /\ enabled
    /\ seq + boot <= MaxSeq
    /\ seq' = seq + 1
    /\ task' = [task EXCEPT ![t] = [at |-> "numbered", seq |-> seq + 1,
                                    day |-> today, name |-> NoName]]
    /\ UNCHANGED <<readerVars, enabled, sink, files, rows, worldVars>>

LineOf(t, whole_, len) ==
    [boot |-> boot, seq |-> task[t].seq, by |-> t, whole |-> whole_, len |-> len]

Traced(t, name) ==
    task' = [task EXCEPT ![t] = [@ EXCEPT !.at = "traced", !.name = name]]

\* A slip: the name is taken before write_line has chosen the file.
NameBefore(before, after) == before.name

\* current_name, once the line is written.
CurrentName(before, after) == after.name

\* The file a line of this size goes to.
Targets(t, size) ==
    {Rotated(s, files, task[t].day, size) :
        s \in {e \in EnsuredOpen(sink, files, task[t].day) :
                  e.index < MaxIndex}}

WritesLine(t, size) ==
    /\ task[t].at = "numbered"
    /\ \E s \in Targets(t, size) :
          /\ files' = [files EXCEPT ![s.name] =
                          Appended(@, LineOf(t, TRUE, size), today)]
          /\ sink' = [s EXCEPT !.written = @ + size]
          /\ Traced(t, CurrentName(sink, s))
    /\ UNCHANGED <<readerVars, enabled, seq, rows, worldVars>>

\* The write fails, after some bytes or none; what is there stays, and is
\* not counted.  A process that dies in the write leaves the same.
TearsLine(t, size) ==
    /\ task[t].at = "numbered"
    /\ events < MaxEvents
    /\ events' = events + 1
    /\ \E s \in Targets(t, size), len \in 0 .. size - 1 :
          /\ files' = [files EXCEPT ![s.name] =
                          Appended(@, LineOf(t, FALSE, len), today)]
          /\ sink' = s
    /\ Traced(t, NoName)
    /\ UNCHANGED <<readerVars, enabled, seq, rows, today, boot, pruned>>

\* The file cannot be opened: the day's, or the next one, whose index is
\* used up all the same.
OpenFails(t, size) ==
    /\ task[t].at = "numbered"
    /\ events < MaxEvents
    /\ events' = events + 1
    /\ \/ sink.day # task[t].day /\ UNCHANGED sink
       \/ \E s \in EnsuredOpen(sink, files, task[t].day) :
             /\ Overflows(s, size)
             /\ s.index < MaxIndex
             /\ sink' = [s EXCEPT !.index = @ + 1]
    /\ Traced(t, NoName)
    /\ UNCHANGED <<readerVars, enabled, seq, files, rows, today, boot, pruned>>

\* The handler stores what it heard, along with the reference if it names a
\* file.  (A ping, or a statement that fails, stores none: that is a state
\* with one reference less to check, and left out.)
Stores(t) ==
    /\ task[t].at = "traced"
    /\ task[t].name # NoName
    /\ rows' = rows \cup {[ref |-> [name |-> task[t].name, seq |-> task[t].seq],
                           record |-> [boot |-> boot, by |-> t]]}
    /\ task' = [task EXCEPT ![t] = Idle]
    /\ Finished(t)
    /\ UNCHANGED <<buf, frames, whole, tapVars, worldVars>>

\* The line was not written: the reference is the number alone.
StoresNumber(t) ==
    /\ task[t].at = "traced"
    /\ task[t].name = NoName
    /\ task' = [task EXCEPT ![t] = Idle]
    /\ Finished(t)
    /\ UNCHANGED <<buf, frames, whole, tapVars, rows, worldVars>>

-----------------------------------------------------------------------------
(* The console, the clock and the process.                                 *)

SwitchesOff ==
    /\ enabled /\ events < MaxEvents
    /\ enabled' = FALSE
    /\ events' = events + 1
    /\ UNCHANGED <<readerVars, seq, sink, files, task, rows, today, boot, pruned>>

SwitchesOn ==
    /\ ~enabled
    /\ enabled' = TRUE
    /\ UNCHANGED <<readerVars, seq, sink, files, task, rows, worldVars>>

DayPasses ==
    /\ today < MaxDay /\ events < MaxEvents
    /\ today' = today + 1
    /\ events' = events + 1
    /\ UNCHANGED <<readerVars, tapVars, task, rows, boot, pruned>>

\* Tap::new on the files there are: old ones go, numbers start again.
Restarts ==
    /\ boot < MaxBoots
    /\ boot' = boot + 1
    /\ Disconnected
    /\ enabled' = TRUE
    /\ seq' = 0
    /\ sink' = Closed
    /\ task' = [t \in Tasks |-> Idle]
    /\ \E gone \in SUBSET {n \in Names : Aging(files[n], today)} :
          /\ {n \in Names : Expired(files[n], today)} \subseteq gone
          /\ files' = [n \in Names |-> IF n \in gone THEN Absent ELSE files[n]]
          /\ pruned' = pruned \cup gone
    /\ UNCHANGED <<rows, today, events>>

TaskStep(t) ==
    \/ Untraced(t)
    \/ Numbers(t)
    \/ \E size \in LineSizes : WritesLine(t, size) \/ TearsLine(t, size) \/ OpenFails(t, size)
    \/ Stores(t)
    \/ StoresNumber(t)

Next ==
    \/ \E chunk \in Chunks : Reads(chunk)
    \/ Disconnects
    \/ SkipsBlank
    \/ \E t \in Tasks : TaskStep(t)
    \/ SwitchesOff
    \/ SwitchesOn
    \/ DayPasses
    \/ Restarts

Spec == Init /\ [][Next]_vars

-----------------------------------------------------------------------------
(* Properties.                                                             *)

\* However the bytes of the robot are cut into reads, the frames and the
\* rest are the bytes that came, each frame ends at the first delimiter
\* there is, and the rest has none: no frame is lost, split or run together
\* with the next (Decoder::push).
FramesAreTheStream ==
    /\ whole = FlattenSeq([i \in DOMAIN frames |-> frames[i] \o Delimiter]) \o buf
    /\ \A i \in DOMAIN frames :
          DelimitersFrom(frames[i] \o Delimiter, 1) = {Len(frames[i]) + 1}
    /\ DelimitersFrom(buf, 1) = {}

\* The lines that a reference names, which is a number in a file.
Named(lines, ref) == {i \in DOMAIN lines : lines[i].seq = ref.seq}

IsOf(line, record) ==
    line.boot = record.boot /\ line.by = record.by /\ line.whole

\* The file a stored reference names, unless it has been pruned since, has
\* the whole line of the record the row is about among the lines of that
\* number, and no two of them are one start's: whatever other tasks,
\* midnight, rotations, restarts and failed writes did (Tap::record,
\* write_line).  In a file that one start wrote the reference is exact.  Where
\* the process started again within a day the numbers did too, and it may
\* name a line of each start: the "exact bytes" of the head comment of
\* src/wire/mod.rs are then one of them.
LeadsTo(lines, row) ==
    /\ \E i \in Named(lines, row.ref) : IsOf(lines[i], row.record)
    /\ \A i, j \in Named(lines, row.ref) : lines[i].boot = lines[j].boot => i = j

RefsLeadToRecords ==
    \A r \in rows : r.ref.name \notin pruned => LeadsTo(files[r.ref.name].lines, r)
=============================================================================
