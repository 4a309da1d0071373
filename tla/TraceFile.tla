----------------------------- MODULE TraceFile ------------------------------
(***************************************************************************)
(* The rotating trace files (JsonlSink, src/wire/jsonl.rs).  A file has a  *)
(* day and an index in its name; the sink appends to one of them, moves to *)
(* the next index when a line does not fit any more and to the other day's *)
(* files when the day is another.  Operators on the sink and on the files; *)
(* WireTap has the tasks that use them.                                    *)
(***************************************************************************)
EXTENDS Naturals, Sequences, Functions

CONSTANTS
    MaxDay,     \* bound: the days are 1 .. MaxDay
    MaxIndex,   \* bound: the files of a day are 0 .. MaxIndex
    Rotate,     \* rotate_mb, in units of length; 0 never rotates
    Retain      \* retain_days; 0 keeps everything

ASSUME TraceAssumption ==
    {MaxDay, MaxIndex, Rotate, Retain} \subseteq Nat /\ MaxDay >= 1

Days == 1 .. MaxDay
NoDay == 0
Names == Days \X (0 .. MaxIndex)
NoName == <<NoDay, 0>>

\* JsonlSink::new.  The index runs ahead of the name when a rotation failed.
Closed == [day |-> NoDay, index |-> 0, name |-> NoName, written |-> 0]

Absent == [there |-> FALSE, lines |-> <<>>, len |-> 0, touched |-> NoDay]

\* open: whatever is in the file already counts as written.
Opened(files, day, i) ==
    [day |-> day, index |-> i, name |-> <<day, i>>,
     written |-> files[<<day, i>>].len]

HasRoom(file) == Rotate = 0 \/ file.len < Rotate

\* ensure_open: the file at hand, or the day's first that is not full.
EnsuredOpen(sink, files, day) ==
    IF sink.day = day THEN {sink}
    ELSE {Opened(files, day, i) : i \in
            {j \in 0 .. MaxIndex :
                /\ HasRoom(files[<<day, j>>])
                /\ \A k \in 0 .. j - 1 : ~HasRoom(files[<<day, k>>])}}

\* write_line moves on before a line that does not fit.  An empty file takes
\* any line; the next file is not looked at.
Overflows(sink, size) ==
    Rotate > 0 /\ sink.written > 0 /\ sink.written + size > Rotate

Rotated(sink, files, day, size) ==
    IF Overflows(sink, size) THEN Opened(files, day, sink.index + 1) ELSE sink

\* Append mode: bytes go to the end of the file, after a torn line too.
Appended(file, line, now) ==
    [there |-> TRUE, lines |-> Append(file.lines, line),
     len |-> file.len + line.len, touched |-> now]

\* prune, by the time a file was last written: those it must remove, and
\* those it may, depending on the hour.
Expired(file, now) == Retain > 0 /\ file.there /\ file.touched + Retain < now
Aging(file, now) == Retain > 0 /\ file.there /\ file.touched + Retain <= now
=============================================================================
