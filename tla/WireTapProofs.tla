--------------------------- MODULE WireTapProofs ----------------------------
(***************************************************************************)
(* What holds of the tap for any number of tasks, days, rotations, starts  *)
(* of the process and failed writes, whatever the reader's bytes are; and  *)
(* what the splitter makes of any bytes, cut into any reads.               *)
(***************************************************************************)
EXTENDS WireTap, TLAPS, FiniteSetTheorems, SequenceTheorems

(* The inductive invariant *)

Numbered(t) == task[t].at = "numbered"

\* An open sink goes by the name of a file.
SinkIsNamed == sink.day # NoDay => sink.name \in Names

\* No two tasks are about to write a line of one number.
NumbersDiffer ==
    \A t \in Tasks : Numbered(t) =>
        /\ task[t].day \in Days
        /\ task[t].seq <= seq
        /\ \A u \in Tasks : Numbered(u) /\ u # t => task[u].seq # task[t].seq

\* Every line has a number that was given out.
LinesAreNumbered ==
    \A n \in Names : \A i \in DOMAIN files[n].lines :
        LET line == files[n].lines[i]
        IN  line.boot <= boot /\ (line.boot = boot => line.seq <= seq)

\* What a task is about to write is in no file yet.
NumberedIsUnwritten ==
    \A t \in Tasks : Numbered(t) =>
        \A n \in Names : \A i \in DOMAIN files[n].lines :
            ~ (files[n].lines[i].boot = boot /\ files[n].lines[i].seq = task[t].seq)

\* In a file a start of the process has a line of a number at most.
Differ(lines) ==
    \A i, j \in DOMAIN lines :
        lines[i].boot = lines[j].boot /\ lines[i].seq = lines[j].seq => i = j

LinesDiffer == \A n \in Names : Differ(files[n].lines)

RowOf(t) == [ref |-> [name |-> task[t].name, seq |-> task[t].seq],
             record |-> [boot |-> boot, by |-> t]]

\* A reference a task holds is as good as one that is stored.
TracedLeads ==
    \A t \in Tasks : task[t].at = "traced" /\ task[t].name # NoName =>
        task[t].name \in Names /\ LeadsTo(files[task[t].name].lines, RowOf(t))

TapInv ==
    /\ TapTypeOK
    /\ SinkIsNamed
    /\ NumbersDiffer
    /\ LinesAreNumbered
    /\ NumberedIsUnwritten
    /\ LinesDiffer
    /\ TracedLeads
    /\ RefsLeadToRecords

-----------------------------------------------------------------------------
(* The sink *)

LEMMA OpenedType ==
    ASSUME files \in [Names -> File], NEW day \in Days, NEW i \in 0 .. MaxIndex
    PROVE  LET s == Opened(files, day, i)
           IN  s \in Sink /\ s.day = day /\ s.name \in Names /\ s.index = i
<1>1. <<day, i>> \in Names
  BY DEF Names
<1>2. files[<<day, i>>].len \in Nat
  BY <1>1 DEF File
<1>3. i \in Nat
  BY TraceAssumption
<1> QED
  BY <1>1, <1>2, <1>3 DEF Opened, Sink

LEMMA EnsuredType ==
    ASSUME TapTypeOK, SinkIsNamed, NEW day \in Days, NEW s \in EnsuredOpen(sink, files, day)
    PROVE  s \in Sink /\ s.day = day /\ s.name \in Names
<1> USE DEF TapTypeOK
<1>1. CASE sink.day = day
  <2>1. day # NoDay
    BY TraceAssumption DEF Days, NoDay
  <2> QED
    BY <1>1, <2>1 DEF EnsuredOpen, SinkIsNamed
<1>2. CASE sink.day # day
  <2>1. PICK i \in 0 .. MaxIndex : s = Opened(files, day, i)
    BY <1>2 DEF EnsuredOpen
  <2> QED
    BY <2>1, OpenedType
<1> QED
  BY <1>1, <1>2

LEMMA TargetType ==
    ASSUME TapTypeOK, SinkIsNamed, NEW t \in Tasks, task[t].day \in Days,
           NEW size, NEW s \in Targets(t, size)
    PROVE  s \in Sink /\ s.name \in Names
<1>1. PICK e \in EnsuredOpen(sink, files, task[t].day) :
          e.index < MaxIndex /\ s = Rotated(e, files, task[t].day, size)
  BY DEF Targets
<1>2. e \in Sink /\ e.name \in Names
  BY EnsuredType
<1>3. e.index + 1 \in 0 .. MaxIndex
  BY <1>1, <1>2, TraceAssumption DEF Sink
<1> QED
  BY <1>1, <1>2, <1>3, OpenedType DEF Rotated, TapTypeOK

-----------------------------------------------------------------------------
(* Lines *)

LEMMA AppendFacts ==
    ASSUME NEW S, NEW q \in Seq(S), NEW e \in S
    PROVE  /\ Append(q, e) \in Seq(S)
           /\ DOMAIN Append(q, e) = DOMAIN q \cup {Len(q) + 1}
           /\ Len(q) + 1 \notin DOMAIN q
           /\ \A i \in DOMAIN q : Append(q, e)[i] = q[i]
           /\ Append(q, e)[Len(q) + 1] = e
  OBVIOUS

\* A line of a number that its start had no line of differs from the others.
LEMMA DifferStays ==
    ASSUME NEW lines \in Seq(Line), NEW e \in Line, Differ(lines),
           \A i \in DOMAIN lines : ~ (lines[i].boot = e.boot /\ lines[i].seq = e.seq)
    PROVE  Differ(Append(lines, e))
<1> DEFINE longer == Append(lines, e)
<1>1. /\ DOMAIN longer = DOMAIN lines \cup {Len(lines) + 1}
      /\ \A i \in DOMAIN lines : longer[i] = lines[i]
      /\ longer[Len(lines) + 1] = e
  BY AppendFacts
<1> HIDE DEF longer
<1>2. Differ(longer)
  BY <1>1 DEF Differ
<1> QED
  BY <1>2 DEF longer

\* Another line takes nothing from a reference, as long as they differ.
LEMMA LeadStays ==
    ASSUME NEW lines \in Seq(Line), NEW e \in Line, NEW r, LeadsTo(lines, r),
           Differ(Append(lines, e))
    PROVE  LeadsTo(Append(lines, e), r)
<1> DEFINE longer == Append(lines, e)
<1>1. /\ DOMAIN longer = DOMAIN lines \cup {Len(lines) + 1}
      /\ \A i \in DOMAIN lines : longer[i] = lines[i]
  BY AppendFacts
<1>2. PICK i \in DOMAIN lines : lines[i].seq = r.ref.seq /\ IsOf(lines[i], r.record)
  BY DEF LeadsTo, Named
<1>3. Differ(longer)
  OBVIOUS
<1> HIDE DEF longer
<1>4. i \in Named(longer, r.ref) /\ IsOf(longer[i], r.record)
  BY <1>1, <1>2 DEF Named
<1>5. LeadsTo(longer, r)
  BY <1>3, <1>4 DEF LeadsTo, Named, Differ
<1> QED
  BY <1>5 DEF longer

\* A whole line leads from a reference of its number to its record.
LEMMA NewLeads ==
    ASSUME NEW lines \in Seq(Line), NEW e \in Line, NEW r,
           e.seq = r.ref.seq, IsOf(e, r.record), Differ(Append(lines, e))
    PROVE  LeadsTo(Append(lines, e), r)
<1> DEFINE longer == Append(lines, e)
           i == Len(lines) + 1
<1>1. DOMAIN longer = DOMAIN lines \cup {i} /\ longer[i] = e
  BY AppendFacts
<1>2. Differ(longer)
  OBVIOUS
<1> HIDE DEF longer, i
<1>3. i \in Named(longer, r.ref) /\ IsOf(longer[i], r.record)
  BY <1>1 DEF Named
<1>4. LeadsTo(longer, r)
  BY <1>2, <1>3 DEF LeadsTo, Named, Differ
<1> QED
  BY <1>4 DEF longer

LEMMA LineType ==
    ASSUME TapTypeOK, NEW t \in Tasks, NEW wh \in BOOLEAN, NEW len \in Nat
    PROVE  /\ LineOf(t, wh, len) \in Line
           /\ LineOf(t, wh, len).boot = boot
           /\ LineOf(t, wh, len).seq = task[t].seq
           /\ LineOf(t, wh, len).by = t
           /\ LineOf(t, wh, len).whole = wh
  BY DEF TapTypeOK, Task, Line, LineOf

\* What writing a line does to the lines and to the references to them.
LEMMA WriteKeeps ==
    ASSUME TapInv, NEW t \in Tasks, Numbered(t), NEW n \in Names,
           NEW wh \in BOOLEAN, NEW len \in Nat, NEW name,
           files' = [files EXCEPT ![n] = Appended(@, LineOf(t, wh, len), today)],
           Traced(t, name),
           name = NoName \/ (name = n /\ wh),
           sink' \in Sink, sink'.name \in Names,
           UNCHANGED <<enabled, seq, rows, today, boot, pruned>>,
           events' \in Nat
    PROVE  TapInv'
<1> DEFINE e == LineOf(t, wh, len)
           old == files[n].lines
<1>1. e \in Line /\ e.boot = boot /\ e.seq = task[t].seq /\ e.by = t /\ e.whole = wh
  BY LineType DEF TapInv
<1>2. files \in [Names -> File] /\ old \in Seq(Line) /\ files[n].len \in Nat
  BY DEF TapInv, TapTypeOK, File
<1>3. /\ files'[n].lines = Append(old, e)
      /\ \A m \in Names \ {n} : files'[m] = files[m]
  BY <1>2 DEF Appended
<1>4. /\ DOMAIN files'[n].lines = DOMAIN old \cup {Len(old) + 1}
      /\ \A i \in DOMAIN old : files'[n].lines[i] = old[i]
      /\ files'[n].lines[Len(old) + 1] = e
  BY <1>1, <1>2, <1>3, AppendFacts
<1>5. /\ task'[t].at = "traced" /\ task'[t].name = name /\ task'[t].seq = task[t].seq
      /\ \A u \in Tasks \ {t} : task'[u] = task[u]
      /\ task' \in [Tasks -> Task]
  BY DEF Traced, TapInv, TapTypeOK, Task
<1>5a. Differ(Append(old, e))
  <2>1. Differ(old)
    BY DEF TapInv, LinesDiffer
  <2>2. \A i \in DOMAIN old : ~ (old[i].boot = boot /\ old[i].seq = task[t].seq)
    BY DEF TapInv, NumberedIsUnwritten
  <2>3. \A i \in DOMAIN old : ~ (old[i].boot = e.boot /\ old[i].seq = e.seq)
    BY <1>1, <2>2
  <2> HIDE DEF e, old
  <2> QED
    BY <1>1, <1>2, <2>1, <2>3, DifferStays
<1>6. \A r : LeadsTo(old, r) => LeadsTo(Append(old, e), r)
  BY <1>1, <1>2, <1>5a, LeadStays
<1>7. \A m \in Names : \A r : LeadsTo(files[m].lines, r) => LeadsTo(files'[m].lines, r)
  BY <1>3, <1>6
<1> HIDE DEF e, old
<1>8. TapTypeOK'
  <2>1. files' \in [Names -> File]
    <3>1. Append(old, e) \in Seq(Line)
      BY <1>1, <1>2, AppendFacts
    <3>2. e.len \in Nat /\ files[n].len + e.len \in Nat /\ today \in Days
      BY <1>1, <1>2 DEF Line, TapInv, TapTypeOK
    <3>3. Appended(files[n], e, today) \in File
      BY <3>1, <3>2 DEF Appended, File, old
    <3> QED
      BY <1>2, <3>3 DEF e
  <2> QED
    BY <1>5, <2>1 DEF TapInv, TapTypeOK
<1>9. SinkIsNamed'
  BY DEF SinkIsNamed
<1>10. NumbersDiffer'
  <2>1. \A u \in Tasks : Numbered(u)' => u # t /\ Numbered(u) /\ task'[u] = task[u]
    BY <1>5 DEF Numbered
  <2> QED
    BY <2>1 DEF TapInv, NumbersDiffer
<1>11. LinesAreNumbered'
  <2>1. e.boot = boot /\ e.seq <= seq
    BY <1>1 DEF TapInv, NumbersDiffer
  <2>2. boot <= boot
    BY DEF TapInv, TapTypeOK
  <2> QED
    BY <1>2, <1>3, <1>4, <2>1, <2>2 DEF TapInv, LinesAreNumbered, old
<1>12. NumberedIsUnwritten'
  <2> SUFFICES ASSUME NEW u \in Tasks, Numbered(u)', NEW m \in Names,
                      NEW i \in DOMAIN files'[m].lines
               PROVE  ~ (/\ files'[m].lines[i].boot = boot
                         /\ files'[m].lines[i].seq = task'[u].seq)
    BY DEF NumberedIsUnwritten
  <2>1. u # t /\ Numbered(u) /\ task'[u] = task[u]
    BY <1>5 DEF Numbered
  <2>2. task[u].seq # task[t].seq
    BY <2>1 DEF TapInv, NumbersDiffer
  <2>3. CASE m = n /\ i = Len(old) + 1
    BY <1>1, <1>4, <2>1, <2>2, <2>3
  <2>4. CASE m = n /\ i \in DOMAIN old
    BY <1>4, <2>1, <2>4 DEF TapInv, NumberedIsUnwritten, old
  <2>5. CASE m # n
    BY <1>3, <2>1, <2>5 DEF TapInv, NumberedIsUnwritten
  <2> QED
    BY <1>4, <2>3, <2>4, <2>5
<1>13. TracedLeads'
  <2> SUFFICES ASSUME NEW u \in Tasks, task'[u].at = "traced", task'[u].name # NoName
               PROVE  /\ task'[u].name \in Names
                      /\ LeadsTo(files'[task'[u].name].lines, RowOf(u)')
    BY DEF TracedLeads
  <2>1. CASE u = t
    <3>1. task'[u].name = n /\ wh
      BY <1>5, <2>1
    <3> DEFINE r == RowOf(u)'
    <3>2. r.ref.seq = task[t].seq /\ r.record.boot = boot /\ r.record.by = t
      BY <1>5, <2>1 DEF RowOf
    <3> HIDE DEF r
    <3>3. e.seq = r.ref.seq /\ IsOf(e, r.record)
      BY <1>1, <3>1, <3>2 DEF IsOf
    <3>4. LeadsTo(Append(old, e), r)
      BY <1>5a, <1>1, <1>2, <3>3, NewLeads
    <3> QED
      BY <1>3, <3>1, <3>4 DEF r
  <2>2. CASE u # t
    <3>1. task'[u] = task[u] /\ RowOf(u)' = RowOf(u)
      BY <1>5, <2>2 DEF RowOf
    <3> QED
      BY <1>7, <3>1 DEF TapInv, TracedLeads
  <2> QED
    BY <2>1, <2>2
<1>14. RefsLeadToRecords'
  <2> SUFFICES ASSUME NEW r \in rows, r.ref.name \notin pruned
               PROVE  LeadsTo(files'[r.ref.name].lines, r)
    BY DEF RefsLeadToRecords
  <2>1. r.ref.name \in Names
    BY DEF TapInv, TapTypeOK, Row
  <2>2. LeadsTo(files[r.ref.name].lines, r)
    BY DEF TapInv, RefsLeadToRecords
  <2> QED
    BY <1>7, <2>1, <2>2
<1>15. LinesDiffer'
  BY <1>5a, <1>3 DEF TapInv, LinesDiffer
<1> QED
  BY <1>8, <1>9, <1>10, <1>11, <1>12, <1>13, <1>14, <1>15 DEF TapInv

\* Steps that touch no file, no reference and no task.
LEMMA QuietKeeps ==
    ASSUME TapInv, enabled' \in BOOLEAN, today' \in Days, events' \in Nat,
           UNCHANGED <<seq, sink, files, task, rows, boot, pruned>>
    PROVE  TapInv'
  BY DEF TapInv, TapTypeOK, SinkIsNamed, NumbersDiffer, LinesAreNumbered, Numbered,
         NumberedIsUnwritten, LinesDiffer, TracedLeads, RowOf, RefsLeadToRecords

\* A task that holds a reference lets go of it, stored or not.
LEMMA TaskEnds ==
    ASSUME TapInv, NEW t \in Tasks, ~ Numbered(t),
           task' = [task EXCEPT ![t] = Idle],
           UNCHANGED <<tapVars, worldVars>>,
           rows' \subseteq Row,
           \A r \in rows' \ rows : LeadsTo(files[r.ref.name].lines, r)
    PROVE  TapInv'
<1> USE DEF tapVars, worldVars
<1>1. Idle \in Task
  BY DEF Idle, Task, NoDay
<1>2. /\ task' \in [Tasks -> Task]
      /\ task'[t].at = "idle"
      /\ \A u \in Tasks \ {t} : task'[u] = task[u]
  BY <1>1 DEF TapInv, TapTypeOK, Idle
<1>3. TapTypeOK'
  BY <1>2 DEF TapInv, TapTypeOK
<1>4. \A u \in Tasks : Numbered(u)' => u # t /\ Numbered(u) /\ task'[u] = task[u]
  BY <1>2 DEF Numbered
<1>5. SinkIsNamed' /\ LinesAreNumbered' /\ LinesDiffer'
  BY DEF TapInv, SinkIsNamed, LinesAreNumbered, LinesDiffer
<1>6. NumbersDiffer' /\ NumberedIsUnwritten'
  BY <1>4 DEF TapInv, NumbersDiffer, NumberedIsUnwritten
<1>7. TracedLeads'
  BY <1>2 DEF TapInv, TracedLeads, RowOf
<1>8. RefsLeadToRecords'
  BY DEF TapInv, RefsLeadToRecords
<1> QED
  BY <1>3, <1>5, <1>6, <1>7, <1>8 DEF TapInv

-----------------------------------------------------------------------------
(* The steps *)

LEMMA TapInit == Init => TapInv
<1> SUFFICES ASSUME Init PROVE TapInv
  OBVIOUS
<1>1. Idle \in Task /\ Idle.at = "idle"
  BY DEF Idle, Task, NoDay
<1>2. Absent \in File /\ Absent.lines = <<>>
  BY DEF Absent, File, NoDay
<1>3. Closed \in Sink /\ Closed.day = NoDay
  BY DEF Closed, Sink, NoDay
<1>4. 1 \in Days
  BY TraceAssumption DEF Days
<1>5. /\ files \in [Names -> File] /\ \A n \in Names : files[n].lines = <<>>
      /\ task \in [Tasks -> Task] /\ \A t \in Tasks : task[t].at = "idle"
  BY <1>1, <1>2 DEF Init
<1>6. TapTypeOK
  BY <1>3, <1>4, <1>5 DEF Init, TapTypeOK
<1>7. SinkIsNamed
  BY <1>3 DEF Init, SinkIsNamed
<1>8. NumbersDiffer /\ NumberedIsUnwritten /\ TracedLeads
  BY <1>5 DEF NumbersDiffer, Numbered, NumberedIsUnwritten, TracedLeads
<1>9. LinesAreNumbered /\ LinesDiffer
  BY <1>5 DEF LinesAreNumbered, LinesDiffer, Differ
<1> QED
  BY <1>6, <1>7, <1>8, <1>9 DEF Init, TapInv, RefsLeadToRecords

LEMMA NumbersKeeps ==
    ASSUME TapInv, NEW t \in Tasks, Numbers(t)
    PROVE  TapInv'
<1> DEFINE new == [at |-> "numbered", seq |-> seq + 1, day |-> today, name |-> NoName]
<1>1. seq \in Nat /\ today \in Days /\ boot \in Nat
  BY DEF TapInv, TapTypeOK
<1>2. /\ new \in Task
      /\ new.at = "numbered" /\ new.seq = seq + 1 /\ new.day = today
  <2>1. seq + 1 \in Nat /\ NoName \in Names \cup {NoName}
    BY <1>1
  <2> QED
    BY <1>1, <2>1 DEF Task
<1> HIDE DEF new
<1>3. /\ task' = [task EXCEPT ![t] = new]
      /\ seq' = seq + 1
      /\ UNCHANGED <<enabled, sink, files, rows, today, boot, pruned, events>>
  BY DEF Numbers, new, worldVars
<1>4. /\ task' \in [Tasks -> Task]
      /\ task'[t] = new
      /\ \A u \in Tasks \ {t} : task'[u] = task[u]
  BY <1>2, <1>3 DEF TapInv, TapTypeOK
<1>5. TapTypeOK' /\ SinkIsNamed' /\ RefsLeadToRecords'
  BY <1>1, <1>3, <1>4 DEF TapInv, TapTypeOK, SinkIsNamed, RefsLeadToRecords
<1>6. LinesAreNumbered'
  <2> SUFFICES ASSUME NEW n \in Names, NEW i \in DOMAIN files[n].lines
               PROVE  LET line == files[n].lines[i]
                      IN  line.boot <= boot /\ (line.boot = boot => line.seq <= seq + 1)
    BY <1>3 DEF LinesAreNumbered
  <2>1. files[n].lines[i] \in Line
    BY DEF TapInv, TapTypeOK, File
  <2>2. /\ files[n].lines[i].boot <= boot
        /\ files[n].lines[i].boot = boot => files[n].lines[i].seq <= seq
    BY DEF TapInv, LinesAreNumbered
  <2>3. files[n].lines[i].seq \in Nat
    BY <2>1 DEF Line
  <2> QED
    BY <1>1, <2>2, <2>3
<1>7. \A u \in Tasks \ {t} : Numbered(u)' => Numbered(u) /\ task[u].seq \in Nat /\ task[u].seq <= seq
  BY <1>4 DEF Numbered, TapInv, TapTypeOK, Task, NumbersDiffer
<1>8. NumbersDiffer'
  <2> SUFFICES ASSUME NEW u \in Tasks, Numbered(u)'
               PROVE  /\ task'[u].day \in Days
                      /\ task'[u].seq <= seq + 1
                      /\ \A v \in Tasks : Numbered(v)' /\ v # u => task'[v].seq # task'[u].seq
    BY <1>3 DEF NumbersDiffer
  <2>1. CASE u = t
    BY <1>1, <1>2, <1>4, <1>7, <2>1
  <2>2. CASE u # t
    <3>1. Numbered(u) /\ task'[u] = task[u] /\ task[u].seq \in Nat /\ task[u].seq <= seq
      BY <1>4, <1>7, <2>2
    <3>2. task[u].day \in Days
      BY <3>1 DEF TapInv, NumbersDiffer
    <3>3. \A v \in Tasks : Numbered(v)' /\ v # u => task'[v].seq # task'[u].seq
      <4> SUFFICES ASSUME NEW v \in Tasks, Numbered(v)', v # u
                   PROVE  task'[v].seq # task'[u].seq
        OBVIOUS
      <4>1. CASE v = t
        BY <1>1, <1>2, <1>4, <3>1, <4>1
      <4>2. CASE v # t
        BY <1>4, <1>7, <3>1, <4>2 DEF TapInv, NumbersDiffer
      <4> QED
        BY <4>1, <4>2
    <3> QED
      BY <1>1, <3>1, <3>2, <3>3
  <2> QED
    BY <2>1, <2>2
<1>9. NumberedIsUnwritten'
  <2> SUFFICES ASSUME NEW u \in Tasks, Numbered(u)', NEW n \in Names,
                      NEW i \in DOMAIN files[n].lines,
                      files[n].lines[i].boot = boot, files[n].lines[i].seq = task'[u].seq
               PROVE  FALSE
    BY <1>3 DEF NumberedIsUnwritten
  <2>1. files[n].lines[i].seq <= seq
    BY DEF TapInv, LinesAreNumbered
  <2>2. CASE u = t
    BY <1>1, <1>2, <1>4, <2>1, <2>2
  <2>3. CASE u # t
    BY <1>4, <1>7, <2>3 DEF TapInv, NumberedIsUnwritten
  <2> QED
    BY <2>2, <2>3
<1>10. TracedLeads'
  <2> SUFFICES ASSUME NEW u \in Tasks, task'[u].at = "traced", task'[u].name # NoName
               PROVE  /\ task'[u].name \in Names
                      /\ LeadsTo(files[task'[u].name].lines, RowOf(u)')
    BY <1>3 DEF TracedLeads
  <2>1. u # t
    BY <1>2, <1>4
  <2>2. task'[u] = task[u] /\ RowOf(u)' = RowOf(u)
    BY <1>3, <1>4, <2>1 DEF RowOf
  <2> QED
    BY <2>2 DEF TapInv, TracedLeads
<1>11. LinesDiffer'
  BY <1>3 DEF TapInv, LinesDiffer
<1> QED
  BY <1>5, <1>6, <1>8, <1>9, <1>10, <1>11 DEF TapInv

LEMMA WritesKeeps ==
    ASSUME TapInv, NEW t \in Tasks, NEW size \in LineSizes,
           WritesLine(t, size) \/ TearsLine(t, size)
    PROVE  TapInv'
<1>1. TapTypeOK /\ SinkIsNamed
  BY DEF TapInv
<1>2. Numbered(t) /\ task[t].day \in Days
  BY DEF TapInv, NumbersDiffer, Numbered, WritesLine, TearsLine
<1>3. size \in Nat
  BY TapAssumption
<1>4. CASE WritesLine(t, size)
  <2>1. PICK s \in Targets(t, size) :
            /\ files' = [files EXCEPT ![s.name] =
                            Appended(@, LineOf(t, TRUE, size), today)]
            /\ sink' = [s EXCEPT !.written = @ + size]
            /\ Traced(t, CurrentName(sink, s))
    BY <1>4 DEF WritesLine
  <2>2. s \in Sink /\ s.name \in Names
    BY <1>1, <1>2, TargetType
  <2>3. sink' \in Sink /\ sink'.name \in Names
    BY <1>3, <2>1, <2>2 DEF Sink
  <2>4. Traced(t, s.name)
    BY <2>1 DEF CurrentName
  <2>5. UNCHANGED <<enabled, seq, rows, today, boot, pruned>> /\ events' \in Nat
    BY <1>1, <1>4 DEF WritesLine, worldVars, TapTypeOK
  <2> QED
    BY <1>2, <1>3, <2>1, <2>2, <2>3, <2>4, <2>5, WriteKeeps
<1>5. CASE TearsLine(t, size)
  <2>1. PICK s \in Targets(t, size), len \in 0 .. size - 1 :
            /\ files' = [files EXCEPT ![s.name] =
                            Appended(@, LineOf(t, FALSE, len), today)]
            /\ sink' = s
    BY <1>5 DEF TearsLine
  <2>2. s \in Sink /\ s.name \in Names
    BY <1>1, <1>2, TargetType
  <2>3. len \in Nat
    BY <1>3
  <2>4. Traced(t, NoName) /\ UNCHANGED <<enabled, seq, rows, today, boot, pruned>>
    BY <1>5 DEF TearsLine
  <2>5. events' \in Nat
    BY <1>1, <1>5 DEF TearsLine, TapTypeOK
  <2> QED
    BY <1>2, <2>1, <2>2, <2>3, <2>4, <2>5, WriteKeeps
<1> QED
  BY <1>4, <1>5

LEMMA OpenFailsKeeps ==
    ASSUME TapInv, NEW t \in Tasks, NEW size \in LineSizes, OpenFails(t, size)
    PROVE  TapInv'
<1>1. /\ task[t].at = "numbered" /\ Numbered(t)
      /\ Traced(t, NoName)
      /\ UNCHANGED <<enabled, seq, files, rows, today, boot, pruned>>
      /\ events' = events + 1
  BY DEF OpenFails, Numbered
<1>2. sink' \in Sink /\ SinkIsNamed'
  <2>1. CASE UNCHANGED sink
    BY <2>1 DEF TapInv, TapTypeOK, SinkIsNamed
  <2>2. CASE \E s \in EnsuredOpen(sink, files, task[t].day) :
                sink' = [s EXCEPT !.index = @ + 1]
    <3>1. PICK s \in EnsuredOpen(sink, files, task[t].day) :
              sink' = [s EXCEPT !.index = @ + 1]
      BY <2>2
    <3>2. s \in Sink /\ s.name \in Names
      BY <1>1, EnsuredType DEF TapInv, NumbersDiffer
    <3> QED
      BY <3>1, <3>2 DEF Sink, SinkIsNamed
  <2> QED
    BY <2>1, <2>2 DEF OpenFails
<1>3. /\ task' \in [Tasks -> Task]
      /\ task'[t].at = "traced" /\ task'[t].name = NoName
      /\ \A u \in Tasks \ {t} : task'[u] = task[u]
  BY <1>1 DEF Traced, TapInv, TapTypeOK, Task
<1>4. TapTypeOK'
  BY <1>1, <1>2, <1>3 DEF TapInv, TapTypeOK
<1>5. \A u \in Tasks : Numbered(u)' => u # t /\ Numbered(u) /\ task'[u] = task[u]
  BY <1>3 DEF Numbered
<1>6. NumbersDiffer' /\ NumberedIsUnwritten'
  BY <1>1, <1>5 DEF TapInv, NumbersDiffer, NumberedIsUnwritten
<1>7. TracedLeads'
  BY <1>1, <1>3 DEF TapInv, TracedLeads, RowOf
<1>8. LinesAreNumbered' /\ LinesDiffer' /\ RefsLeadToRecords'
  BY <1>1 DEF TapInv, LinesAreNumbered, LinesDiffer, RefsLeadToRecords
<1> QED
  BY <1>2, <1>4, <1>6, <1>7, <1>8 DEF TapInv

LEMMA EndsKeeps ==
    ASSUME TapInv, NEW t \in Tasks, Stores(t) \/ StoresNumber(t)
    PROVE  TapInv'
<1>1. ~ Numbered(t) /\ task' = [task EXCEPT ![t] = Idle] /\ UNCHANGED <<tapVars, worldVars>>
  BY DEF Stores, StoresNumber, Numbered
<1>2. CASE Stores(t)
  <2>1. /\ rows' = rows \cup {RowOf(t)}
        /\ task[t].at = "traced" /\ task[t].name # NoName
    BY <1>2 DEF Stores, RowOf
  <2>2. RowOf(t) \in Row
    BY <2>1 DEF TapInv, TapTypeOK, TracedLeads, RowOf, Row, Task
  <2>3. RowOf(t).ref.name = task[t].name /\ LeadsTo(files[task[t].name].lines, RowOf(t))
    BY <2>1 DEF TapInv, TracedLeads, RowOf
  <2>4. rows' \subseteq Row
    BY <2>1, <2>2 DEF TapInv, TapTypeOK
  <2>5. \A r \in rows' \ rows : LeadsTo(files[r.ref.name].lines, r)
    BY <2>1, <2>3
  <2> QED
    BY <1>1, <2>4, <2>5, TaskEnds
<1>3. CASE StoresNumber(t)
  <2>1. rows' = rows /\ rows \subseteq Row
    BY <1>3 DEF StoresNumber, TapInv, TapTypeOK
  <2> QED
    BY <1>1, <2>1, TaskEnds
<1> QED
  BY <1>2, <1>3

\* Numbers start again, and the number of a start tells the lines apart.
LEMMA RestartsKeeps ==
    ASSUME TapInv, Restarts
    PROVE  TapInv'
<1>1. PICK gone \in SUBSET {n \in Names : Aging(files[n], today)} :
          /\ files' = [n \in Names |-> IF n \in gone THEN Absent ELSE files[n]]
          /\ pruned' = pruned \cup gone
  BY DEF Restarts
<1>2. /\ boot' = boot + 1 /\ boot \in Nat
      /\ enabled' = TRUE /\ seq' = 0 /\ sink' = Closed
      /\ task' = [t \in Tasks |-> Idle]
      /\ UNCHANGED <<rows, today, events>>
  BY DEF Restarts, TapInv, TapTypeOK
<1>3. Absent \in File /\ Absent.lines = <<>>
  BY DEF Absent, File, NoDay
<1>4. Closed \in Sink /\ Closed.day = NoDay
  BY DEF Closed, Sink, NoDay
<1>5. Idle \in Task /\ Idle.at = "idle"
  BY DEF Idle, Task, NoDay
<1>6. \A t \in Tasks : task'[t] = Idle /\ ~ Numbered(t)'
  BY <1>2, <1>5 DEF Numbered
<1>7. TapTypeOK'
  BY <1>1, <1>2, <1>3, <1>4, <1>5 DEF TapInv, TapTypeOK
<1>8. SinkIsNamed'
  BY <1>2, <1>4 DEF SinkIsNamed
<1>9. NumbersDiffer' /\ NumberedIsUnwritten' /\ TracedLeads'
  BY <1>5, <1>6 DEF NumbersDiffer, NumberedIsUnwritten, TracedLeads
<1>10. LinesAreNumbered'
  <2> SUFFICES ASSUME NEW n \in Names, NEW i \in DOMAIN files'[n].lines
               PROVE  LET line == files'[n].lines[i]
                      IN  line.boot <= boot' /\ (line.boot = boot' => line.seq <= seq')
    BY DEF LinesAreNumbered
  <2>1. files'[n] = files[n] /\ i \in DOMAIN files[n].lines
    <3>1. CASE n \in gone
      <4>1. files'[n].lines = <<>>
        BY <1>1, <1>3, <3>1
      <4> QED
        BY <4>1
    <3>2. CASE n \notin gone
      BY <1>1, <3>2
    <3> QED
      BY <3>1, <3>2
  <2>2. files[n].lines[i] \in Line
    BY <2>1 DEF TapInv, TapTypeOK, File
  <2>3. files[n].lines[i].boot <= boot /\ files[n].lines[i].boot \in Nat
    BY <2>1, <2>2 DEF TapInv, LinesAreNumbered, Line
  <2> QED
    BY <1>2, <2>1, <2>3
<1>11. RefsLeadToRecords'
  <2> SUFFICES ASSUME NEW r \in rows, r.ref.name \notin pruned'
               PROVE  LeadsTo(files'[r.ref.name].lines, r)
    BY <1>2 DEF RefsLeadToRecords
  <2>1. r.ref.name \in Names
    BY DEF TapInv, TapTypeOK, Row
  <2>2. files'[r.ref.name] = files[r.ref.name] /\ r.ref.name \notin pruned
    BY <1>1, <2>1
  <2> QED
    BY <2>2 DEF TapInv, RefsLeadToRecords
<1>12. LinesDiffer'
  <2> SUFFICES ASSUME NEW n \in Names PROVE Differ(files'[n].lines)
    BY DEF LinesDiffer
  <2>1. CASE n \in gone
    <3>1. files'[n].lines = <<>>
      BY <1>1, <1>3, <2>1
    <3> QED
      BY <3>1 DEF Differ
  <2>2. CASE n \notin gone
    BY <1>1, <2>2 DEF TapInv, LinesDiffer
  <2> QED
    BY <2>1, <2>2
<1> QED
  BY <1>7, <1>8, <1>9, <1>10, <1>11, <1>12 DEF TapInv

LEMMA TapStep == TapInv /\ [Next]_vars => TapInv'
<1> SUFFICES ASSUME TapInv, [Next]_vars PROVE TapInv'
  OBVIOUS
<1>1. enabled \in BOOLEAN /\ today \in Days /\ events \in Nat
  BY DEF TapInv, TapTypeOK
<1>2. CASE \E chunk \in Chunks : Reads(chunk)
  BY <1>1, <1>2, QuietKeeps DEF Reads, tapVars, worldVars
<1>3. CASE Disconnects \/ SkipsBlank
  BY <1>1, <1>3, QuietKeeps DEF Disconnects, SkipsBlank, tapVars, worldVars
<1>4. CASE \E t \in Tasks : TaskStep(t)
  <2>1. PICK t \in Tasks : TaskStep(t)
    BY <1>4
  <2>2. CASE Untraced(t)
    BY <1>1, <2>2, QuietKeeps DEF Untraced, tapVars, worldVars
  <2>3. CASE Numbers(t)
    BY <2>3, NumbersKeeps
  <2>4. CASE \E size \in LineSizes : WritesLine(t, size) \/ TearsLine(t, size)
    BY <2>4, WritesKeeps
  <2>5. CASE \E size \in LineSizes : OpenFails(t, size)
    BY <2>5, OpenFailsKeeps
  <2>6. CASE Stores(t) \/ StoresNumber(t)
    BY <2>6, EndsKeeps
  <2> QED
    BY <2>1, <2>2, <2>3, <2>4, <2>5, <2>6 DEF TaskStep
<1>5. CASE SwitchesOff \/ SwitchesOn
  <2>1. enabled' \in BOOLEAN
    BY <1>5 DEF SwitchesOff, SwitchesOn
  <2>2. today' \in Days /\ events' \in Nat
    BY <1>1, <1>5 DEF SwitchesOff, SwitchesOn, worldVars
  <2>3. UNCHANGED <<seq, sink, files, task, rows, boot, pruned>>
    BY <1>5 DEF SwitchesOff, SwitchesOn, worldVars
  <2> QED
    BY <2>1, <2>2, <2>3, QuietKeeps
<1>6. CASE DayPasses
  <2>1. today' \in Days
    BY <1>1, <1>6, TraceAssumption DEF DayPasses, Days
  <2> QED
    BY <1>1, <1>6, <2>1, QuietKeeps DEF DayPasses, tapVars
<1>7. CASE Restarts
  BY <1>7, RestartsKeeps
<1>8. CASE UNCHANGED vars
  BY <1>1, <1>8, QuietKeeps DEF vars, tapVars, worldVars
<1> QED
  BY <1>2, <1>3, <1>4, <1>5, <1>6, <1>7, <1>8 DEF Next

-----------------------------------------------------------------------------
(* Induction *)

\* A set that has 0 and, with a number, the next one, has the numbers up to n.
\* (The library's theorem takes a predicate, which cannot be given here; this
\* one takes a set, and follows from the pigeonhole principle.)
LEMMA Induction ==
    ASSUME NEW n \in Nat, NEW T, 0 \in T,
           \A k \in 0 .. n - 1 : k \in T => k + 1 \in T
    PROVE  \A k \in 0 .. n : k \in T
<1> SUFFICES ASSUME NEW m \in 0 .. n, m \notin T
             PROVE  FALSE
  OBVIOUS
<1> DEFINE C == {k \in 0 .. m : k \notin T}
           D == C \ {m}
<1>1. IsFiniteSet(C)
  <2>1. IsFiniteSet(0 .. m)
    BY FS_Interval
  <2> QED
    BY <2>1, FS_Subset
<1>2. IsFiniteSet(D) /\ Cardinality(D) = Cardinality(C) - 1 /\ Cardinality(C) \in Nat
  <2>1. m \in C
    OBVIOUS
  <2> HIDE DEF C
  <2>2. Cardinality(C) \in Nat
    BY <1>1, FS_CardinalityType
  <2>3. IsFiniteSet(C \ {m}) /\ Cardinality(C \ {m}) = Cardinality(C) - 1
    BY <1>1, <2>1, FS_RemoveElement
  <2> QED
    BY <2>2, <2>3
<1> DEFINE f == [k \in C |-> k - 1]
<1>3. f \in [C -> D]
  <2> SUFFICES ASSUME NEW k \in C PROVE k - 1 \in D
    BY Zenon
  <2>1. k # 0
    OBVIOUS
  <2>2. k - 1 \in 0 .. m /\ k - 1 # m
    BY <2>1
  <2>3. k - 1 \notin T
    <3>1. k - 1 \in 0 .. n - 1 /\ k - 1 + 1 = k
      BY <2>2
    <3> QED
      BY <3>1
  <2> QED
    BY <2>2, <2>3
<1>4. \E x, y \in C : x # y /\ f[x] = f[y]
  <2> HIDE DEF f, C, D
  <2>1. Cardinality(D) < Cardinality(C)
    BY <1>2
  <2> QED
    BY <1>1, <1>2, <1>3, <2>1, FS_PigeonHole
<1> QED
  BY <1>4

\* A set of naturals has a least element: what Leftmost chooses.
LEMMA LeftmostIsLeast ==
    ASSUME NEW n \in Nat, NEW places \in SUBSET (1 .. n), places # {}
    PROVE  /\ Leftmost(places) \in places
           /\ \A j \in places : Leftmost(places) <= j
<1>1. \E i \in places : \A j \in places : i <= j
  <2> SUFFICES ASSUME \A i \in places : \E j \in places : j < i
               PROVE  FALSE
    OBVIOUS
  <2> DEFINE T == {k \in 0 .. n : \A j \in places : k < j}
  <2>1. 0 \in T
    OBVIOUS
  <2>2. \A k \in 0 .. n - 1 : k \in T => k + 1 \in T
    <3> SUFFICES ASSUME NEW k \in 0 .. n - 1, k \in T, NEW j \in places, ~ (k + 1 < j)
                 PROVE  FALSE
      OBVIOUS
    <3>1. j = k + 1
      OBVIOUS
    <3>2. PICK i \in places : i < j
      OBVIOUS
    <3> QED
      BY <3>1, <3>2
  <2> HIDE DEF T
  <2>3. n \in T
    BY <2>1, <2>2, Induction
  <2>4. PICK j \in places : TRUE
    OBVIOUS
  <2>5. n < j /\ j \in 1 .. n
    BY <2>3, <2>4 DEF T
  <2> QED
    BY <2>5
<1> QED
  BY <1>1 DEF Leftmost

-----------------------------------------------------------------------------
(* Sequences of sequences, one after the other *)

\* What FlattenSeq computes, up to its first k members.
Flattens(f, seqs, k) ==
    f = [i \in 1 .. k |-> IF i = 1 THEN seqs[i] ELSE f[i-1] \o seqs[i]]

LEMMA FlattensLonger ==
    ASSUME NEW seqs, NEW k \in Nat, NEW f, Flattens(f, seqs, k)
    PROVE  \E g : Flattens(g, seqs, k + 1)
<1> DEFINE g == [i \in 1 .. k + 1 |-> IF i = 1 THEN seqs[i] ELSE f[i-1] \o seqs[i]]
<1>1. \A i \in 1 .. k : f[i] = IF i = 1 THEN seqs[i] ELSE f[i-1] \o seqs[i]
  BY DEF Flattens
<1>2. \A i \in 1 .. k : g[i] = f[i]
  BY <1>1
<1>3. \A i \in 1 .. k + 1 : g[i] = IF i = 1 THEN seqs[i] ELSE g[i-1] \o seqs[i]
  <2> SUFFICES ASSUME NEW i \in 1 .. k + 1, i # 1
               PROVE  g[i] = g[i-1] \o seqs[i]
    OBVIOUS
  <2>1. i - 1 \in 1 .. k
    OBVIOUS
  <2>2. g[i] = f[i-1] \o seqs[i]
    OBVIOUS
  <2> QED
    BY <1>2, <2>1, <2>2
<1>4. g = [i \in 1 .. k + 1 |-> g[i]]
  OBVIOUS
<1> HIDE DEF g
<1>5. g = [i \in 1 .. k + 1 |-> IF i = 1 THEN seqs[i] ELSE g[i-1] \o seqs[i]]
  BY <1>3, <1>4
<1> QED
  BY <1>5 DEF Flattens

LEMMA FlattensIsDefined ==
    ASSUME NEW seqs, NEW n \in Nat
    PROVE  \E f : Flattens(f, seqs, n)
<1> DEFINE T == {k \in 0 .. n : \E f : Flattens(f, seqs, k)}
<1>1. 0 \in T
  <2>1. Flattens(<<>>, seqs, 0)
    BY DEF Flattens
  <2> QED
    BY <2>1
<1>2. \A k \in 0 .. n - 1 : k \in T => k + 1 \in T
  BY FlattensLonger
<1> HIDE DEF T
<1>3. n \in T
  BY <1>1, <1>2, Induction
<1> QED
  BY <1>3 DEF T

LEMMA FlattensIs ==
    ASSUME NEW seqs, Len(seqs) \in Nat, Len(seqs) # 0
    PROVE  \E f : Flattens(f, seqs, Len(seqs)) /\ FlattenSeq(seqs) = f[Len(seqs)]
<1> DEFINE f == CHOOSE g : Flattens(g, seqs, Len(seqs))
<1>1. Flattens(f, seqs, Len(seqs))
  BY FlattensIsDefined
<1>2. FlattenSeq(seqs) = f[Len(seqs)]
  BY DEF FlattenSeq, Flattens
<1> QED
  BY <1>1, <1>2

Text == Seq(Bytes)

LEMMA TextFacts ==
    /\ \A a, b \in Text : a \o b \in Text
    /\ \A a, b, c \in Text : (a \o b) \o c = a \o (b \o c)
<1>1. \A a, b \in Text : a \o b \in Text
  BY ConcatProperties DEF Text
<1>2. ASSUME NEW a \in Text, NEW b \in Text, NEW c \in Text
      PROVE  (a \o b) \o c = a \o (b \o c)
  BY ConcatAssociative DEF Text
<1> QED
  BY <1>1, <1>2

\* The first i of the n members of seqs make f[i].
Runs(f, seqs, n) ==
    \A i \in 1 .. n : /\ seqs[i] \in Text /\ f[i] \in Text
                      /\ f[i] = IF i = 1 THEN seqs[i] ELSE f[i-1] \o seqs[i]

LEMMA FlattenRuns ==
    ASSUME NEW seqs \in Seq(Text), Len(seqs) # 0
    PROVE  \E f : Runs(f, seqs, Len(seqs)) /\ FlattenSeq(seqs) = f[Len(seqs)]
<1>0. PICK n \in Nat : n = Len(seqs)
  OBVIOUS
<1>1. PICK f : Flattens(f, seqs, n) /\ FlattenSeq(seqs) = f[n]
  BY <1>0, FlattensIs
<1>2. \A i \in 1 .. n : seqs[i] \in Text
  BY <1>0
<1>3. \A i \in 1 .. n : f[i] = IF i = 1 THEN seqs[i] ELSE f[i-1] \o seqs[i]
  BY <1>1 DEF Flattens
<1> DEFINE T == {k \in 0 .. n : k = 0 \/ f[k] \in Text}
<1>4. ASSUME NEW k \in 0 .. n - 1, k = 0 \/ f[k] \in Text
      PROVE  f[k + 1] \in Text
  <2>1. k + 1 \in 1 .. n /\ (k + 1) - 1 = k
    OBVIOUS
  <2>2. CASE k = 0
    BY <1>2, <1>3, <2>1, <2>2
  <2>3. CASE k # 0
    <3>1. f[k + 1] = f[(k + 1) - 1] \o seqs[k + 1]
      <4>1. k + 1 # 1
        BY <2>3
      <4> QED
        BY <1>3, <2>1, <4>1
    <3>2. f[k + 1] = f[k] \o seqs[k + 1] /\ seqs[k + 1] \in Text
      BY <1>2, <2>1, <3>1
    <3> QED
      BY <1>4, <2>3, <3>2, TextFacts
  <2> QED
    BY <2>2, <2>3
<1>5. 0 \in T /\ \A k \in 0 .. n - 1 : k \in T => k + 1 \in T
  BY <1>4
<1> HIDE DEF T
<1>6. \A k \in 0 .. n : k \in T
  BY <1>5, Induction
<1>7. \A i \in 1 .. n : f[i] \in Text
  BY <1>6 DEF T
<1> QED
  BY <1>0, <1>1, <1>2, <1>3, <1>7 DEF Runs

LEMMA FlattenType ==
    ASSUME NEW seqs \in Seq(Text)
    PROVE  FlattenSeq(seqs) \in Text
<1>1. CASE Len(seqs) = 0
  <2>1. seqs = <<>>
    BY <1>1
  <2> QED
    BY <1>1, <2>1 DEF FlattenSeq, Text
<1>2. CASE Len(seqs) # 0
  <2>1. Len(seqs) \in 1 .. Len(seqs)
    BY <1>2
  <2> QED
    BY <1>2, <2>1, FlattenRuns DEF Runs
<1> QED
  BY <1>1, <1>2

\* g does so from a on.
RunsOn(g, a, seqs, n) ==
    g[1] = a /\ \A i \in 1 .. n : g[i + 1] = g[i] \o seqs[i]

\* What comes before all the sequences comes before any number of them.
LEMMA RunsBehind ==
    ASSUME NEW a \in Text, NEW n \in Nat, NEW s, NEW f, NEW g,
           Runs(f, s, n), RunsOn(g, a, s, n)
    PROVE  n = 0 \/ g[n + 1] = a \o f[n]
<1> DEFINE Follows(k) == k = 0 \/ g[k + 1] = a \o f[k]
           T == {k \in 0 .. n : Follows(k)}
<1>0. \A i \in 1 .. n : /\ s[i] \in Text /\ f[i] \in Text
                        /\ f[i] = IF i = 1 THEN s[i] ELSE f[i-1] \o s[i]
                        /\ g[i + 1] = g[i] \o s[i]
  BY DEF Runs, RunsOn
<1>1. Follows(0)
  OBVIOUS
<1>2. ASSUME NEW k \in 1 .. n, k = 1 \/ g[k] = a \o f[k-1]
      PROVE  g[k + 1] = a \o f[k]
  <2>1. CASE k = 1
    BY <1>0, <2>1 DEF RunsOn
  <2>2. CASE k # 1
    <3>1. k - 1 \in 1 .. n
      BY <2>2
    <3>2. PICK b, c, d : b = f[k-1] /\ c = s[k] /\ d = f[k]
      OBVIOUS
    <3>3. b \in Text /\ c \in Text /\ d = b \o c
      BY <1>0, <2>2, <3>1, <3>2
    <3>4. (a \o b) \o c = a \o d
      BY <3>3, TextFacts
    <3>5. g[k + 1] = (a \o b) \o c
      BY <1>0, <1>2, <2>2, <3>2
    <3> QED
      BY <3>2, <3>4, <3>5
  <2> QED
    BY <2>1, <2>2
<1>3. ASSUME NEW k \in 0 .. n - 1, Follows(k)
      PROVE  Follows(k + 1)
  <2>1. k + 1 \in 1 .. n /\ (k + 1) - 1 = k /\ (k = 0 => k + 1 = 1)
    OBVIOUS
  <2>2. k + 1 = 1 \/ g[k + 1] = a \o f[(k + 1) - 1]
    BY <1>3, <2>1
  <2> QED
    BY <1>2, <2>1, <2>2
<1> HIDE DEF Follows
<1>4. 0 \in T /\ \A k \in 0 .. n - 1 : k \in T => k + 1 \in T
  BY <1>1, <1>3
<1> HIDE DEF T
<1>5. \A k \in 0 .. n : k \in T
  BY <1>4, Induction
<1> QED
  BY <1>5 DEF T, Follows

\* The first sequence comes first, and the others follow.
LEMMA FlattenFirst ==
    ASSUME NEW a \in Text, NEW seqs \in Seq(Text)
    PROVE  FlattenSeq(<<a>> \o seqs) = a \o FlattenSeq(seqs)
<1>0. PICK n \in Nat : n = Len(seqs)
  OBVIOUS
<1>1. PICK all : all = <<a>> \o seqs
  OBVIOUS
<1>2. /\ all \in Seq(Text) /\ Len(all) = n + 1
      /\ all[1] = a
      /\ \A i \in 1 .. n : all[i + 1] = seqs[i] /\ seqs[i] \in Text
  <2>1. <<a>> \in Seq(Text) /\ Len(<<a>>) = 1 /\ <<a>>[1] = a
    OBVIOUS
  <2> QED
    BY <1>0, <1>1, <2>1, ConcatProperties, LenProperties
<1>3. PICK g : Runs(g, all, Len(all)) /\ FlattenSeq(all) = g[Len(all)]
  <2>1. Len(all) # 0
    BY <1>2
  <2> QED
    BY <1>2, <2>1, FlattenRuns
<1>4. g[1] = a
  BY <1>2, <1>3 DEF Runs
<1>5. \A i \in 1 .. n : g[i + 1] = g[i] \o seqs[i]
  <2> SUFFICES ASSUME NEW i \in 1 .. n PROVE g[i + 1] = g[i] \o seqs[i]
    OBVIOUS
  <2>1. i + 1 \in 1 .. n + 1 /\ i + 1 # 1 /\ (i + 1) - 1 = i
    OBVIOUS
  <2>2. g[i + 1] = g[(i + 1) - 1] \o all[i + 1]
    BY <1>2, <1>3, <2>1 DEF Runs
  <2> QED
    BY <1>2, <2>1, <2>2
<1>6. FlattenSeq(all) = g[n + 1]
  BY <1>2, <1>3
<1>7. CASE n = 0
  <2>1. FlattenSeq(seqs) = <<>>
    <3>1. seqs = <<>>
      BY <1>0, <1>7, EmptySeq
    <3> QED
      BY <3>1 DEF FlattenSeq
  <2>2. a \o <<>> = a
    BY ConcatEmptySeq DEF Text
  <2> QED
    BY <1>1, <1>4, <1>6, <1>7, <2>1, <2>2
<1>8. CASE n # 0
  <2>1. PICK f : Runs(f, seqs, n) /\ FlattenSeq(seqs) = f[n]
    BY <1>0, <1>8, FlattenRuns
  <2>2. n = 0 \/ g[n + 1] = a \o f[n]
    <3>1. RunsOn(g, a, seqs, n)
      BY <1>4, <1>5 DEF RunsOn
    <3> QED
      BY <2>1, <3>1, RunsBehind
  <2> QED
    BY <1>1, <1>6, <1>8, <2>1, <2>2
<1> QED
  BY <1>7, <1>8

-----------------------------------------------------------------------------
(* Delimiters *)

EndsAt(b, i) == b[i] = "#" /\ b[i + 1] = "t" /\ b[i + 2] = "#"

LEMMA DelimiterFacts ==
    /\ Delimiter \in Text /\ Len(Delimiter) = 3
    /\ Delimiter[1] = "#" /\ Delimiter[2] = "t" /\ Delimiter[3] = "#"
  BY DEF Delimiter, Text, Bytes

LEMMA EndedFacts ==
    ASSUME NEW x \in Text
    PROVE  x \o Delimiter \in Text /\ Len(x \o Delimiter) = Len(x) + 3
<1>1. /\ x \o Delimiter \in Seq(Bytes)
      /\ Len(x \o Delimiter) = Len(x) + Len(Delimiter)
  BY DelimiterFacts, ConcatProperties DEF Text
<1> QED
  BY <1>1, DelimiterFacts DEF Text

LEMMA DelimitersAre ==
    ASSUME NEW b \in Text, NEW from \in Nat \ {0}
    PROVE  /\ \A i : i \in DelimitersFrom(b, from) <=> i \in from .. Len(b) - 2 /\ EndsAt(b, i)
           /\ \A i \in 1 .. Len(b) - 2 : EndsAt(b, i) => SubSeq(b, i, i + 2) = Delimiter
<1>1. ASSUME NEW i \in 1 .. Len(b) - 2
      PROVE  SubSeq(b, i, i + 2) = Delimiter <=> EndsAt(b, i)
  <2>1. /\ SubSeq(b, i, i + 2) \in Seq(Bytes)
        /\ Len(SubSeq(b, i, i + 2)) = 3
        /\ \A j \in 1 .. 3 : SubSeq(b, i, i + 2)[j] = b[i + j - 1]
    <3>1. b \in Seq(Bytes) /\ \A j \in i .. i + 2 : b[j] \in Bytes
      BY DEF Text
    <3>2. i \in Int /\ i + 2 \in Int /\ (i + 2) - i + 1 = 3 /\ i <= i + 2
      OBVIOUS
    <3> QED
      BY <3>1, <3>2, SubSeqProperties
  <2>2. /\ SubSeq(b, i, i + 2)[1] = b[i]
        /\ SubSeq(b, i, i + 2)[2] = b[i + 1]
        /\ SubSeq(b, i, i + 2)[3] = b[i + 2]
    BY <2>1
  <2> DEFINE w == SubSeq(b, i, i + 2)
  <2>3. w \in Seq(Bytes) /\ Len(w) = 3 /\ w[1] = b[i] /\ w[2] = b[i + 1] /\ w[3] = b[i + 2]
    BY <2>1, <2>2
  <2> HIDE DEF w
  <2>4. w = Delimiter <=> w[1] = "#" /\ w[2] = "t" /\ w[3] = "#"
    <3>1. ASSUME w[1] = "#", w[2] = "t", w[3] = "#" PROVE w = Delimiter
      <4>1. w = [j \in 1 .. 3 |-> w[j]]
        BY <2>3
      <4> QED
        BY <2>3, <3>1, <4>1 DEF Delimiter
    <3> QED
      BY <3>1, DelimiterFacts
  <2> QED
    BY <2>3, <2>4 DEF w, EndsAt
<1> QED
  BY <1>1 DEF DelimitersFrom

\* Windows of a piece are windows of the whole.
LEMMA DelimitersOfPiece ==
    ASSUME NEW b \in Text, NEW s \in 1 .. Len(b) + 1, NEW e \in s - 1 .. Len(b)
    PROVE  /\ SubSeq(b, s, e) \in Text
           /\ Len(SubSeq(b, s, e)) = e - s + 1
           /\ \A i : i \in DelimitersFrom(SubSeq(b, s, e), 1) <=>
                        i \in 1 .. e - s - 1 /\ EndsAt(b, s + i - 1)
<1> DEFINE w == SubSeq(b, s, e)
<1>1. /\ w \in Text /\ Len(w) = e - s + 1
      /\ \A i \in 1 .. e - s + 1 : w[i] = b[s + i - 1]
  <2>1. b \in Seq(Bytes) /\ \A j \in s .. e : b[j] \in Bytes
    BY DEF Text
  <2>2. s \in Int /\ e \in Int
    BY DEF Text
  <2>3. /\ w \in Seq(Bytes)
        /\ Len(w) = IF s <= e THEN e - s + 1 ELSE 0
        /\ \A i \in 1 .. e - s + 1 : w[i] = b[s + i - 1]
    BY <2>1, <2>2, SubSeqProperties
  <2> QED
    BY <2>3 DEF Text
<1> HIDE DEF w
<1>2. \A i : i \in DelimitersFrom(w, 1) <=> i \in 1 .. Len(w) - 2 /\ EndsAt(w, i)
  BY <1>1, DelimitersAre
<1>3. ASSUME NEW i \in 1 .. e - s - 1
      PROVE  EndsAt(w, i) <=> EndsAt(b, s + i - 1)
  <2>1. /\ i \in 1 .. e - s + 1 /\ i + 1 \in 1 .. e - s + 1 /\ i + 2 \in 1 .. e - s + 1
        /\ s + (i + 1) - 1 = (s + i - 1) + 1 /\ s + (i + 2) - 1 = (s + i - 1) + 2
    OBVIOUS
  <2>2. w[i] = b[s + i - 1] /\ w[i + 1] = b[(s + i - 1) + 1] /\ w[i + 2] = b[(s + i - 1) + 2]
    BY <1>1, <2>1
  <2> QED
    BY <2>2 DEF EndsAt
<1>4. Len(w) - 2 = e - s - 1
  BY <1>1
<1> QED
  BY <1>1, <1>2, <1>3, <1>4 DEF w

-----------------------------------------------------------------------------
(* Frames and the rest *)

Ended(fs) == [i \in DOMAIN fs |-> fs[i] \o Delimiter]

\* Each frame ends at the first delimiter there is, and the rest has none.
Tiles(fs, rest, b) ==
    /\ fs \in Seq(Text) /\ rest \in Text
    /\ b = FlattenSeq(Ended(fs)) \o rest
    /\ \A i \in DOMAIN fs : DelimitersFrom(fs[i] \o Delimiter, 1) = {Len(fs[i]) + 1}
    /\ DelimitersFrom(rest, 1) = {}

LEMMA TilesNone ==
    ASSUME NEW b \in Text, DelimitersFrom(b, 1) = {}
    PROVE  Tiles(<<>>, b, b)
<1>1. Ended(<<>>) = <<>>
  BY DEF Ended
<1>2. FlattenSeq(<<>>) = <<>>
  BY DEF FlattenSeq
<1>3. <<>> \o b = b
  BY ConcatEmptySeq DEF Text
<1>4. <<>> \in Seq(Text) /\ DOMAIN <<>> = {}
  OBVIOUS
<1>5. FlattenSeq(Ended(<<>>)) \o b = b
  BY <1>1, <1>2, <1>3
<1> QED
  BY <1>4, <1>5 DEF Tiles

LEMMA EndedMore ==
    ASSUME NEW x \in Text, NEW fs \in Seq(Text)
    PROVE  /\ <<x>> \o fs \in Seq(Text)
           /\ Len(<<x>> \o fs) = Len(fs) + 1
           /\ (<<x>> \o fs)[1] = x
           /\ \A i \in 1 .. Len(fs) : (<<x>> \o fs)[i + 1] = fs[i]
           /\ Ended(fs) \in Seq(Text)
           /\ Ended(<<x>> \o fs) = <<x \o Delimiter>> \o Ended(fs)
<1>1. PICK all : all = <<x>> \o fs
  OBVIOUS
<1>2. /\ all \in Seq(Text) /\ Len(all) = Len(fs) + 1
      /\ all[1] = x
      /\ \A i \in 1 .. Len(fs) : all[i + 1] = fs[i]
  <2>1. <<x>> \in Seq(Text) /\ Len(<<x>>) = 1 /\ <<x>>[1] = x
    OBVIOUS
  <2> QED
    BY <1>1, <2>1, ConcatProperties, LenProperties
<1>3. \A gs \in Seq(Text) : /\ Ended(gs) \in Seq(Text) /\ Len(Ended(gs)) = Len(gs)
                            /\ \A i \in 1 .. Len(gs) : Ended(gs)[i] = gs[i] \o Delimiter
  <2> SUFFICES ASSUME NEW gs \in Seq(Text)
               PROVE  /\ Ended(gs) \in Seq(Text) /\ Len(Ended(gs)) = Len(gs)
                      /\ \A i \in 1 .. Len(gs) : Ended(gs)[i] = gs[i] \o Delimiter
    OBVIOUS
  <2>1. \A i \in 1 .. Len(gs) : gs[i] \o Delimiter \in Text
    <3>1. \A a : a \in Text => a \o Delimiter \in Text
      BY TextFacts, DelimiterFacts
    <3> QED
      BY <3>1
  <2>2. Ended(gs) = [i \in 1 .. Len(gs) |-> gs[i] \o Delimiter]
    BY DEF Ended
  <2> QED
    BY <2>1, <2>2
<1>4. PICK e : e = <<x \o Delimiter>> \o Ended(fs)
  OBVIOUS
<1>5. /\ e \in Seq(Text) /\ Len(e) = Len(fs) + 1
      /\ e[1] = x \o Delimiter
      /\ \A i \in 1 .. Len(fs) : e[i + 1] = fs[i] \o Delimiter
  <2>1. PICK y \in Text : y = x \o Delimiter
    BY TextFacts, DelimiterFacts
  <2>2. <<y>> \in Seq(Text) /\ Len(<<y>>) = 1 /\ <<y>>[1] = y
    OBVIOUS
  <2>3. PICK w \in Seq(Text) : w = Ended(fs)
    BY <1>3
  <2>4. Len(w) = Len(fs) /\ \A i \in 1 .. Len(fs) : w[i] = fs[i] \o Delimiter
    BY <1>3, <2>3
  <2>5. e = <<y>> \o w
    BY <1>4, <2>1, <2>3
  <2>6. /\ e \in Seq(Text) /\ Len(e) = Len(w) + 1
        /\ e[1] = y
        /\ \A i \in 1 .. Len(w) : e[i + 1] = w[i]
    BY <2>2, <2>5, ConcatProperties, LenProperties
  <2> QED
    BY <2>1, <2>4, <2>6
<1>6. Ended(all) = e
  <2>1. /\ Ended(all) \in Seq(Text) /\ Len(Ended(all)) = Len(fs) + 1
        /\ \A i \in 1 .. Len(fs) + 1 : Ended(all)[i] = all[i] \o Delimiter
    BY <1>2, <1>3
  <2>2. ASSUME NEW i \in 1 .. Len(fs) + 1 PROVE Ended(all)[i] = e[i]
    <3>1. CASE i = 1
      BY <1>2, <1>5, <2>1, <3>1
    <3>2. CASE i # 1
      <4>1. PICK j \in 1 .. Len(fs) : i = j + 1
        BY <3>2
      <4> QED
        BY <1>2, <1>5, <2>1, <4>1
    <3> QED
      BY <3>1, <3>2
  <2> QED
    BY <1>5, <2>1, <2>2, SeqEqual
<1> QED
  BY <1>1, <1>2, <1>3, <1>4, <1>6

LEMMA TilesMore ==
    ASSUME NEW x \in Text, DelimitersFrom(x \o Delimiter, 1) = {Len(x) + 1},
           NEW fs, NEW rest, NEW c, Tiles(fs, rest, c)
    PROVE  Tiles(<<x>> \o fs, rest, (x \o Delimiter) \o c)
<1>1. /\ fs \in Seq(Text) /\ rest \in Text
      /\ c = FlattenSeq(Ended(fs)) \o rest
      /\ \A i \in 1 .. Len(fs) : DelimitersFrom(fs[i] \o Delimiter, 1) = {Len(fs[i]) + 1}
      /\ DelimitersFrom(rest, 1) = {}
  BY DEF Tiles
<1>2. PICK all : all = <<x>> \o fs
  OBVIOUS
<1>3. /\ all \in Seq(Text) /\ Len(all) = Len(fs) + 1
      /\ all[1] = x
      /\ \A i \in 1 .. Len(fs) : all[i + 1] = fs[i]
      /\ Ended(fs) \in Seq(Text)
      /\ Ended(all) = <<x \o Delimiter>> \o Ended(fs)
  <2>1. /\ <<x>> \o fs \in Seq(Text)
        /\ Len(<<x>> \o fs) = Len(fs) + 1
        /\ (<<x>> \o fs)[1] = x
        /\ \A i \in 1 .. Len(fs) : (<<x>> \o fs)[i + 1] = fs[i]
        /\ Ended(fs) \in Seq(Text)
        /\ Ended(<<x>> \o fs) = <<x \o Delimiter>> \o Ended(fs)
    BY <1>1, EndedMore
  <2> QED
    BY <1>2, <2>1
<1>4. PICK y : y = x \o Delimiter
  OBVIOUS
<1>5. y \in Text
  BY <1>4, TextFacts, DelimiterFacts
<1>6. FlattenSeq(Ended(all)) = y \o FlattenSeq(Ended(fs))
  BY <1>3, <1>4, <1>5, FlattenFirst
<1>7. FlattenSeq(Ended(all)) \o rest = y \o c
  <2>1. PICK z : z = FlattenSeq(Ended(fs))
    OBVIOUS
  <2>2. z \in Text
    BY <1>3, <2>1, FlattenType
  <2>3. (y \o z) \o rest = y \o (z \o rest)
    BY <1>1, <1>5, <2>2, TextFacts
  <2> QED
    BY <1>1, <1>6, <2>1, <2>3
<1>8. ASSUME NEW i \in DOMAIN all
      PROVE  DelimitersFrom(all[i] \o Delimiter, 1) = {Len(all[i]) + 1}
  <2>1. CASE i = 1
    BY <1>3, <2>1
  <2>2. CASE i # 1
    <3>1. i \in 1 .. Len(fs) + 1 /\ Len(fs) \in Nat
      BY <1>1, <1>3
    <3>2. PICK j \in 1 .. Len(fs) : i = j + 1
      <4>1. i - 1 \in 1 .. Len(fs) /\ i = (i - 1) + 1
        BY <2>2, <3>1
      <4> QED
        BY <4>1
    <3> QED
      BY <1>1, <1>3, <3>2
  <2> QED
    BY <2>1, <2>2
<1> QED
  BY <1>1, <1>2, <1>3, <1>4, <1>7, <1>8 DEF Tiles

-----------------------------------------------------------------------------
(* The loop of push *)

\* What the loop makes of the bytes from start, given what it makes of those
\* after the first frame.
Scanned(f, b, start) ==
    LET places == DelimitersFrom(b, start)
        at == Leftmost(places)
        more == f[NextFrame(at)]
    IN  IF places = {}
        THEN [frames |-> <<>>, start |-> start, fits |-> TRUE]
        ELSE [frames |-> <<SubSeq(b, start, at - 1)>> \o more.frames,
              start |-> more.start,
              fits |-> at - 1 <= MaxFrame /\ more.fits]

Scans(f, b, from) == f = [start \in from .. Len(b) + 1 |-> Scanned(f, b, start)]

\* The first delimiter from start on, if there is one.
LEMMA FirstDelimiter ==
    ASSUME NEW b \in Text, NEW start \in 1 .. Len(b) + 1, DelimitersFrom(b, start) # {}
    PROVE  LET at == Leftmost(DelimitersFrom(b, start))
           IN  /\ at \in start .. Len(b) - 2 /\ EndsAt(b, at)
               /\ \A i \in start .. at - 1 : ~ EndsAt(b, i)
               /\ NextFrame(at) \in start + 1 .. Len(b) + 1
               /\ NextFrame(at) = at + 3
<1> DEFINE places == DelimitersFrom(b, start)
           at == Leftmost(places)
<1>1. /\ Len(b) \in Nat /\ start \in Nat \ {0}
      /\ \A i : i \in places <=> i \in start .. Len(b) - 2 /\ EndsAt(b, i)
  BY DelimitersAre DEF Text
<1>2. places \in SUBSET (1 .. Len(b))
  BY <1>1
<1>3. at \in places /\ \A j \in places : at <= j
  <2> HIDE DEF places
  <2> QED
    BY <1>1, <1>2, LeftmostIsLeast DEF places
<1> HIDE DEF at, places
<1>4. at \in start .. Len(b) - 2 /\ EndsAt(b, at)
  BY <1>1, <1>3
<1>5. \A i \in start .. at - 1 : ~ EndsAt(b, i)
  <2> SUFFICES ASSUME NEW i \in start .. at - 1, EndsAt(b, i)
               PROVE  FALSE
    OBVIOUS
  <2>1. i \in start .. Len(b) - 2 /\ ~ (at <= i)
    BY <1>1, <1>4
  <2> QED
    BY <1>1, <1>3, <2>1
<1>6. NextFrame(at) = at + 3
  BY DelimiterFacts DEF NextFrame
<1>7. NextFrame(at) \in start + 1 .. Len(b) + 1
  BY <1>1, <1>4, <1>6
<1> QED
  BY <1>4, <1>5, <1>6, <1>7 DEF at, places

LEMMA ScansLonger ==
    ASSUME NEW b \in Text, NEW from \in 1 .. Len(b) + 1, NEW f, Scans(f, b, from + 1)
    PROVE  \E g : Scans(g, b, from)
<1> DEFINE g == [start \in from .. Len(b) + 1 |-> Scanned(f, b, start)]
<1>1. Len(b) \in Nat
  BY DEF Text
<1>2. \A start \in from + 1 .. Len(b) + 1 : f[start] = Scanned(f, b, start)
  BY DEF Scans
<1>3. \A start \in from .. Len(b) + 1 : g[start] = Scanned(f, b, start)
  OBVIOUS
<1>4. \A start \in from + 1 .. Len(b) + 1 : g[start] = f[start]
  BY <1>2, <1>3
<1>5. g = [start \in from .. Len(b) + 1 |-> g[start]]
  OBVIOUS
<1> HIDE DEF g
<1>6. ASSUME NEW start \in from .. Len(b) + 1
      PROVE  Scanned(g, b, start) = Scanned(f, b, start)
  <2>1. CASE DelimitersFrom(b, start) = {}
    BY <2>1 DEF Scanned
  <2>2. CASE DelimitersFrom(b, start) # {}
    <3>1. start \in 1 .. Len(b) + 1
      BY <1>1
    <3>2. NextFrame(Leftmost(DelimitersFrom(b, start))) \in start + 1 .. Len(b) + 1
      BY <2>2, <3>1, FirstDelimiter
    <3>3. NextFrame(Leftmost(DelimitersFrom(b, start))) \in from + 1 .. Len(b) + 1
      BY <1>1, <3>2
    <3>4. PICK n : n = NextFrame(Leftmost(DelimitersFrom(b, start)))
      OBVIOUS
    <3>5. g[n] = f[n]
      BY <1>4, <3>3, <3>4
    <3> QED
      BY <2>2, <3>4, <3>5 DEF Scanned
  <2> QED
    BY <2>1, <2>2
<1>7. \A start \in from .. Len(b) + 1 : g[start] = Scanned(g, b, start)
  BY <1>3, <1>6
<1>8. g = [start \in from .. Len(b) + 1 |-> Scanned(g, b, start)]
  BY <1>5, <1>7
<1> QED
  BY <1>8 DEF Scans

LEMMA SplitIs ==
    ASSUME NEW b \in Text
    PROVE  \E f : Scans(f, b, 1) /\ Split(b) = f[1]
<1>1. PICK n \in Nat : n = Len(b) + 1
  BY DEF Text
<1> DEFINE T == {k \in 0 .. n : \E f : Scans(f, b, n + 1 - k)}
<1>2. 0 \in T
  <2>1. Scans(<<>>, b, n + 1)
    BY <1>1 DEF Scans
  <2>2. n + 1 - 0 = n + 1
    OBVIOUS
  <2> QED
    BY <2>1, <2>2
<1>3. ASSUME NEW k \in 0 .. n - 1, \E f : Scans(f, b, n + 1 - k)
      PROVE  \E f : Scans(f, b, n + 1 - (k + 1))
  <2>1. PICK from \in 1 .. Len(b) + 1 : from = n + 1 - (k + 1) /\ from + 1 = n + 1 - k
    <3>1. n + 1 - (k + 1) \in 1 .. n /\ (n + 1 - (k + 1)) + 1 = n + 1 - k
      OBVIOUS
    <3> QED
      BY <1>1, <3>1
  <2>2. PICK f : Scans(f, b, from + 1)
    BY <1>3, <2>1
  <2> QED
    BY <2>1, <2>2, ScansLonger
<1>4. \A k \in 0 .. n - 1 : k \in T => k + 1 \in T
  BY <1>3
<1> HIDE DEF T
<1>5. \A k \in 0 .. n : k \in T
  BY <1>2, <1>4, Induction
<1>6. \E f : Scans(f, b, 1)
  <2>1. n \in 0 .. n /\ n + 1 - n = 1
    OBVIOUS
  <2> QED
    BY <1>5, <2>1 DEF T
<1> DEFINE f == CHOOSE f : Scans(f, b, 1)
<1>7. Scans(f, b, 1)
  BY <1>6
<1>8. Split(b) = f[1]
  BY DEF Split, Scans, Scanned
<1> QED
  BY <1>7, <1>8

\* From start on: the frames tile the bytes, up to the rest.
ScannedRight(r, b, start) ==
    /\ r.start \in 1 .. Len(b) + 1
    /\ Tiles(r.frames, SubSeq(b, r.start, Len(b)), SubSeq(b, start, Len(b)))

LEMMA ScannedEnd ==
    ASSUME NEW b \in Text, NEW start \in 1 .. Len(b) + 1, DelimitersFrom(b, start) = {}
    PROVE  Tiles(<<>>, SubSeq(b, start, Len(b)), SubSeq(b, start, Len(b)))
<1>1. /\ Len(b) \in Nat /\ start \in Nat \ {0}
      /\ \A i \in start .. Len(b) - 2 : ~ EndsAt(b, i)
  BY DelimitersAre DEF Text
<1>2. Len(b) \in start - 1 .. Len(b)
  BY <1>1
<1> DEFINE w == SubSeq(b, start, Len(b))
<1>3. /\ w \in Text
      /\ \A i : i \in DelimitersFrom(w, 1) <=>
                   i \in 1 .. Len(b) - start - 1 /\ EndsAt(b, start + i - 1)
  BY <1>2, DelimitersOfPiece
<1> HIDE DEF w
<1>4. ASSUME NEW i \in 1 .. Len(b) - start - 1
      PROVE  ~ EndsAt(b, start + i - 1)
  <2>1. start + i - 1 \in start .. Len(b) - 2
    BY <1>1
  <2> QED
    BY <1>1, <2>1
<1>5. DelimitersFrom(w, 1) = {}
  BY <1>3, <1>4
<1> QED
  BY <1>3, <1>5, TilesNone DEF w

\* A frame with its delimiter has no other.
LEMMA ScannedFrame ==
    ASSUME NEW b \in Text, NEW s \in 1 .. Len(b) + 1, NEW at \in s .. Len(b) - 2,
           EndsAt(b, at), \A i \in s .. at - 1 : ~ EndsAt(b, i)
    PROVE  LET x == SubSeq(b, s, at - 1)
           IN  /\ x \in Text
               /\ DelimitersFrom(x \o Delimiter, 1) = {Len(x) + 1}
               /\ (x \o Delimiter) \o SubSeq(b, at + 3, Len(b)) = SubSeq(b, s, Len(b))
<1>1. PICK x : x = SubSeq(b, s, at - 1)
  OBVIOUS
<1>2. /\ Len(b) \in Nat /\ b \in Seq(Bytes)
      /\ s \in Nat \ {0} /\ at \in Nat
  BY DEF Text
<1>3. x \in Text /\ Len(x) = at - s
  <2>1. at - 1 \in s - 1 .. Len(b) /\ (at - 1) - s + 1 = at - s
    BY <1>2
  <2> QED
    BY <1>1, <2>1, DelimitersOfPiece
<1>4. x \o Delimiter = SubSeq(b, s, at + 2)
  <2>1. SubSeq(b, at, at + 2) = Delimiter
    <3>1. at \in 1 .. Len(b) - 2 /\ 1 \in Nat \ {0}
      BY <1>2
    <3> QED
      BY <3>1, DelimitersAre
  <2>2. SubSeq(b, s, at - 1) \o SubSeq(b, (at - 1) + 1, at + 2) = SubSeq(b, s, at + 2)
    <3>1. at - 1 \in s - 1 .. Len(b) /\ at + 2 \in at - 1 .. Len(b)
      BY <1>2
    <3> QED
      BY <1>2, <3>1, ConcatAdjacentSubSeq
  <2>3. (at - 1) + 1 = at
    BY <1>2
  <2> QED
    BY <1>1, <2>1, <2>2, <2>3
<1>5. DelimitersFrom(x \o Delimiter, 1) = {Len(x) + 1}
  <2>1. at + 2 \in s - 1 .. Len(b) /\ (at + 2) - s - 1 = at - s + 1
    BY <1>2
  <2>2. \A i : i \in DelimitersFrom(SubSeq(b, s, at + 2), 1) <=>
                  i \in 1 .. at - s + 1 /\ EndsAt(b, s + i - 1)
    BY <2>1, DelimitersOfPiece
  <2>3. ASSUME NEW i \in 1 .. at - s + 1
        PROVE  EndsAt(b, s + i - 1) <=> i = at - s + 1
    <3>1. CASE i = at - s + 1
      <4>1. s + i - 1 = at
        BY <1>2, <3>1
      <4> QED
        BY <3>1, <4>1
    <3>2. CASE i # at - s + 1
      <4>1. s + i - 1 \in s .. at - 1
        BY <1>2, <3>2
      <4> QED
        BY <3>2, <4>1
    <3> QED
      BY <3>1, <3>2
  <2>4. at - s + 1 \in 1 .. at - s + 1
    BY <1>2
  <2>5. DelimitersFrom(SubSeq(b, s, at + 2), 1) = {at - s + 1}
    BY <2>2, <2>3, <2>4
  <2> QED
    BY <1>3, <1>4, <2>5
<1>6. (x \o Delimiter) \o SubSeq(b, at + 3, Len(b)) = SubSeq(b, s, Len(b))
  <2>1. at + 2 \in s - 1 .. Len(b) /\ Len(b) \in at + 2 .. Len(b) /\ (at + 2) + 1 = at + 3
    BY <1>2
  <2>2. SubSeq(b, s, at + 2) \o SubSeq(b, (at + 2) + 1, Len(b)) = SubSeq(b, s, Len(b))
    BY <1>2, <2>1, ConcatAdjacentSubSeq
  <2> QED
    BY <1>4, <2>1, <2>2
<1> QED
  BY <1>1, <1>3, <1>5, <1>6

LEMMA ScannedStep ==
    ASSUME NEW b \in Text, NEW start \in 1 .. Len(b) + 1, NEW f,
           \A s \in start + 1 .. Len(b) + 1 : ScannedRight(f[s], b, s),
           f[start] = Scanned(f, b, start)
    PROVE  ScannedRight(f[start], b, start)
<1>1. Len(b) \in Nat /\ start \in Nat
  BY DEF Text
<1>2. CASE DelimitersFrom(b, start) = {}
  <2>1. f[start].frames = <<>> /\ f[start].start = start
    BY <1>2 DEF Scanned
  <2>2. Tiles(<<>>, SubSeq(b, start, Len(b)), SubSeq(b, start, Len(b)))
    BY <1>2, ScannedEnd
  <2> QED
    BY <2>1, <2>2 DEF ScannedRight
<1>3. CASE DelimitersFrom(b, start) # {}
  <2>1. PICK at : at = Leftmost(DelimitersFrom(b, start))
    OBVIOUS
  <2>2. /\ at \in start .. Len(b) - 2 /\ EndsAt(b, at)
        /\ \A i \in start .. at - 1 : ~ EndsAt(b, i)
        /\ NextFrame(at) \in start + 1 .. Len(b) + 1
        /\ NextFrame(at) = at + 3
    BY <1>3, <2>1, FirstDelimiter
  <2>3. PICK x : x = SubSeq(b, start, at - 1)
    OBVIOUS
  <2>4. /\ x \in Text
        /\ DelimitersFrom(x \o Delimiter, 1) = {Len(x) + 1}
        /\ (x \o Delimiter) \o SubSeq(b, at + 3, Len(b)) = SubSeq(b, start, Len(b))
    BY <2>2, <2>3, ScannedFrame
  <2>5. PICK more : more = f[NextFrame(at)]
    OBVIOUS
  <2>6. f[start].frames = <<x>> \o more.frames /\ f[start].start = more.start
    BY <1>3, <2>1, <2>3, <2>5 DEF Scanned
  <2>7. ScannedRight(more, b, at + 3)
    BY <2>2, <2>5
  <2>8. Tiles(<<x>> \o more.frames, SubSeq(b, more.start, Len(b)),
              (x \o Delimiter) \o SubSeq(b, at + 3, Len(b)))
    BY <2>4, <2>7, TilesMore DEF ScannedRight
  <2> QED
    BY <2>4, <2>6, <2>7, <2>8 DEF ScannedRight
<1> QED
  BY <1>2, <1>3

\* What push returns and keeps are the bytes it was given.
LEMMA SplitTiles ==
    ASSUME NEW b \in Text
    PROVE  Tiles(Split(b).frames, Rest(b), b)
<1>1. PICK f : Scans(f, b, 1) /\ Split(b) = f[1]
  BY SplitIs
<1>2. PICK n \in Nat : n = Len(b) + 1
  BY DEF Text
<1>3. \A s \in 1 .. n : f[s] = Scanned(f, b, s)
  BY <1>1, <1>2 DEF Scans
<1> DEFINE RightFrom(k) == \A s \in n + 1 - k .. n : s >= 1 => ScannedRight(f[s], b, s)
           T == {k \in 0 .. n : RightFrom(k)}
<1>4. RightFrom(0)
  OBVIOUS
<1>5. ASSUME NEW k \in 0 .. n - 1, RightFrom(k)
      PROVE  RightFrom(k + 1)
  <2>1. PICK start \in 1 .. n : start = n - k
    <3>1. n - k \in 1 .. n
      OBVIOUS
    <3> QED
      BY <3>1
  <2>2. start + 1 = n + 1 - k /\ start = n + 1 - (k + 1)
    BY <2>1
  <2>3. \A s \in start + 1 .. n : ScannedRight(f[s], b, s)
    BY <1>5, <2>2
  <2>4. ScannedRight(f[start], b, start)
    BY <1>2, <1>3, <2>3, ScannedStep
  <2>5. \A s \in start .. n : s = start \/ s \in start + 1 .. n
    OBVIOUS
  <2> QED
    BY <2>2, <2>3, <2>4, <2>5
<1> HIDE DEF RightFrom
<1>6. 0 \in T /\ \A k \in 0 .. n - 1 : k \in T => k + 1 \in T
  BY <1>4, <1>5
<1> HIDE DEF T
<1>7. \A k \in 0 .. n : k \in T
  BY <1>6, Induction
<1>8. ScannedRight(f[1], b, 1)
  <2>1. n \in 0 .. n /\ 1 \in n + 1 - n .. n
    BY <1>2 DEF Text
  <2> QED
    BY <1>7, <2>1 DEF T, RightFrom
<1>9. SubSeq(b, 1, Len(b)) = b
  BY SubSeqFull DEF Text
<1> QED
  BY <1>1, <1>8, <1>9 DEF ScannedRight, Rest

-----------------------------------------------------------------------------
(* However the bytes are cut into reads *)

\* x is the first frame, gs and rest tile the bytes c behind it.
Behind(x, gs, c, fs, rest, b) ==
    /\ x \in Text /\ gs \in Seq(Text) /\ c \in Text
    /\ fs = <<x>> \o gs /\ Len(fs) = Len(gs) + 1
    /\ DelimitersFrom(x \o Delimiter, 1) = {Len(x) + 1}
    /\ b = (x \o Delimiter) \o c
    /\ Tiles(gs, rest, c)

\* The first frame of a tiling, taken off.
LEMMA TilesLess ==
    ASSUME NEW fs, NEW rest, NEW b, Tiles(fs, rest, b), fs # <<>>
    PROVE  \E x, gs, c : Behind(x, gs, c, fs, rest, b)
<1>1. /\ fs \in Seq(Text) /\ rest \in Text
      /\ b = FlattenSeq(Ended(fs)) \o rest
      /\ \A i \in 1 .. Len(fs) : DelimitersFrom(fs[i] \o Delimiter, 1) = {Len(fs[i]) + 1}
      /\ DelimitersFrom(rest, 1) = {}
  BY DEF Tiles
<1>2. PICK x, gs : x = Head(fs) /\ gs = Tail(fs)
  OBVIOUS
<1>3. /\ x \in Text /\ gs \in Seq(Text) /\ Len(fs) = Len(gs) + 1
      /\ x = fs[1] /\ \A i \in 1 .. Len(gs) : gs[i] = fs[i + 1]
  BY <1>1, <1>2, HeadTailProperties
<1>4. fs = <<x>> \o gs
  <2>1. PICK all : all = <<x>> \o gs
    OBVIOUS
  <2>2. /\ <<x>> \o gs \in Seq(Text)
        /\ Len(<<x>> \o gs) = Len(gs) + 1
        /\ (<<x>> \o gs)[1] = x
        /\ \A i \in 1 .. Len(gs) : (<<x>> \o gs)[i + 1] = gs[i]
    BY <1>3, EndedMore
  <2>3. /\ all \in Seq(Text) /\ Len(all) = Len(fs)
        /\ all[1] = fs[1]
        /\ \A i \in 1 .. Len(gs) : all[i + 1] = fs[i + 1]
    BY <1>3, <2>1, <2>2
  <2>4. ASSUME NEW i \in 1 .. Len(fs) PROVE all[i] = fs[i]
    <3>1. CASE i = 1
      BY <2>3, <3>1
    <3>2. CASE i # 1
      <4>1. i - 1 \in 1 .. Len(gs) /\ i = (i - 1) + 1
        BY <1>3, <3>2
      <4> QED
        BY <2>3, <4>1
    <3> QED
      BY <3>1, <3>2
  <2> QED
    BY <1>1, <2>1, <2>3, <2>4, SeqEqual
<1>5. PICK y, z, c : y = x \o Delimiter /\ z = FlattenSeq(Ended(gs)) /\ c = z \o rest
  OBVIOUS
<1>6. Ended(gs) \in Seq(Text) /\ Ended(fs) = <<y>> \o Ended(gs)
  BY <1>3, <1>4, <1>5, EndedMore
<1>7. y \in Text /\ z \in Text /\ c \in Text
  <2>1. y \in Text
    BY <1>3, <1>5, TextFacts, DelimiterFacts
  <2>2. z \in Text
    BY <1>5, <1>6, FlattenType
  <2> QED
    BY <1>1, <1>5, <2>1, <2>2, TextFacts
<1>8. b = y \o c
  <2>1. FlattenSeq(Ended(fs)) = y \o z
    BY <1>5, <1>6, <1>7, FlattenFirst
  <2>2. (y \o z) \o rest = y \o (z \o rest)
    BY <1>1, <1>7, TextFacts
  <2> QED
    BY <1>1, <1>5, <2>1, <2>2
<1>9. Tiles(gs, rest, c)
  <2>1. ASSUME NEW i \in DOMAIN gs
        PROVE  DelimitersFrom(gs[i] \o Delimiter, 1) = {Len(gs[i]) + 1}
    <3>1. i + 1 \in 1 .. Len(fs) /\ gs[i] = fs[i + 1]
      BY <1>3
    <3> QED
      BY <1>1, <3>1
  <2> QED
    BY <1>1, <1>3, <1>5, <2>1 DEF Tiles
<1>10. DelimitersFrom(x \o Delimiter, 1) = {Len(x) + 1}
  <2>1. 1 \in 1 .. Len(fs)
    BY <1>3
  <2> QED
    BY <1>1, <1>3, <2>1
<1> QED
  BY <1>3, <1>4, <1>5, <1>7, <1>8, <1>9, <1>10 DEF Behind

\* A tiling goes on where its rest does.
LEMMA TilesJoin ==
    ASSUME NEW c \in Text, NEW gs, NEW q, NEW m \in Nat
    PROVE  \A fs, r, a :
               Tiles(fs, r, a) /\ Len(fs) = m /\ a \in Text /\ Tiles(gs, q, r \o c)
               => Tiles(fs \o gs, q, a \o c)
<1> DEFINE Joins(k) ==
               \A fs, r, a :
                   Tiles(fs, r, a) /\ Len(fs) = k /\ a \in Text /\ Tiles(gs, q, r \o c)
                   => Tiles(fs \o gs, q, a \o c)
           T == {k \in 0 .. m : Joins(k)}
<1>1. Joins(0)
  <2> SUFFICES ASSUME NEW fs, NEW r, NEW a, Tiles(fs, r, a), Len(fs) = 0,
                      Tiles(gs, q, r \o c)
               PROVE  Tiles(fs \o gs, q, a \o c)
    OBVIOUS
  <2>1. fs = <<>> /\ r \in Text /\ a = FlattenSeq(Ended(fs)) \o r
    BY EmptySeq DEF Tiles
  <2>2. FlattenSeq(Ended(fs)) = <<>>
    BY <2>1 DEF Ended, FlattenSeq
  <2>3. a = r
    BY <2>1, <2>2, ConcatEmptySeq DEF Text
  <2>4. fs \o gs = gs
    BY <2>1, ConcatEmptySeq DEF Tiles
  <2> QED
    BY <2>3, <2>4
<1>2. ASSUME NEW k \in 0 .. m - 1, Joins(k)
      PROVE  Joins(k + 1)
  <2> SUFFICES ASSUME NEW fs, NEW r, NEW a, Tiles(fs, r, a), Len(fs) = k + 1,
                      a \in Text, Tiles(gs, q, r \o c)
               PROVE  Tiles(fs \o gs, q, a \o c)
    OBVIOUS
  <2>1. fs # <<>>
    OBVIOUS
  <2>0. PICK x, hs, d : Behind(x, hs, d, fs, r, a)
    BY <2>1, TilesLess
  <2>2. /\ x \in Text /\ hs \in Seq(Text) /\ d \in Text
        /\ fs = <<x>> \o hs /\ Len(fs) = Len(hs) + 1
        /\ DelimitersFrom(x \o Delimiter, 1) = {Len(x) + 1}
        /\ a = (x \o Delimiter) \o d
        /\ Tiles(hs, r, d)
    BY <2>0 DEF Behind
  <2>3. Len(hs) = k
    BY <2>2
  <2>4. Tiles(hs \o gs, q, d \o c)
    BY <1>2, <2>2, <2>3
  <2>5. Tiles(<<x>> \o (hs \o gs), q, (x \o Delimiter) \o (d \o c))
    BY <2>2, <2>4, TilesMore
  <2>6. fs \o gs = <<x>> \o (hs \o gs)
    <3>1. <<x>> \in Seq(Text) /\ gs \in Seq(Text)
      BY <2>2 DEF Tiles
    <3>2. (<<x>> \o hs) \o gs = <<x>> \o (hs \o gs)
      BY <3>1, ConcatAssociative
    <3> QED
      BY <2>2, <3>2
  <2>7. a \o c = (x \o Delimiter) \o (d \o c)
    <3>1. PICK y \in Text : y = x \o Delimiter
      BY <2>2, EndedFacts
    <3>2. \A v, w \in Text : (y \o v) \o w = y \o (v \o w)
      BY <3>1, TextFacts
    <3>3. c \in Text /\ d \in Text
      BY <2>2
    <3>4. (y \o d) \o c = y \o (d \o c)
      BY <3>2, <3>3
    <3> QED
      BY <2>2, <3>1, <3>4
  <2> QED
    BY <2>5, <2>6, <2>7
<1> HIDE DEF Joins
<1>3. 0 \in T /\ \A k \in 0 .. m - 1 : k \in T => k + 1 \in T
  BY <1>1, <1>2
<1> HIDE DEF T
<1>4. \A k \in 0 .. m : k \in T
  BY <1>3, Induction
<1> QED
  BY <1>4 DEF T, Joins

\* A delimiter of a beginning is one of the whole.
LEMMA EndsAtStart ==
    ASSUME NEW y \in Text, NEW c \in Text, NEW i \in 1 .. Len(y) - 2
    PROVE  EndsAt(y \o c, i) <=> EndsAt(y, i)
<1>1. i \in 1 .. Len(y) /\ i + 1 \in 1 .. Len(y) /\ i + 2 \in 1 .. Len(y) /\ Len(y) \in Nat
  BY DEF Text
<1>2. \A j \in 1 .. Len(y) : (y \o c)[j] = y[j]
  BY ConcatProperties DEF Text
<1> QED
  BY <1>1, <1>2 DEF EndsAt

\* The first delimiter of x#\t#... is the one behind x.
LEMMA FirstIs ==
    ASSUME NEW x \in Text, NEW c \in Text, DelimitersFrom(x \o Delimiter, 1) = {Len(x) + 1}
    PROVE  /\ EndsAt((x \o Delimiter) \o c, Len(x) + 1)
           /\ Len(x) + 1 \in 1 .. Len((x \o Delimiter) \o c) - 2
           /\ \A i \in 1 .. Len(x) : ~ EndsAt((x \o Delimiter) \o c, i)
<1>1. PICK y \in Text : y = x \o Delimiter
  BY EndedFacts
<1>2. Len(y) = Len(x) + 3 /\ Len(x) \in Nat /\ Len(c) \in Nat
  BY <1>1, EndedFacts DEF Text
<1>3. \A i : i \in {Len(x) + 1} <=> i \in 1 .. Len(y) - 2 /\ EndsAt(y, i)
  <2>1. \A i : i \in DelimitersFrom(y, 1) <=> i \in 1 .. Len(y) - 2 /\ EndsAt(y, i)
    BY DelimitersAre
  <2>2. DelimitersFrom(y, 1) = {Len(x) + 1}
    BY <1>1
  <2> QED
    BY <2>1, <2>2
<1>4. Len(y) - 2 = Len(x) + 1
  BY <1>2
<1>5. EndsAt(y, Len(x) + 1) /\ \A i \in 1 .. Len(x) : ~ EndsAt(y, i)
  <2>1. Len(x) + 1 \in {Len(x) + 1} /\ \A i \in 1 .. Len(x) : i \in 1 .. Len(y) - 2 /\ i # Len(x) + 1
    BY <1>2
  <2> QED
    BY <1>3, <2>1
<1>6. \A i \in 1 .. Len(x) + 1 : EndsAt(y \o c, i) <=> EndsAt(y, i)
  BY <1>4, EndsAtStart
<1>7. Len(y \o c) = Len(y) + Len(c)
  BY ConcatProperties DEF Text
<1>8. Len(x) + 1 \in 1 .. Len(x) + 1 /\ \A i \in 1 .. Len(x) : i \in 1 .. Len(x) + 1
  BY <1>2
<1>9. Len(x) + 1 \in 1 .. Len(y \o c) - 2
  BY <1>2, <1>7
<1> QED
  BY <1>1, <1>5, <1>6, <1>8, <1>9

LEMMA CutEqual ==
    ASSUME NEW x \in Text, NEW y \in Text, NEW c \in Text, NEW d \in Text,
           Len(x) = Len(y), x \o c = y \o d
    PROVE  x = y /\ c = d
<1>1. Len(x) \in Nat /\ Len(c) \in Nat /\ Len(d) \in Nat
  BY DEF Text
<1>2. PICK z : z = x \o c /\ z = y \o d
  OBVIOUS
<1>3. /\ z \in Text /\ Len(z) = Len(x) + Len(c)
      /\ \A i \in 1 .. Len(x) + Len(c) : z[i] = IF i <= Len(x) THEN x[i] ELSE c[i - Len(x)]
  <2>1. /\ x \o c \in Text /\ Len(x \o c) = Len(x) + Len(c)
        /\ \A i \in 1 .. Len(x) + Len(c) :
              (x \o c)[i] = IF i <= Len(x) THEN x[i] ELSE c[i - Len(x)]
    BY ConcatProperties DEF Text
  <2> QED
    BY <1>2, <2>1
<1>4. /\ Len(z) = Len(y) + Len(d)
      /\ \A i \in 1 .. Len(y) + Len(d) : z[i] = IF i <= Len(y) THEN y[i] ELSE d[i - Len(y)]
  <2>1. /\ Len(y \o d) = Len(y) + Len(d)
        /\ \A i \in 1 .. Len(y) + Len(d) :
              (y \o d)[i] = IF i <= Len(y) THEN y[i] ELSE d[i - Len(y)]
    BY ConcatProperties DEF Text
  <2> QED
    BY <1>2, <2>1
<1>5. Len(c) = Len(d)
  BY <1>1, <1>3, <1>4
<1>6. \A i \in 1 .. Len(x) : x[i] = y[i]
  BY <1>1, <1>3, <1>4
<1>7. ASSUME NEW i \in 1 .. Len(c) PROVE c[i] = d[i]
  <2>1. /\ Len(x) + i \in 1 .. Len(x) + Len(c) /\ ~ (Len(x) + i <= Len(x))
        /\ (Len(x) + i) - Len(x) = i
    BY <1>1
  <2>2. z[Len(x) + i] = c[(Len(x) + i) - Len(x)]
    BY <1>3, <2>1
  <2>3. z[Len(x) + i] = d[(Len(x) + i) - Len(x)]
    BY <1>4, <1>5, <2>1
  <2> QED
    BY <2>1, <2>2, <2>3
<1> QED
  BY <1>5, <1>6, <1>7, SeqEqual DEF Text

\* There is one way to take off a first frame.
LEMMA FirstIsOne ==
    ASSUME NEW x \in Text, NEW c \in Text, DelimitersFrom(x \o Delimiter, 1) = {Len(x) + 1},
           NEW y \in Text, NEW d \in Text, DelimitersFrom(y \o Delimiter, 1) = {Len(y) + 1},
           (x \o Delimiter) \o c = (y \o Delimiter) \o d
    PROVE  x = y /\ c = d
<1>1. PICK b : b = (x \o Delimiter) \o c /\ b = (y \o Delimiter) \o d
  OBVIOUS
<1>2. EndsAt(b, Len(x) + 1) /\ \A i \in 1 .. Len(x) : ~ EndsAt(b, i)
  <2>1. /\ EndsAt((x \o Delimiter) \o c, Len(x) + 1)
        /\ \A i \in 1 .. Len(x) : ~ EndsAt((x \o Delimiter) \o c, i)
    BY FirstIs
  <2> QED
    BY <1>1, <2>1
<1>3. EndsAt(b, Len(y) + 1) /\ \A i \in 1 .. Len(y) : ~ EndsAt(b, i)
  <2>1. /\ EndsAt((y \o Delimiter) \o d, Len(y) + 1)
        /\ \A i \in 1 .. Len(y) : ~ EndsAt((y \o Delimiter) \o d, i)
    BY FirstIs
  <2> QED
    BY <1>1, <2>1
<1>4. Len(x) \in Nat /\ Len(y) \in Nat
  BY DEF Text
<1>5. ~ (Len(x) < Len(y))
  <2> SUFFICES ASSUME Len(x) < Len(y) PROVE FALSE
    OBVIOUS
  <2>1. Len(x) + 1 \in 1 .. Len(y)
    BY <1>4
  <2> QED
    BY <1>2, <1>3, <2>1
<1>6. ~ (Len(y) < Len(x))
  <2> SUFFICES ASSUME Len(y) < Len(x) PROVE FALSE
    OBVIOUS
  <2>1. Len(y) + 1 \in 1 .. Len(x)
    BY <1>4
  <2> QED
    BY <1>2, <1>3, <2>1
<1>7. Len(x) = Len(y)
  BY <1>4, <1>5, <1>6
<1>8. PICK v, w : v = x \o Delimiter /\ w = y \o Delimiter
  OBVIOUS
<1>9. v \in Text /\ w \in Text /\ Len(v) = Len(w)
  BY <1>7, <1>8, EndedFacts
<1>10. v = w /\ c = d
  BY <1>1, <1>8, <1>9, CutEqual
<1>11. x = y
  <2>1. x \o Delimiter = y \o Delimiter /\ Delimiter \in Text
    BY <1>8, <1>10, DelimiterFacts
  <2> QED
    BY <1>7, <2>1, CutEqual
<1> QED
  BY <1>10, <1>11

\* Bytes without a delimiter have no frame.
LEMMA NoFrames ==
    ASSUME NEW fs, NEW r, NEW b, Tiles(fs, r, b), DelimitersFrom(b, 1) = {}
    PROVE  fs = <<>>
<1> SUFFICES ASSUME fs # <<>> PROVE FALSE
  OBVIOUS
<1>1. PICK x, hs, c : Behind(x, hs, c, fs, r, b)
  BY TilesLess
<1>2. /\ x \in Text /\ c \in Text
      /\ DelimitersFrom(x \o Delimiter, 1) = {Len(x) + 1}
      /\ b = (x \o Delimiter) \o c
  BY <1>1 DEF Behind
<1>3. EndsAt(b, Len(x) + 1) /\ Len(x) + 1 \in 1 .. Len(b) - 2
  BY <1>2, FirstIs
<1>4. b \in Text
  <2>1. x \o Delimiter \in Text
    BY <1>2, EndedFacts
  <2> QED
    BY <1>2, <2>1, TextFacts
<1>5. \A i : i \in DelimitersFrom(b, 1) <=> i \in 1 .. Len(b) - 2 /\ EndsAt(b, i)
  BY <1>4, DelimitersAre
<1> QED
  BY <1>3, <1>5

\* Without frames, the rest is everything.
LEMMA RestOnly ==
    ASSUME NEW r, NEW b, Tiles(<<>>, r, b)
    PROVE  r = b /\ DelimitersFrom(b, 1) = {}
<1>1. FlattenSeq(Ended(<<>>)) = <<>>
  BY DEF Ended, FlattenSeq
<1>2. b = r
  BY <1>1, ConcatEmptySeq DEF Tiles, Text
<1> QED
  BY <1>2 DEF Tiles

\* Bytes are tiled in one way.
LEMMA TilesAreOne ==
    ASSUME NEW m \in Nat
    PROVE  \A fs, r, gs, q, b :
               Tiles(fs, r, b) /\ Tiles(gs, q, b) /\ Len(fs) = m => fs = gs /\ r = q
<1> DEFINE One(k) == \A fs, r, gs, q, b :
               Tiles(fs, r, b) /\ Tiles(gs, q, b) /\ Len(fs) = k => fs = gs /\ r = q
           T == {k \in 0 .. m : One(k)}
<1>1. One(0)
  <2> SUFFICES ASSUME NEW fs, NEW r, NEW gs, NEW q, NEW b,
                      Tiles(fs, r, b), Tiles(gs, q, b), Len(fs) = 0
               PROVE  fs = gs /\ r = q
    OBVIOUS
  <2>1. fs = <<>>
    BY EmptySeq DEF Tiles
  <2>2. r = b /\ DelimitersFrom(b, 1) = {}
    BY <2>1, RestOnly
  <2>3. gs = <<>>
    BY <2>2, NoFrames
  <2> QED
    BY <2>1, <2>2, <2>3, RestOnly
<1>2. ASSUME NEW k \in 0 .. m - 1, One(k)
      PROVE  One(k + 1)
  <2> SUFFICES ASSUME NEW fs, NEW r, NEW gs, NEW q, NEW b,
                      Tiles(fs, r, b), Tiles(gs, q, b), Len(fs) = k + 1
               PROVE  fs = gs /\ r = q
    OBVIOUS
  <2>1. fs # <<>>
    OBVIOUS
  <2>2. gs # <<>>
    BY <2>1, NoFrames, RestOnly
  <2>3. PICK x, hs, c : Behind(x, hs, c, fs, r, b)
    BY <2>1, TilesLess
  <2>4. PICK y, is, d : Behind(y, is, d, gs, q, b)
    BY <2>2, TilesLess
  <2>5. /\ x \in Text /\ c \in Text /\ fs = <<x>> \o hs /\ Len(fs) = Len(hs) + 1
        /\ hs \in Seq(Text)
        /\ DelimitersFrom(x \o Delimiter, 1) = {Len(x) + 1}
        /\ b = (x \o Delimiter) \o c /\ Tiles(hs, r, c)
    BY <2>3 DEF Behind
  <2>6. /\ y \in Text /\ d \in Text /\ gs = <<y>> \o is
        /\ DelimitersFrom(y \o Delimiter, 1) = {Len(y) + 1}
        /\ b = (y \o Delimiter) \o d /\ Tiles(is, q, d)
    BY <2>4 DEF Behind
  <2>7. x = y /\ c = d
    <3>1. (x \o Delimiter) \o c = (y \o Delimiter) \o d
      BY <2>5, <2>6
    <3> QED
      BY <2>5, <2>6, <3>1, FirstIsOne
  <2>8. Len(hs) = k
    BY <2>5
  <2>9. hs = is /\ r = q
    BY <1>2, <2>5, <2>6, <2>7, <2>8
  <2> QED
    BY <2>5, <2>6, <2>7, <2>9
<1> HIDE DEF One
<1>3. 0 \in T /\ \A k \in 0 .. m - 1 : k \in T => k + 1 \in T
  BY <1>1, <1>2
<1> HIDE DEF T
<1>4. \A k \in 0 .. m : k \in T
  BY <1>3, Induction
<1> QED
  BY <1>4 DEF T, One

\* Where the bytes are cut does not matter: what is kept of the first piece
\* and the second piece give the frames the first did not, and leave the rest
\* that all of them leave (Decoder::push).
THEOREM CutAnywhere ==
    ASSUME NEW a \in Text, NEW c \in Text
    PROVE  /\ Split(a \o c).frames = Split(a).frames \o Split(Rest(a) \o c).frames
           /\ Rest(a \o c) = Rest(Rest(a) \o c)
<1>1. Tiles(Split(a).frames, Rest(a), a)
  BY SplitTiles
<1>2. PICK fs, r : fs = Split(a).frames /\ r = Rest(a)
  OBVIOUS
<1>3. PICK m \in Nat : m = Len(fs)
  BY <1>1, <1>2 DEF Tiles
<1>4. PICK b, d : b = a \o c /\ d = r \o c
  OBVIOUS
<1>5. b \in Text /\ d \in Text
  BY <1>1, <1>2, <1>4, TextFacts DEF Tiles
<1>6. PICK gs, q : gs = Split(d).frames /\ q = Rest(d)
  OBVIOUS
<1>7. Tiles(gs, q, d)
  BY <1>5, <1>6, SplitTiles
<1>8. Tiles(fs \o gs, q, b)
  BY <1>1, <1>2, <1>3, <1>4, <1>7, TilesJoin
<1>9. Tiles(Split(b).frames, Rest(b), b)
  BY <1>5, SplitTiles
<1>10. PICK n \in Nat : n = Len(fs \o gs)
  BY <1>8 DEF Tiles
<1>11. fs \o gs = Split(b).frames /\ q = Rest(b)
  BY <1>8, <1>9, <1>10, TilesAreOne
<1> QED
  BY <1>2, <1>4, <1>6, <1>11

-----------------------------------------------------------------------------
(* The reader *)

\* A record that is being made is that of a frame there is.
HandlesAFrame == task[Reader].at # "idle" => ~ AllHandled

ReaderInv ==
    /\ Tiles(frames, buf, whole) /\ whole \in Text
    /\ Len(buf) <= MaxFrame
    /\ next \in 1 .. Len(frames) + 1
    /\ HandlesAFrame

LEMMA ReaderIsATask == Reader \in Tasks /\ Reader \notin Others
  BY TapAssumption DEF Tasks

LEMMA TilesNothing == Tiles(<<>>, <<>>, <<>>) /\ <<>> \in Text /\ Len(<<>>) <= MaxFrame
<1>1. <<>> \in Text /\ Len(<<>>) = 0
  BY DEF Text
<1>2. DelimitersFrom(<<>>, 1) = {}
  BY <1>1, DelimitersAre
<1> QED
  BY <1>1, <1>2, TilesNone, FrameAssumption

LEMMA ReaderInit == Init => ReaderInv
<1> SUFFICES ASSUME Init PROVE ReaderInv
  OBVIOUS
<1>1. task[Reader].at = "idle"
  BY ReaderIsATask DEF Init, Idle
<1>2. buf = <<>> /\ frames = <<>> /\ next = 1 /\ whole = <<>> /\ next \in 1 .. Len(frames) + 1
  BY DEF Init
<1> QED
  BY <1>1, <1>2, TilesNothing DEF ReaderInv, HandlesAFrame

\* The reader is idle after the step and the bytes are where they were.
LEMMA ReaderRests ==
    ASSUME ReaderInv, UNCHANGED <<buf, frames, whole>>,
           task'[Reader].at = "idle",
           next' = next \/ (next' = next + 1 /\ ~ AllHandled)
    PROVE  ReaderInv'
<1>1. next \in 1 .. Len(frames) + 1 /\ Len(frames) \in Nat
  BY DEF ReaderInv, Tiles
<1>2. next' \in 1 .. Len(frames) + 1
  BY <1>1 DEF AllHandled
<1> QED
  BY <1>2 DEF ReaderInv, HandlesAFrame

\* The reader goes on with what it does.
LEMMA ReaderGoesOn ==
    ASSUME ReaderInv, UNCHANGED readerVars,
           task'[Reader].at # "idle" => task[Reader].at # "idle" \/ ~ AllHandled
    PROVE  ReaderInv'
  BY DEF readerVars, ReaderInv, HandlesAFrame, AllHandled

LEMMA ReadsKeeps ==
    ASSUME ReaderInv, NEW chunk \in Chunks, Reads(chunk)
    PROVE  ReaderInv'
<1>1. PICK bytes : bytes = buf \o chunk
  OBVIOUS
<1>2. bytes \in Text
  <2>1. chunk \in Text /\ buf \in Text
    BY TapAssumption DEF Text, ReaderInv, Tiles
  <2> QED
    BY <1>1, <2>1, TextFacts
<1>3. /\ Fits(bytes)
      /\ frames' = Split(bytes).frames /\ buf' = Rest(bytes)
      /\ next' = 1 /\ whole' = bytes
      /\ task'[Reader].at = "idle"
  BY <1>1 DEF Reads
<1>4. Tiles(Split(bytes).frames, Rest(bytes), bytes)
  BY <1>2, SplitTiles
<1>5. Tiles(frames', buf', whole')
  BY <1>3, <1>4
<1>6. Len(buf') <= MaxFrame
  BY <1>3 DEF Fits
<1>7. next' \in 1 .. Len(frames') + 1
  BY <1>3, <1>5 DEF Tiles
<1> QED
  BY <1>2, <1>3, <1>5, <1>6, <1>7 DEF ReaderInv, HandlesAFrame

\* Another connection, or another process: a decoder of its own.
LEMMA DisconnectedKeeps ==
    ASSUME Disconnected, task'[Reader].at = "idle"
    PROVE  ReaderInv'
<1>1. buf' = <<>> /\ frames' = <<>> /\ next' = 1 /\ whole' = <<>>
  BY DEF Disconnected
<1>2. next' \in 1 .. Len(frames') + 1
  BY <1>1
<1>3. Tiles(frames', buf', whole')
  BY <1>1, TilesNothing
<1> QED
  BY <1>1, <1>2, <1>3, TilesNothing DEF ReaderInv, HandlesAFrame

LEMMA ReaderTaskKeeps ==
    ASSUME TapTypeOK, ReaderInv, NEW t \in Tasks, TaskStep(t)
    PROVE  ReaderInv'
<1>1. task \in [Tasks -> Task]
  BY DEF TapTypeOK
<1>2. CASE Untraced(t)
  <2>1. /\ UNCHANGED <<buf, frames, whole, task>>
        /\ task[t].at = "idle" /\ (t = Reader => ~ AllHandled) /\ Finished(t)
    BY <1>2 DEF Untraced, Records
  <2>2. CASE t = Reader
    BY <2>1, <2>2, ReaderRests DEF Finished
  <2>3. CASE t # Reader
    <3>1. UNCHANGED readerVars
      BY <2>1, <2>3 DEF Finished, readerVars
    <3> QED
      BY <2>1, <3>1, ReaderGoesOn
  <2> QED
    BY <2>2, <2>3
<1>3. CASE Numbers(t)
  <2>1. /\ UNCHANGED readerVars
        /\ (t = Reader => ~ AllHandled)
        /\ \A u \in Tasks \ {t} : task'[u] = task[u]
    BY <1>1, <1>3 DEF Numbers, Records
  <2>2. t # Reader => task'[Reader] = task[Reader]
    BY <2>1, ReaderIsATask
  <2> QED
    BY <2>1, <2>2, ReaderGoesOn
<1>4. CASE \E size \in LineSizes : WritesLine(t, size) \/ TearsLine(t, size) \/ OpenFails(t, size)
  <2>1. /\ UNCHANGED readerVars
        /\ task[t].at = "numbered"
        /\ \E name : Traced(t, name)
    <3>1. PICK size \in LineSizes : WritesLine(t, size) \/ TearsLine(t, size) \/ OpenFails(t, size)
      BY <1>4
    <3>2. CASE WritesLine(t, size)
      BY <3>2 DEF WritesLine
    <3>3. CASE TearsLine(t, size)
      BY <3>3 DEF TearsLine
    <3>4. CASE OpenFails(t, size)
      BY <3>4 DEF OpenFails
    <3> QED
      BY <3>1, <3>2, <3>3, <3>4
  <2>2. \A u \in Tasks \ {t} : task'[u] = task[u]
    BY <1>1, <2>1 DEF Traced
  <2>3. t # Reader => task'[Reader] = task[Reader]
    BY <2>2, ReaderIsATask
  <2> QED
    BY <2>1, <2>3, ReaderGoesOn
<1>5. CASE Stores(t) \/ StoresNumber(t)
  <2>1. /\ UNCHANGED <<buf, frames, whole>>
        /\ task[t].at = "traced" /\ Finished(t)
        /\ task' = [task EXCEPT ![t] = Idle]
    BY <1>5 DEF Stores, StoresNumber
  <2>2. CASE t = Reader
    <3>1. task'[Reader].at = "idle"
      BY <1>1, <2>1, <2>2 DEF Idle
    <3>2. ~ AllHandled
      BY <2>1, <2>2 DEF ReaderInv, HandlesAFrame
    <3>3. next' = next + 1
      BY <2>1, <2>2 DEF Finished
    <3> QED
      BY <2>1, <3>1, <3>2, <3>3, ReaderRests
  <2>3. CASE t # Reader
    <3>1. UNCHANGED readerVars
      BY <2>1, <2>3 DEF Finished, readerVars
    <3>2. task'[Reader] = task[Reader]
      BY <1>1, <2>1, <2>3, ReaderIsATask
    <3> QED
      BY <3>1, <3>2, ReaderGoesOn
  <2> QED
    BY <2>2, <2>3
<1> QED
  BY <1>2, <1>3, <1>4, <1>5 DEF TaskStep

LEMMA ReaderStep == TapTypeOK /\ ReaderInv /\ [Next]_vars => ReaderInv'
<1> SUFFICES ASSUME TapTypeOK, ReaderInv, [Next]_vars PROVE ReaderInv'
  OBVIOUS
<1>1. CASE \E chunk \in Chunks : Reads(chunk)
  BY <1>1, ReadsKeeps
<1>2. CASE Disconnects
  BY <1>2, DisconnectedKeeps DEF Disconnects
<1>3. CASE SkipsBlank
  BY <1>3, ReaderRests DEF SkipsBlank
<1>4. CASE \E t \in Tasks : TaskStep(t)
  BY <1>4, ReaderTaskKeeps
<1>5. CASE SwitchesOff \/ SwitchesOn \/ DayPasses
  <2>1. UNCHANGED readerVars /\ UNCHANGED task
    BY <1>5 DEF SwitchesOff, SwitchesOn, DayPasses
  <2> QED
    BY <2>1, ReaderGoesOn
<1>6. CASE Restarts
  <2>1. Disconnected /\ task' = [t \in Tasks |-> Idle]
    BY <1>6 DEF Restarts
  <2>2. task'[Reader].at = "idle"
    BY <2>1, ReaderIsATask DEF Idle
  <2> QED
    BY <2>1, <2>2, DisconnectedKeeps
<1>7. CASE UNCHANGED vars
  <2>1. UNCHANGED readerVars /\ UNCHANGED task
    BY <1>7 DEF vars
  <2> QED
    BY <2>1, ReaderGoesOn
<1> QED
  BY <1>1, <1>2, <1>3, <1>4, <1>5, <1>6, <1>7 DEF Next

-----------------------------------------------------------------------------
(* Theorems *)

LEMMA TapInvariant == Spec => []TapInv
  BY TapInit, TapStep, PTL DEF Spec

\* The tap, its files, the tasks and the stored references keep their types.
THEOREM TapTypeCorrect == Spec => []TapTypeOK
<1>1. TapInv => TapTypeOK
  BY DEF TapInv
<1> QED
  BY <1>1, TapInvariant, PTL

\* However tasks interleave, and whenever days pass, files rotate or go,
\* writes fail and the process starts again: the file a stored reference
\* names has the whole line of its record under its number, and no other line
\* of that number by the same start; so in a file that one start wrote, the
\* reference is exact (Tap::record, write_line).
THEOREM RefsAlwaysLeadToRecords == Spec => []RefsLeadToRecords
<1>1. TapInv => RefsLeadToRecords
  BY DEF TapInv
<1> QED
  BY <1>1, TapInvariant, PTL

LEMMA ReaderInvariant == Spec => []ReaderInv
<1>1. TapInv => TapTypeOK
  BY DEF TapInv
<1> QED
  BY <1>1, TapInvariant, ReaderInit, ReaderStep, PTL DEF Spec

\* The reader's bytes and frames keep their types too, and what it keeps
\* between two reads is within gateway.max_frame_bytes.
THEOREM WireTypeCorrect == Spec => []WireTypeOK
<1>1. ReaderInv => ReaderTypeOK
  BY DEF ReaderInv, Tiles, Text, ReaderTypeOK
<1> QED
  BY <1>1, TapTypeCorrect, ReaderInvariant, PTL DEF WireTypeOK

\* Whatever the bytes, the reads and the limit are: no frame is lost, split
\* or run together with the next (Decoder::push).
THEOREM FramesAreAlwaysTheStream == Spec => []FramesAreTheStream
<1>1. ReaderInv => FramesAreTheStream
  BY DEF ReaderInv, Tiles, Ended, FramesAreTheStream
<1> QED
  BY <1>1, ReaderInvariant, PTL
=============================================================================
