------------------------- MODULE PathTrackingProofs -------------------------
(***************************************************************************)
(* Theorems about PathAssembly and PathTracking, for any number of paths,  *)
(* points, docks and answers in flight, and both builds.                   *)
(***************************************************************************)
EXTENDS PathTracking, WellFoundedInduction, TLAPS

-----------------------------------------------------------------------------
(* The assembly.                                                           *)

SomeAssembly == [span : Nat, have : SUBSET Nat]
SomeChunk == [start : Nat, count : Nat, total : Nat]

LEMMA MergeType ==
    ASSUME NEW a \in SomeAssembly, NEW c \in SomeChunk
    PROVE  Merge(a, c) \in SomeAssembly
BY DEF SomeAssembly, SomeChunk, Merge, Carried, Larger

\* Chunks may come in any order ("tolerant of duplicates and out-of-order
\* chunks", path.rs): two of them leave the same slots whichever is merged
\* first.
THEOREM MergeCommutes ==
    ASSUME NEW a \in SomeAssembly, NEW c \in SomeChunk, NEW d \in SomeChunk
    PROVE  Merge(Merge(a, c), d) = Merge(Merge(a, d), c)
<1>1. Merge(Merge(a, c), d).span = Merge(Merge(a, d), c).span
  BY DEF SomeAssembly, SomeChunk, Merge, Larger
<1>2. Merge(Merge(a, c), d).have = Merge(Merge(a, d), c).have
  BY DEF Merge
<1>3. QED
  BY <1>1, <1>2 DEF Merge

\* ... and a chunk that comes twice changes nothing the second time.
THEOREM MergeIsIdempotent ==
    ASSUME NEW a \in SomeAssembly, NEW c \in SomeChunk
    PROVE  Merge(Merge(a, c), c) = Merge(a, c)
<1>1. Merge(Merge(a, c), c).span = Merge(a, c).span
  BY DEF SomeAssembly, SomeChunk, Merge, Larger
<1>2. Merge(Merge(a, c), c).have = Merge(a, c).have
  BY DEF Merge
<1>3. QED
  BY <1>1, <1>2 DEF Merge

\* A merge takes no point away and closes the list behind every point it
\* brings: the slots that are filled stay inside the span.
THEOREM MergeKeepsPoints ==
    ASSUME NEW a \in SomeAssembly, NEW c \in SomeChunk, a.have \subseteq Slots(a.span)
    PROVE  /\ a.have \subseteq Merge(a, c).have
           /\ Merge(a, c).have \subseteq Slots(Merge(a, c).span)
<1>1. a.have \subseteq Merge(a, c).have
  BY DEF Merge
<1>2. Slots(a.span) \subseteq Slots(Merge(a, c).span)
  BY DEF SomeAssembly, SomeChunk, Merge, Larger, Slots
<1>3. Carried(c) \subseteq Slots(Merge(a, c).span)
  BY DEF SomeAssembly, SomeChunk, Merge, Larger, Slots, Carried
<1>4. QED
  BY <1>1, <1>2, <1>3 DEF Merge

\* "The first point we do not have, or the end of the path when it is
\* contiguous" (next_index): nothing before it is missing, and no fetch from
\* it asks for a point that is stored.
THEOREM NextIndexIsFirstHole ==
    ASSUME NEW a \in SomeAssembly, a.have \subseteq Slots(a.span)
    PROVE  /\ NextIndex(a) \in 0 .. a.span
           /\ NextIndex(a) \notin a.have
           /\ Slots(NextIndex(a)) \subseteq a.have
<1>1. CASE Missing(a) = {}
  BY <1>1 DEF NextIndex, Missing, Slots, SomeAssembly
<1>2. CASE Missing(a) # {}
  <2>1. Missing(a) \subseteq Nat
    BY DEF Missing, Slots, SomeAssembly
  <2> DEFINE Less == {p \in Nat \X Nat : p[1] < p[2]}
  <2>0. OpToRel(<, Nat) = Less
    BY DEF OpToRel
  <2>2. PICK i \in Missing(a) : \A j \in Missing(a) : <<j, i>> \notin Less
    BY <1>2, <2>0, <2>1, NatLessThanWellFounded, WFMin
  <2>3. ASSUME NEW j \in Missing(a), j < i
        PROVE  FALSE
    <3>1. <<j, i>> \in Nat \X Nat /\ <<j, i>>[1] < <<j, i>>[2]
      BY <2>1, <2>3
    <3>2. <<j, i>> \in Less
      BY <3>1
    <3>3. QED
      BY <2>2, <3>2
  <2>4. NextIndex(a) \in Missing(a) /\ \A j \in Missing(a) : NextIndex(a) <= j
    <3>1. \A j \in Missing(a) : i <= j
      BY <2>1, <2>3
    <3>2. QED
      BY <1>2, <3>1 DEF NextIndex
  <2>5. QED
    BY <2>1, <2>4 DEF Missing, Slots, SomeAssembly
<1>3. QED
  BY <1>1, <1>2

-----------------------------------------------------------------------------
(* The inductive invariant.  Each part leans on the types; StoredIsDriven  *)
(* also on itself, for the points in flight and in the handlers' hands     *)
(* become the stored ones.  RunsAreVisits needs RunsAreHeard: what bounds  *)
(* the runs is not what the robot did, but the latest of it that was told. *)

\* No status tells of a stay that has not begun.
Begun(visit, docked) ==
    visit < visits \/ (visit = visits /\ (mode = "charge" => docked))

\* A dock the server took to have ended, by a late status, and the latest
\* status did not: the next docked status counts it again.
Recounts == IF heard.docked /\ ~dock.docked THEN 1 ELSE 0

RunsAreHeard ==
    /\ dock.run + Recounts <= heard.visit + late
    /\ Begun(heard.visit, heard.docked)
    /\ \A m \in told : Begun(m.visit, m.mode = "charge")
    /\ \A p \in Paths : stored[p].run <= dock.run

PathInv == PathTypeOK /\ StoredIsDriven /\ RunsAreHeard /\ OnlyLastRuns

LEMMA HeardAreVisits ==
    ASSUME PathTypeOK, RunsAreHeard
    PROVE  RunsAreVisits
<1>1. /\ visits \in Nat /\ heard.visit \in Nat /\ late \in Nat /\ dock.run \in Nat
      /\ heard.docked \in BOOLEAN /\ dock.docked \in BOOLEAN
  BY PathAssumption DEF PathTypeOK
<1>2. dock.run <= visits + late
  BY <1>1 DEF RunsAreHeard, Recounts, Begun
<1>3. ASSUME ~dock.docked, mode = "charge"
      PROVE  dock.run < visits + late
  BY <1>1, <1>3 DEF RunsAreHeard, Recounts, Begun
<1>4. QED
  BY <1>2, <1>3 DEF RunsAreVisits, RunsAreHeard

LEMMA InitEstablishes == Init => PathInv
<1> SUFFICES ASSUME Init PROVE PathInv
  OBVIOUS
<1> USE DEF Init
<1>1. /\ NoPoints \in Assembly
      /\ Unstored \in [run : Nat, points : Assembly]
      /\ Unstored.run = 0 /\ Unstored.points.have = {}
  BY PathAssumption DEF Unstored, NoPoints, Assembly, Starts
<1>2. PathTypeOK
  <2>1. stored \in [Paths -> [run : Nat, points : Assembly]]
    BY <1>1
  <2>2. request \in [state : {"none", "pending", "sent"}, start : Starts]
    BY PathAssumption DEF NoRequest, Starts
  <2>3. driven \in [Paths -> Starts]
    BY PathAssumption DEF Starts
  <2>4. job \in Paths /\ mode \in Modes /\ visits \in 0 .. MaxVisits
    BY PathAssumption DEF Paths, Modes
  <2>5. told \in SUBSET Status
    BY <2>4 DEF Status
  <2>6. QED
    BY <2>1, <2>2, <2>3, <2>4, <2>5 DEF PathTypeOK
<1>3. StoredIsDriven
  BY <1>1 DEF StoredIsDriven, Driven
<1>4. RunsAreHeard
  <2>1. dock.run = 0 /\ Recounts = 0 /\ heard.visit = 0 /\ ~heard.docked /\ late = 0
    BY DEF Recounts
  <2>2. Begun(heard.visit, heard.docked)
    BY <2>1 DEF Begun
  <2>3. \A m \in told : Begun(m.visit, m.mode = "charge")
    BY DEF Begun
  <2>4. dock.run + Recounts <= heard.visit + late
    BY <2>1
  <2>5. \A p \in Paths : stored[p].run <= dock.run
    BY <1>1
  <2>6. QED
    BY <2>2, <2>3, <2>4, <2>5 DEF RunsAreHeard
<1>5. OnlyLastRuns
  BY DEF OnlyLastRuns
<1>6. QED
  BY <1>2, <1>3, <1>4, <1>5 DEF PathInv

LEMMA AnswerFacts ==
    ASSUME PathTypeOK, NEW start \in Starts
    PROVE  Answer(start) \in Chunk /\ ChunkIsDriven(Answer(start))
<1>1. driven[job] \in Starts /\ job \in Paths /\ MaxPoints \in Nat /\ ChunkSize \in Nat \ {0}
  BY PathAssumption DEF PathTypeOK
<1>2. start \in Nat /\ driven[job] \in Nat /\ driven[job] <= MaxPoints /\ start <= MaxPoints
  BY <1>1 DEF Starts
<1>3. Answer(start) \in Chunk
  BY <1>1, <1>2 DEF Answer, Chunk, Starts
<1>4. ChunkIsDriven(Answer(start))
  <2>1. Answer(start).path = job /\ Answer(start).start = start /\ Answer(start).total = driven[job]
    BY DEF Answer
  <2>2. Answer(start).count \in Nat /\ start + Answer(start).count <= MaxPoints
        /\ (Answer(start).count > 0 => start + Answer(start).count <= driven[job])
    BY <1>1, <1>2 DEF Answer
  <2>3. Carried(Answer(start)) \subseteq Slots(driven[job])
    BY <1>2, <2>1, <2>2 DEF Carried, Slots
  <2>4. QED
    BY <1>2, <2>1, <2>2, <2>3 DEF ChunkIsDriven, Driven
<1>5. QED
  BY <1>3, <1>4

\* What a handler writes back: points its path has, in a list as long as the
\* bound at most.
LEMMA MergeFacts ==
    ASSUME PathTypeOK, NEW c \in Chunk, NEW a \in Assembly,
           ChunkIsDriven(c), Driven(c.path, a.have)
    PROVE  Merge(a, c) \in Assembly /\ Driven(c.path, Merge(a, c).have)
<1>1. /\ c.path \in Paths /\ c.start \in Nat /\ c.count \in Nat /\ c.total \in Nat
      /\ c.start <= MaxPoints /\ c.total <= MaxPoints /\ c.start + c.count <= MaxPoints
      /\ MaxPoints \in Nat /\ a.span \in 0 .. MaxPoints /\ a.have \subseteq Slots(MaxPoints)
  BY PathAssumption DEF Chunk, Assembly, Starts, ChunkIsDriven
<1>2. Carried(c) \subseteq Slots(MaxPoints)
  BY <1>1 DEF Carried, Slots
<1>3. Merge(a, c).span \in 0 .. MaxPoints
  BY <1>1 DEF Merge, Larger
<1>4. Merge(a, c) \in Assembly
  BY <1>1, <1>2, <1>3 DEF Merge, Assembly, Starts
<1>5. QED
  BY <1>4 DEF Merge, Driven, ChunkIsDriven

\* Pruning forgets rows and changes none.
LEMMA PruneFacts ==
    ASSUME PathTypeOK, NEW run \in Nat, Prunes(run)
    PROVE  /\ rows' \in SUBSET Paths
           /\ newer' \in SUBSET (Paths \X Paths)
           /\ stored' \in [Paths -> [run : Nat, points : Assembly]]
           /\ rows' \subseteq rows
           /\ \A p \in Paths : stored'[p] = stored[p] \/ stored'[p] = Unstored
           /\ \A p \in rows' : /\ stored'[p] = stored[p]
                               /\ History \/ run < 2 \/ stored[p].run >= run - 1
<1>1. Unstored \in [run : Nat, points : Assembly]
  BY PathAssumption DEF Unstored, NoPoints, Assembly, Starts, PathTypeOK
<1>2. rows' \subseteq rows /\ rows \subseteq Paths
  BY DEF Prunes, PathTypeOK
<1>3. newer' \subseteq newer /\ newer \subseteq Paths \X Paths
  BY DEF Prunes, PathTypeOK
<1>4. stored' = [p \in Paths |-> IF p \in rows' THEN stored[p] ELSE Unstored]
  BY DEF Prunes
<1>5. \A p \in rows' : History \/ run < 2 \/ stored[p].run >= run - 1
  BY DEF Prunes
<1>6. stored' \in [Paths -> [run : Nat, points : Assembly]]
  BY <1>1, <1>4 DEF PathTypeOK
<1>7. \A p \in Paths : stored'[p] = stored[p] \/ stored'[p] = Unstored
  BY <1>4
<1>8. \A p \in rows' : stored'[p] = stored[p]
  BY <1>2, <1>4
<1>9. QED
  BY <1>2, <1>3, <1>5, <1>6, <1>7, <1>8

-----------------------------------------------------------------------------
(* Every step keeps the invariant: first the steps that leave the stored   *)
(* paths alone, then handlers, then those that prune.                      *)

\* The robot's own steps: it drives on, and no path gets shorter.
LEMMA RobotKeeps ==
    ASSUME PathInv, Drives \/ Cleans \/ HeadsBack \/ Docks
    PROVE  PathInv'
<1> USE DEF PathInv
<1>1. UNCHANGED <<answers, rowVars, statusVars, request, handling>>
  BY DEF Drives, Cleans, HeadsBack, Docks
<1>0. UNCHANGED told \/ Tells
  BY DEF Drives, Cleans, HeadsBack, Docks
<1>2. /\ job' \in Paths /\ mode' \in Modes /\ visits' \in 0 .. MaxVisits
      /\ driven' \in [Paths -> Starts]
      /\ \A p \in Paths : driven[p] <= driven'[p]
  <2>1. CASE Drives
    <3>1. job \in Paths /\ driven[job] \in Nat /\ driven[job] + 1 \in Starts
      BY <2>1, PathAssumption DEF PathTypeOK, Drives, Starts
    <3>2. \A p \in Paths : driven[p] \in Nat
      BY PathAssumption DEF PathTypeOK, Starts
    <3>3. QED
      BY <2>1, <3>1, <3>2 DEF PathTypeOK, Drives
  <2>2. CASE ~Drives
    <3>1. driven' = driven /\ \A p \in Paths : driven[p] \in Nat
      BY <2>2, PathAssumption DEF PathTypeOK, Cleans, HeadsBack, Docks, Starts
    <3>2. job' \in Paths
      BY <2>2, PathAssumption DEF PathTypeOK, Cleans, HeadsBack, Docks, Paths
    <3>3. mode' \in Modes /\ visits' \in 0 .. MaxVisits
      BY <2>2, PathAssumption DEF PathTypeOK, Cleans, HeadsBack, Docks, Modes
    <3>4. QED
      BY <3>1, <3>2, <3>3 DEF PathTypeOK
  <2>3. QED
    BY <2>1, <2>2
<1>10. told' \in SUBSET Status
  BY <1>0, <1>2 DEF PathTypeOK, Tells, Status
<1>3. PathTypeOK'
  BY <1>1, <1>2, <1>10 DEF PathTypeOK, rowVars, statusVars, runVars
<1>4. \A p \in Paths : Slots(driven[p]) \subseteq Slots(driven'[p])
  BY <1>2 DEF PathTypeOK, Slots, Starts
<1>5. \A c \in Chunk : ChunkIsDriven(c) => ChunkIsDriven(c)'
  <2> SUFFICES ASSUME NEW c \in Chunk, ChunkIsDriven(c) PROVE ChunkIsDriven(c)'
    OBVIOUS
  <2>1. c.path \in Paths /\ c.total \in Nat
    BY PathAssumption DEF Chunk, Starts
  <2>2. c.total <= driven'[c.path]
    BY <1>2, <2>1, PathAssumption DEF ChunkIsDriven, PathTypeOK, Starts
  <2>3. QED
    BY <1>4, <2>1, <2>2 DEF ChunkIsDriven, Driven
<1>6. StoredIsDriven'
  <2>1. \A p \in Paths : Driven(p, stored[p].points.have)'
    BY <1>1, <1>4 DEF StoredIsDriven, Driven, rowVars
  <2>2. \A c \in answers' : ChunkIsDriven(c)'
    BY <1>1, <1>5 DEF StoredIsDriven, PathTypeOK
  <2>3. ASSUME NEW h \in handling'
        PROVE  (ChunkIsDriven(h.chunk) /\ Driven(PathOf(h.chunk), h.loaded.have))'
    <3>1. h \in handling /\ h.chunk \in Chunk /\ h.chunk.path \in Paths
      BY <1>1, <2>3 DEF PathTypeOK, Chunk
    <3>2. QED
      BY <1>4, <1>5, <3>1 DEF StoredIsDriven, Driven, PathOf
  <2>4. QED
    BY <2>1, <2>2, <2>3 DEF StoredIsDriven
<1>7. RunsAreHeard'
  <2>1. /\ visits \in Nat /\ visits' \in Nat
        /\ \/ visits' = visits /\ (mode' = "charge" => mode = "charge")
           \/ visits' = visits + 1
    BY <1>2, PathAssumption DEF Drives, Cleans, HeadsBack, Docks, PathTypeOK
  <2>2. ASSUME NEW v \in Nat, NEW d \in BOOLEAN, Begun(v, d)
        PROVE  v < visits' \/ (v = visits' /\ (mode' = "charge" => d))
    BY <2>1, <2>2 DEF Begun
  <2>3. Begun(heard.visit, heard.docked)'
    <3>1. heard.visit \in Nat /\ heard.docked \in BOOLEAN /\ heard' = heard
      BY <1>1 DEF PathTypeOK, statusVars, runVars
    <3>2. QED
      BY <2>2, <3>1 DEF RunsAreHeard, Begun
  <2>4. ASSUME NEW m \in told'
        PROVE  m.visit < visits' \/ (m.visit = visits' /\ (mode' = "charge" => m.mode = "charge"))
    <3>1. CASE m \in told
      <4>1. m.visit \in Nat
        BY <3>1, PathAssumption DEF PathTypeOK, Status
      <4>2. QED
        BY <2>2, <3>1, <4>1 DEF RunsAreHeard
    <3>2. CASE m = [mode |-> mode', visit |-> visits']
      BY <3>2
    <3>3. QED
      BY <1>0, <2>4, <3>1, <3>2 DEF Tells
  <2>5. dock' = dock /\ stored' = stored /\ heard' = heard /\ late' = late
    BY <1>1 DEF statusVars, runVars, rowVars
  <2>6. QED
    BY <2>3, <2>4, <2>5 DEF RunsAreHeard, Recounts, Begun
<1>8. OnlyLastRuns'
  BY <1>1 DEF OnlyLastRuns, rowVars, statusVars, runVars
<1>9. QED
  BY <1>3, <1>6, <1>7, <1>8

\* The poller, the queue and the network.
LEMMA WireKeeps ==
    ASSUME PathInv,
           AnswerIsLost \/ PollAsks \/ RequestAnswered \/ RequestIsLost \/ RequestEnds
    PROVE  PathInv'
<1> USE DEF PathInv
<1>1. UNCHANGED <<robotVars, rowVars, statusVars, handling>>
  BY DEF AnswerIsLost, PollAsks, RequestAnswered, RequestIsLost, RequestSent, RequestEnds
<1>2. request' \in [state : {"none", "pending", "sent"}, start : Starts]
  BY PathAssumption
     DEF PathTypeOK, AnswerIsLost, PollAsks, RequestAnswered, RequestIsLost, RequestSent,
         RequestEnds, NoRequest, Starts
<1>3. \A c \in answers' : c \in answers \/ c = Answer(request.start)
  BY DEF AnswerIsLost, PollAsks, RequestAnswered, RequestIsLost, RequestEnds
<1>4. request.start \in Starts
  BY DEF PathTypeOK
<1>5. answers' \in SUBSET Chunk /\ \A c \in answers' : ChunkIsDriven(c)
  BY <1>3, <1>4, AnswerFacts DEF PathTypeOK, StoredIsDriven
<1>6. PathTypeOK'
  BY <1>1, <1>2, <1>5 DEF PathTypeOK, robotVars, rowVars, statusVars, runVars
<1>7. StoredIsDriven'
  BY <1>1, <1>5 DEF StoredIsDriven, robotVars, rowVars, ChunkIsDriven, Driven, PathOf
<1>8. RunsAreHeard' /\ OnlyLastRuns'
  BY <1>1 DEF RunsAreHeard, Recounts, Begun, OnlyLastRuns, robotVars, rowVars, statusVars,
             runVars
<1>9. QED
  BY <1>6, <1>7, <1>8

\* An answer is loaded: its row's points are what the handler holds.
LEMMA LoadKeeps ==
    ASSUME PathInv, Posted \/ PostedAgain
    PROVE  PathInv'
<1> USE DEF PathInv
<1>1. PICK c \in answers : HandlerLoads(c)
  BY DEF Posted, PostedAgain
<1> DEFINE new == [chunk |-> c, loaded |-> stored[PathOf(c)].points]
<1>2. /\ UNCHANGED <<robotVars, rowVars, statusVars>>
      /\ handling' = handling \cup {new}
      /\ answers' \subseteq answers
  BY <1>1 DEF HandlerLoads, Posted, PostedAgain
<1>3. request' \in [state : {"none", "pending", "sent"}, start : Starts]
  BY <1>1, PathAssumption DEF HandlerLoads, PathTypeOK, NoRequest, Starts
<1>4. c \in Chunk /\ PathOf(c) \in Paths /\ ChunkIsDriven(c)
  BY DEF PathTypeOK, StoredIsDriven, Chunk, PathOf
<1>5. new \in [chunk : Chunk, loaded : Assembly] /\ Driven(PathOf(c), new.loaded.have)
  BY <1>4 DEF PathTypeOK, StoredIsDriven
<1>6. PathTypeOK'
  BY <1>2, <1>3, <1>5 DEF PathTypeOK, robotVars, rowVars, statusVars, runVars
<1>7. StoredIsDriven'
  <2>1. \A h \in handling' : ChunkIsDriven(h.chunk) /\ Driven(PathOf(h.chunk), h.loaded.have)
    BY <1>2, <1>4, <1>5 DEF StoredIsDriven
  <2>2. QED
    BY <1>2, <2>1 DEF StoredIsDriven, robotVars, rowVars, ChunkIsDriven, Driven, PathOf
<1>8. RunsAreHeard' /\ OnlyLastRuns'
  BY <1>2 DEF RunsAreHeard, Recounts, Begun, OnlyLastRuns, robotVars, rowVars, statusVars,
             runVars
<1>9. QED
  BY <1>6, <1>7, <1>8

\* A handler stores, or fails: the row is of its chunk's path, and a new row
\* is of the run in progress, which is never pruned.
LEMMA StoreKeeps ==
    ASSUME PathInv, HandlerStores \/ HandlerFails
    PROVE  PathInv'
<1> USE DEF PathInv
<1>1. UNCHANGED <<robotVars, answers, statusVars, request>> /\ handling' \subseteq handling
  BY DEF HandlerStores, HandlerFails
<1>2. CASE HandlerFails
  <2>1. UNCHANGED rowVars
    BY <1>2 DEF HandlerFails
  <2>2. PathTypeOK' /\ RunsAreHeard' /\ OnlyLastRuns'
    BY <1>1, <2>1
       DEF PathTypeOK, RunsAreHeard, Recounts, Begun, OnlyLastRuns, robotVars, rowVars, statusVars,
           runVars
  <2>3. StoredIsDriven'
    BY <1>1, <2>1 DEF StoredIsDriven, robotVars, rowVars, ChunkIsDriven, Driven, PathOf
  <2>4. QED
    BY <2>2, <2>3
<1>3. CASE HandlerStores
  <2>1. PICK h \in handling :
          /\ stored' = [stored EXCEPT ![PathOf(h.chunk)] =
                          [run |-> RunOf(PathOf(h.chunk)), points |-> Merge(h.loaded, h.chunk)]]
          /\ rows' = rows \cup {PathOf(h.chunk)}
          /\ newer' = {e \in newer : e[1] # PathOf(h.chunk)}
                        \cup {<<q, PathOf(h.chunk)>> : q \in rows \ {PathOf(h.chunk)}}
    BY <1>3 DEF HandlerStores
  <2> DEFINE p == PathOf(h.chunk)
             points == Merge(h.loaded, h.chunk)
  <2>2. /\ h.chunk \in Chunk /\ h.loaded \in Assembly /\ p \in Paths /\ p = h.chunk.path
        /\ ChunkIsDriven(h.chunk) /\ Driven(p, h.loaded.have)
    BY DEF PathTypeOK, StoredIsDriven, Chunk, PathOf
  <2>3. points \in Assembly /\ Driven(p, points.have)
    BY <2>2, MergeFacts
  <2>4. RunOf(p) \in Nat /\ RunOf(p) <= dock.run
    BY <2>2 DEF RunOf, PathTypeOK, RunsAreHeard
  <2>5. PathTypeOK'
    <3>1. stored' \in [Paths -> [run : Nat, points : Assembly]]
      BY <2>1, <2>2, <2>3, <2>4 DEF PathTypeOK
    <3>2. rows' \in SUBSET Paths /\ newer' \in SUBSET (Paths \X Paths)
      BY <2>1, <2>2 DEF PathTypeOK
    <3>3. QED
      BY <1>1, <3>1, <3>2 DEF PathTypeOK, robotVars, statusVars, runVars
  <2>6. /\ \A q \in Paths \ {p} : stored'[q] = stored[q]
        /\ stored'[p].run = RunOf(p) /\ stored'[p].points = points
    BY <2>1, <2>2 DEF PathTypeOK
  <2>7. StoredIsDriven'
    <3>1. \A q \in Paths : Driven(q, stored'[q].points.have)
      BY <2>3, <2>6 DEF StoredIsDriven
    <3>2. QED
      BY <1>1, <3>1 DEF StoredIsDriven, robotVars, ChunkIsDriven, Driven, PathOf
  <2>8. RunsAreHeard'
    BY <1>1, <2>4, <2>6 DEF RunsAreHeard, Recounts, Begun, robotVars, statusVars, runVars
  <2>9. OnlyLastRuns'
    <3>1. History \/ dock.run < 2 \/ RunOf(p) >= dock.run - 1
      BY <2>2 DEF RunOf, OnlyLastRuns, PathTypeOK
    <3>2. QED
      BY <1>1, <2>1, <2>6, <3>1 DEF OnlyLastRuns, statusVars, runVars, PathTypeOK
  <2>10. QED
    BY <2>5, <2>7, <2>8, <2>9
<1>4. QED
  BY <1>2, <1>3

\* Steps that may prune: what is left of the rows is as it was.
LEMMA PrunedRowsKeep ==
    ASSUME PathInv, NEW run \in Nat, dock.run <= run,
           Prunes(run) \/ (UNCHANGED rowVars /\ run = dock.run),
           UNCHANGED <<answers, driven>>, handling' \subseteq handling
    PROVE  /\ rows' \in SUBSET Paths
           /\ newer' \in SUBSET (Paths \X Paths)
           /\ stored' \in [Paths -> [run : Nat, points : Assembly]]
           /\ StoredIsDriven'
           /\ \A p \in Paths : stored'[p].run <= run
           /\ \A p \in rows' : History \/ run < 2 \/ stored'[p].run >= run - 1
<1> USE DEF PathInv
<1>1. /\ rows' \in SUBSET Paths /\ newer' \in SUBSET (Paths \X Paths)
      /\ stored' \in [Paths -> [run : Nat, points : Assembly]]
      /\ \A p \in Paths : stored'[p] = stored[p] \/ stored'[p] = Unstored
      /\ \A p \in rows' : History \/ run < 2 \/ stored'[p].run >= run - 1
  BY PruneFacts DEF rowVars, PathTypeOK, OnlyLastRuns
<1>2. Unstored.run = 0 /\ Unstored.points.have = {}
  BY DEF Unstored, NoPoints
<1>3. \A p \in Paths : stored'[p].run <= run
  <2> TAKE p \in Paths
  <2>1. stored[p].run \in Nat /\ stored[p].run <= dock.run /\ dock.run \in Nat
    BY DEF PathTypeOK, RunsAreHeard
  <2>2. QED
    BY <1>1, <1>2, <2>1
<1>4. \A p \in Paths : Driven(p, stored'[p].points.have)
  BY <1>1, <1>2 DEF StoredIsDriven, Driven
<1>5. StoredIsDriven'
  BY <1>4 DEF StoredIsDriven, ChunkIsDriven, Driven, PathOf
<1>6. QED
  BY <1>1, <1>3, <1>5

\* A status is handled: if its transaction goes through, the run and what was
\* heard advance together, or the status was late.
LEMMA HandledKeeps ==
    ASSUME PathInv, NEW m \in Status, Begun(m.visit, m.mode = "charge"), StatusHandled(m)
    PROVE  PathInv'
<1> USE DEF PathInv
<1>1. /\ telling' \in SUBSET {"poll", "skip"}
      /\ UNCHANGED <<robotVars, answers, shown, mapJob, request, handling>>
  BY DEF StatusHandled, Verdict, PathTypeOK
<1>2. CASE UNCHANGED <<runVars, rowVars>>
  <2>1. PathTypeOK'
    BY <1>1, <1>2 DEF PathTypeOK, robotVars, rowVars, runVars
  <2>2. StoredIsDriven'
    BY <1>1, <1>2 DEF StoredIsDriven, robotVars, rowVars, ChunkIsDriven, Driven, PathOf
  <2>3. RunsAreHeard' /\ OnlyLastRuns'
    BY <1>1, <1>2 DEF RunsAreHeard, Recounts, Begun, OnlyLastRuns, robotVars, rowVars, runVars
  <2>4. QED
    BY <2>1, <2>2, <2>3
<1>3. CASE Observes(m)
  <2> DEFINE enters == IsDocked(m.mode) /\ ~dock.docked
             run == IF enters THEN dock.run + 1 ELSE dock.run
  <2>1. /\ dock' = [docked |-> IsDocked(m.mode), run |-> run]
        /\ IF enters THEN Prunes(run) ELSE UNCHANGED rowVars
        /\ Hears(m)
    BY <1>3 DEF Observes
  <2>2. /\ dock.run \in Nat /\ dock.docked \in BOOLEAN
        /\ heard.visit \in Nat /\ heard.docked \in BOOLEAN /\ late \in Nat
        /\ m.visit \in Nat /\ visits \in Nat
    BY PathAssumption DEF PathTypeOK, Status
  <2>3. run \in Nat /\ dock.run <= run /\ (~enters => run = dock.run)
    BY <2>2
  <2>4. UNCHANGED <<answers, driven, handling>>
    BY <1>1 DEF robotVars
  <2>5. Prunes(run) \/ (UNCHANGED rowVars /\ run = dock.run)
    BY <2>1, <2>3
  <2>6. /\ dock'.run = IF m.mode = "charge" /\ ~dock.docked THEN dock.run + 1 ELSE dock.run
        /\ dock'.docked = (m.mode = "charge") /\ dock'.run = run
    BY <2>1 DEF IsDocked
  <2> HIDE DEF run
  <2>7. /\ rows' \in SUBSET Paths /\ newer' \in SUBSET (Paths \X Paths)
        /\ stored' \in [Paths -> [run : Nat, points : Assembly]]
        /\ StoredIsDriven'
        /\ \A p \in Paths : stored'[p].run <= run
        /\ \A p \in rows' : History \/ run < 2 \/ stored'[p].run >= run - 1
    BY <2>3, <2>4, <2>5, PrunedRowsKeep
  <2>8. /\ heard' \in [docked : BOOLEAN, visit : Nat] /\ late' \in Nat
        /\ Begun(heard'.visit, heard'.docked)
        /\ dock'.run + (IF heard'.docked /\ ~dock'.docked THEN 1 ELSE 0) <= heard'.visit + late'
    <3>1. dock.run + (IF heard.docked /\ ~dock.docked THEN 1 ELSE 0) <= heard.visit + late
      BY DEF RunsAreHeard, Recounts
    <3>2. CASE IsLate(m)
      <4>1. late' = late + 1 /\ heard' = heard
        BY <2>1, <3>2 DEF Hears
      <4>2. QED
        BY <2>2, <2>6, <3>1, <4>1 DEF PathTypeOK, RunsAreHeard
    <3>3. CASE ~IsLate(m)
      <4>1. /\ late' = late /\ heard' = [docked |-> m.mode = "charge", visit |-> m.visit]
            /\ heard'.docked = (m.mode = "charge") /\ heard'.visit = m.visit
        BY <2>1, <3>3 DEF Hears
      <4>2. m.visit > heard.visit \/ (m.visit = heard.visit /\ (m.mode = "charge" => heard.docked))
        BY <2>2, <3>3 DEF IsLate
      <4>3. QED
        BY <2>2, <2>6, <3>1, <4>1, <4>2
    <3>4. QED
      BY <3>2, <3>3
  <2>9. PathTypeOK'
    <3>1. dock' \in [docked : BOOLEAN, run : Nat]
      BY <2>1, <2>3 DEF IsDocked
    <3>2. QED
      BY <1>1, <2>7, <2>8, <3>1 DEF PathTypeOK, robotVars
  <2>10. RunsAreHeard'
    BY <1>1, <2>6, <2>7, <2>8 DEF RunsAreHeard, Recounts, Begun, robotVars
  <2>11. OnlyLastRuns'
    BY <2>6, <2>7 DEF OnlyLastRuns
  <2>12. QED
    BY <2>7, <2>9, <2>10, <2>11
<1>4. QED
  BY <1>2, <1>3 DEF StatusHandled

LEMMA StatusKeeps ==
    ASSUME PathInv,
           \/ StatusPosted \/ OldStatusPosted \/ StatusStored \/ StatusNotStored
           \/ MapStored \/ Restarts
    PROVE  PathInv'
<1> USE DEF PathInv
<1>1. CASE StatusPosted \/ OldStatusPosted
  <2> DEFINE present == [mode |-> mode, visit |-> visits]
  <2>1. present \in Status /\ Begun(present.visit, present.mode = "charge")
    BY DEF PathTypeOK, Status, Begun
  <2>2. \A m \in told : m \in Status /\ Begun(m.visit, m.mode = "charge")
    BY DEF PathTypeOK, RunsAreHeard
  <2>3. PICK m \in Status : Begun(m.visit, m.mode = "charge") /\ StatusHandled(m)
    BY <1>1, <2>1, <2>2 DEF StatusPosted, OldStatusPosted
  <2>4. QED
    BY <2>3, HandledKeeps
<1>2. CASE StatusStored \/ StatusNotStored \/ MapStored
  <2>1. UNCHANGED <<robotVars, answers, rowVars, runVars, request, handling>>
    BY <1>2 DEF StatusStored, StatusNotStored, MapStored
  <2>2. /\ telling' \in SUBSET {"poll", "skip"} /\ shown' \in {"poll", "skip"}
        /\ mapJob' \in Paths \cup {NoPath}
    BY <1>2 DEF StatusStored, StatusNotStored, MapStored, PathTypeOK
  <2>3. PathTypeOK'
    BY <2>1, <2>2 DEF PathTypeOK, robotVars, rowVars, runVars
  <2>4. StoredIsDriven'
    BY <2>1 DEF StoredIsDriven, robotVars, rowVars, ChunkIsDriven, Driven, PathOf
  <2>5. RunsAreHeard' /\ OnlyLastRuns'
    BY <2>1 DEF RunsAreHeard, Recounts, Begun, OnlyLastRuns, robotVars, rowVars, runVars
  <2>6. QED
    BY <2>3, <2>4, <2>5
<1>3. CASE Restarts
  <2>1. /\ UNCHANGED <<robotVars, answers, shown, mapJob, runVars, request>>
        /\ handling' = {} /\ telling' = {} /\ Prunes(dock.run)
    BY <1>3 DEF Restarts
  <2>2. dock.run \in Nat /\ dock.run <= dock.run /\ UNCHANGED <<answers, driven>>
        /\ handling' \subseteq handling
    BY <2>1 DEF PathTypeOK, robotVars
  <2>3. /\ rows' \in SUBSET Paths /\ newer' \in SUBSET (Paths \X Paths)
        /\ stored' \in [Paths -> [run : Nat, points : Assembly]]
        /\ StoredIsDriven'
        /\ \A p \in Paths : stored'[p].run <= dock.run
        /\ \A p \in rows' : History \/ dock.run < 2 \/ stored'[p].run >= dock.run - 1
    BY <2>1, <2>2, PrunedRowsKeep
  <2>4. PathTypeOK'
    BY <2>1, <2>3 DEF PathTypeOK, robotVars, runVars
  <2>5. RunsAreHeard' /\ OnlyLastRuns'
    BY <2>1, <2>3 DEF RunsAreHeard, Recounts, Begun, OnlyLastRuns, robotVars, runVars
  <2>6. QED
    BY <2>3, <2>4, <2>5
<1>4. QED
  BY <1>1, <1>2, <1>3

LEMMA StepKeeps == PathInv /\ [Next]_vars => PathInv'
<1> SUFFICES ASSUME PathInv, [Next]_vars PROVE PathInv'
  OBVIOUS
<1>1. CASE UNCHANGED vars
  BY <1>1
     DEF PathInv, PathTypeOK, StoredIsDriven, RunsAreHeard, Recounts, Begun, OnlyLastRuns,
         ChunkIsDriven, Driven, PathOf, vars, robotVars, rowVars, statusVars, runVars
<1>2. QED
  BY <1>1, RobotKeeps, WireKeeps, LoadKeeps, StoreKeeps, StatusKeeps DEF Next

THEOREM PathInvariant == Spec => []PathInv
BY InitEstablishes, StepKeeps, PTL DEF Spec

\* The stored paths, what is in flight and what the handlers hold keep their
\* types, for every bound.
THEOREM PathTypeCorrect == Spec => []PathTypeOK
<1>1. PathInv => PathTypeOK
  BY DEF PathInv
<1>2. QED
  BY <1>1, PathInvariant, PTL

\* No path is ever stored with points that are not its own.
THEOREM StoredIsAlwaysDriven == Spec => []StoredIsDriven
<1>1. PathInv => StoredIsDriven
  BY DEF PathInv
<1>2. QED
  BY <1>1, PathInvariant, PTL

\* Whatever statuses are lost, repeated, stored in part or handled late, each
\* late one adds a run at most to the robot's own (observe_path_mode).
THEOREM RunsAreAlwaysVisits == Spec => []RunsAreVisits
<1>1. PathInv => RunsAreVisits
  BY HeardAreVisits DEF PathInv
<1>2. QED
  BY <1>1, PathInvariant, PTL

\* The lean build stores the last two runs and nothing older.
THEOREM OnlyLastRunsAreKept == Spec => []OnlyLastRuns
<1>1. PathInv => OnlyLastRuns
  BY DEF PathInv
<1>2. QED
  BY <1>1, PathInvariant, PTL
=============================================================================
