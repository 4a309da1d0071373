---------------------------- MODULE PathAssembly ----------------------------
(***************************************************************************)
(* The assembly of one clean path from the robot's 21011 replies           *)
(* (src/path.rs).  A list of Option<point> is the number of its slots and  *)
(* the set of the slots that are filled; which point a slot holds is left  *)
(* out, for the robot's points do not change.                              *)
(***************************************************************************)
EXTENDS Integers, FiniteSets

Larger(a, b) == IF a < b THEN b ELSE a

\* Assembly::new, and what from_json makes of a list it cannot read.
NoPoints == [span |-> 0, have |-> {}]

\* The slots 0 .. n - 1.
Slots(n) == 0 .. n - 1

\* Of a reply only where it starts, how many points it carries and the
\* total it claims.
Carried(chunk) == chunk.start .. chunk.start + chunk.count - 1

\* A slip: the total is taken to be what is left from the start on.
MergeRest(a, chunk) ==
    [span |-> Larger(a.span, chunk.start + chunk.total),
     have |-> a.have \cup Carried(chunk)]

\* Assembly::merge
Merge(a, chunk) ==
    [span |-> Larger(a.span, Larger(chunk.start + chunk.count, chunk.total)),
     have |-> a.have \cup Carried(chunk)]

\* The slots that are None.
Missing(a) == Slots(a.span) \ a.have

\* A slip: the end of the list, holes or not.
EndIndex(a) == a.span

\* Assembly::next_index
NextIndex(a) ==
    IF Missing(a) = {} THEN a.span
    ELSE CHOOSE i \in Missing(a) : \A j \in Missing(a) : i <= j
=============================================================================
