----------------------------- MODULE FrameCodec -----------------------------
(***************************************************************************)
(* The incremental splitter of channel B (Decoder, src/channel_b/codec.rs):*)
(* bytes come in whatever pieces the socket gives, frames end at #\t#, and *)
(* the piece of a frame that has not ended yet is kept for the next read.  *)
(* Three kinds of bytes are enough: those of the delimiter, "t" (the tab,  *)
(* which alone makes a blank frame), and any other.                        *)
(***************************************************************************)
EXTENDS Naturals, Sequences, FiniteSets

CONSTANT MaxFrame    \* gateway.max_frame_bytes

ASSUME FrameAssumption == MaxFrame \in Nat \ {0}

Bytes == {"#", "t", "x"}
Delimiter == <<"#", "t", "#">>

\* find_delimiter(&buf[from..]): the windows of three bytes that match.
DelimitersFrom(buf, from) ==
    {i \in from .. Len(buf) - 2 : SubSeq(buf, i, i + 2) = Delimiter}
Leftmost(places) == CHOOSE i \in places : \A j \in places : i <= j

\* A slip: the # that ends a frame is taken for the start of the next end.
NextFrameOverlapping(at) == at + Len(Delimiter) - 1

\* start = end + DELIMITER.len()
NextFrame(at) == at + Len(Delimiter)

\* The loop of push: the frames, where the rest starts, and whether every
\* frame ended within the limit.  A frame's end is counted from the start of
\* the buffer, so the frames before it in the same read count as well.
Split(buf) ==
    LET scan[start \in 1 .. Len(buf) + 1] ==
            LET places == DelimitersFrom(buf, start)
                at == Leftmost(places)
                more == scan[NextFrame(at)]
            IN  IF places = {}
                THEN [frames |-> <<>>, start |-> start, fits |-> TRUE]
                ELSE [frames |-> <<SubSeq(buf, start, at - 1)>> \o more.frames,
                      start |-> more.start,
                      fits |-> at - 1 <= MaxFrame /\ more.fits]
    IN  scan[1]

\* What stays in the buffer.
Rest(buf) == SubSeq(buf, Split(buf).start, Len(buf))

\* A slip: only terminated frames are measured.
FitsWhenTerminated(buf) == Split(buf).fits

\* push returns its frames; otherwise it is an error and the connection closes.
Fits(buf) == Split(buf).fits /\ Len(Rest(buf)) <= MaxFrame

Blank(frame) == \A i \in DOMAIN frame : frame[i] = "t"
=============================================================================
