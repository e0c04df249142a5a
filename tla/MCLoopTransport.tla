--------------------------- MODULE MCLoopTransport ---------------------------
(* LoopTransport on a time line of six positions, with two overlapping     *)
(* regions and an empty one.                                               *)
EXTENDS LoopTransport

Region(a, b) == [in_seconds |-> a, out_seconds |-> b]

MCPositions == 0 .. 5 \cup {NonFinite}
MCRegions == {Region(0, 2), Region(1, 4), Region(3, 3)}
==============================================================================
