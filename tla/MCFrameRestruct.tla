--------------------------- MODULE MCFrameRestruct ---------------------------
(* FrameRestruct for TLC: all streams of up to MaxParts of the parts below. *)
EXTENDS FrameRestruct

CONSTANT MaxParts

\* Frames, two of them with a head or a whole frame's beginning in their data.
Frames ==
  { <<126, 0, 5, 1, 165>>, <<126, 0, 5, 126, 165>>, <<126, 0, 7, 126, 0, 5, 165>> }

\* Other parts: single bytes, a length too short or too long, a wrong end.
Noise ==
  { <<126>>, <<0>>, <<165>>, <<126, 0, 4>>, <<126, 0, 8>>, <<126, 0, 6, 1, 1, 1>> }

Streams == UNION {[1 .. n -> Frames \cup Noise] : n \in 1 .. MaxParts}
=============================================================================
