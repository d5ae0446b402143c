----------------------------- MODULE MCPainter -----------------------------
(* Instances of EvdiPainter for TLC.                                       *)
EXTENDS EvdiPainterDevice

CONSTANTS f1, f2

\* Two framebuffers neither of which contains the other: a rectangle of one may
\* be too large for the other.
TwoSizes == f1 :> <<2, 1>> @@ f2 :> <<1, 2>>
SinglePixels == f1 :> <<1, 1>> @@ f2 :> <<1, 1>>

R(x1, y1, x2, y2) == [x1 |-> x1, y1 |-> y1, x2 |-> x2, y2 |-> y2]

\* the right pixel of the wide framebuffer, with its corners swapped
OneClip == {<<R(2, 1, 1, 0)>>}
\* the pixel
ThePixel == {<<R(1, 1, 0, 0)>>}

=============================================================================
