----------------------------- MODULE MCDirtList -----------------------------
(* Instances of EvdiDirtList for TLC.                                      *)
EXTENDS EvdiDirtList

R(x1, y1, x2, y2) == [x1 |-> x1, y1 |-> y1, x2 |-> x2, y2 |-> y2]

\* A framebuffer of 3 x 3 pixels: damage in three corners and between
\* two of them, and an empty rectangle, which is what sanitize_rect makes of damage
\* beyond the framebuffer.  Some pairs merge, some only after another merge.
Corners == {R(0, 0, 1, 1), R(2, 0, 3, 1), R(0, 2, 1, 3), R(1, 0, 2, 1), R(3, 3, 3, 3)}

=============================================================================
