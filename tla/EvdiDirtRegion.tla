-------------------------- MODULE EvdiDirtRegion --------------------------
(***************************************************************************)
(* What the painter's list of dirty rectangles promises, whatever way the  *)
(* driver shortens it: marking a rectangle and taking the list are atomic  *)
(* and neither forgets a dirty pixel.  EvdiDirtList implements this.       *)
(***************************************************************************)
EXTENDS EvdiRects

CONSTANT MAX_DIRTS      \* capacity of evdi_painter.dirty_rects (16)

VARIABLES list,         \* the dirty rectangles, at most MAX_DIRTS
          taken         \* the list the latest operation handed out

vars == <<list, taken>>

Init == list = <<>> /\ taken = <<>>

\* A rectangle is added; the others may be replaced by fewer that cover more.
Mark ==
    /\ list' \in Seq(Rect) /\ Len(list') \in 1 .. MAX_DIRTS
    /\ Compacts(list, Front(list'))
    /\ taken' = <<>>

\* The list, reduced to at most n rectangles, is handed out and forgotten.
Take(n) ==
    /\ Compacts(list, taken') /\ Len(taken') <= n
    /\ list' = <<>>

\* The list is only compacted: the grab that wanted it finds no scanout buffer.
Keep ==
    /\ Compacts(list, list')
    /\ taken' = <<>>

Next == \/ Mark
        \/ \E n \in 1 .. MAX_DIRTS : Take(n)
        \/ Keep

Spec == Init /\ [][Next]_vars

=============================================================================
