----------------------------- MODULE EvdiRects -----------------------------
(***************************************************************************)
(* The clip rectangles of the evdi kernel module and the algorithms that   *)
(* keep the painter's list of dirty rectangles short                       *)
(* (src/evdi/module/evdi_painter.c, evdi_fb.c).  A rectangle is half open: *)
(* it covers the pixels with x1 <= x < x2 and y1 <= y < y2.  The array     *)
(* `rects' and its `count' are a sequence; its indices start at 1.         *)
(***************************************************************************)
EXTENDS Integers, Sequences, SequencesExt

CONSTANT MaxCoord       \* largest value of a coordinate (65535, unsigned short)

ASSUME MaxCoordAssumption == MaxCoord \in Nat

Coord == 0 .. MaxCoord

\* struct drm_clip_rect, as user space may fill it in
ClipRect == [x1 : Coord, y1 : Coord, x2 : Coord, y2 : Coord]

\* the rectangles that evdi_framebuffer_sanitize_rect returns
Ordered(r) == r.x1 <= r.x2 /\ r.y1 <= r.y2
Rect == {r \in ClipRect : Ordered(r)}

Lo(a, b) == IF a <= b THEN a ELSE b
Hi(a, b) == IF a >= b THEN a ELSE b

expand_rect(a, b) == [x1 |-> Lo(a.x1, b.x1), y1 |-> Lo(a.y1, b.y1),
                      x2 |-> Hi(a.x2, b.x2), y2 |-> Hi(a.y2, b.y2)]

rect_area(r) == (r.x2 - r.x1) * (r.y2 - r.y1)

\* evdi_framebuffer_sanitize_rect for a framebuffer of w x h pixels: swapped
\* corners are exchanged, then every coordinate is clamped to the framebuffer.
sanitize_rect(w, h, r) == [x1 |-> Lo(Lo(r.x1, r.x2), w), y1 |-> Lo(Lo(r.y1, r.y2), h),
                           x2 |-> Lo(Hi(r.x1, r.x2), w), y2 |-> Lo(Hi(r.y1, r.y2), h)]

\* "collapse to bounding rect if it is fewer pixels"
Mergeable(a, b) == rect_area(expand_rect(a, b)) <= rect_area(a) + rect_area(b)

\* rects[a] becomes the bounding rectangle, the last one takes the place of b
MergePair(rects, a, b) ==
    Front([rects EXCEPT ![a] = expand_rect(rects[a], rects[b]), ![b] = Last(rects)])

\* where the two loops of merge_dirty_rects are: the array and the pair (a, b)
Merging == {m \in Seq(Rect) \X (Nat \ {0}) \X Nat : m[2] < m[3]}

\* what they make of the array from there on
MergeFrom[m \in Merging] ==
    LET rects == m[1]
        a == m[2]
        b == m[3]
    IN  IF a >= Len(rects) THEN rects
        ELSE IF b > Len(rects) THEN MergeFrom[<<rects, a + 1, a + 2>>]
        ELSE IF Mergeable(rects[a], rects[b]) THEN MergeFrom[<<MergePair(rects, a, b), a, a + 1>>]
        ELSE MergeFrom[<<rects, a, b + 1>>]

merge_rects(rects) == MergeFrom[<<rects, 1, 2>>]

collapse_rects(rects) == <<FoldLeft(expand_rect, Head(rects), Tail(rects))>>

-----------------------------------------------------------------------------
(* What the painter may rely on.                                           *)

Covers(r, x, y) == r.x1 <= x /\ x < r.x2 /\ r.y1 <= y /\ y < r.y2

ListCovers(rects, x, y) == \E i \in DOMAIN rects : Covers(rects[i], x, y)

\* `to' can stand for `from' in the list of dirty rectangles: it is no longer,
\* not empty unless `from' is, and every pixel `from' covers is still covered.
Compacts(from, to) ==
    /\ to \in Seq(Rect)
    /\ Len(to) <= Len(from)
    /\ from # <<>> => to # <<>>
    /\ \A x, y \in Coord : ListCovers(from, x, y) => ListCovers(to, x, y)

\* the lists of at most n rectangles
DirtLists(n) == UNION {[1 .. m -> Rect] : m \in 0 .. n}

=============================================================================
