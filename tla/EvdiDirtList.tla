---------------------------- MODULE EvdiDirtList ----------------------------
(***************************************************************************)
(* The painter's array of dirty rectangles at the grain of its loops: the  *)
(* locked sections of evdi_painter_mark_dirty and of                       *)
(* evdi_painter_grabpix_ioctl, which run merge_dirty_rects and             *)
(* collapse_dirty_rects (src/evdi/module/evdi_painter.c).  The painter's   *)
(* lock makes a section exclusive, so one section runs at a time.  Array   *)
(* indices start at 0, as in the code; the slots from num_dirts on hold    *)
(* whatever was left there.                                                *)
(***************************************************************************)
EXTENDS EvdiRects

CONSTANTS MAX_DIRTS,    \* capacity of the array (16)
          FbRects       \* what sanitize_rect can return for the framebuffer

ASSUME MaxDirtsAssumption == MAX_DIRTS \in Nat /\ MAX_DIRTS >= 2
ASSUME FbRectsAssumption == FbRects \subseteq Rect

VARIABLES dirty_rects,  \* painter->dirty_rects
          num_dirts,    \* painter->num_dirts
          op,           \* the section that runs: "none", "mark" or "grab"
          arg,          \* mark: the rectangle to add
          room,         \* grab: cmd->num_rects, the client's room
          pc,           \* "idle", "merge", "collapse" or "finish"
          a, b,         \* merge: the pair; collapse: b is the index i
          given,        \* history: the list when the section started
          taken         \* what the latest section handed to a grab

vars == <<dirty_rects, num_dirts, op, arg, room, pc, a, b, given, taken>>

Slots == 0 .. MAX_DIRTS - 1

Zero == [x1 |-> 0, y1 |-> 0, x2 |-> 0, y2 |-> 0]

\* the array up to n, as a sequence
Listed(n) == [i \in 1 .. n |-> dirty_rects[i - 1]]

Init == /\ dirty_rects = [i \in Slots |-> Zero]     \* kzalloc
        /\ num_dirts = 0
        /\ op = "none" /\ arg = Zero /\ room = 1 /\ pc = "idle"
        /\ a = 0 /\ b = 0
        /\ given = <<>> /\ taken = <<>>

\* Mutant of StartMark: the full array is noticed one rectangle too late.
StartMarkLate(rect) ==
    /\ pc = "idle"
    /\ op' = "mark" /\ arg' = rect
    /\ pc' = IF num_dirts > MAX_DIRTS THEN "merge" ELSE "finish"
    /\ a' = 0 /\ b' = 1
    /\ given' = Listed(num_dirts)
    /\ UNCHANGED <<dirty_rects, num_dirts, room, taken>>

\* "if (painter->num_dirts == MAX_DIRTS) merge_dirty_rects(...)"
StartMark(rect) ==
    /\ pc = "idle"
    /\ op' = "mark" /\ arg' = rect
    /\ pc' = IF num_dirts = MAX_DIRTS THEN "merge" ELSE "finish"
    /\ a' = 0 /\ b' = 1
    /\ given' = Listed(num_dirts)
    /\ UNCHANGED <<dirty_rects, num_dirts, room, taken>>

StartGrab(n) ==
    /\ pc = "idle"
    /\ op' = "grab" /\ room' = n
    /\ pc' = "merge"
    /\ a' = 0 /\ b' = 1
    /\ given' = Listed(num_dirts)
    /\ UNCHANGED <<dirty_rects, num_dirts, arg, taken>>

\* Mutant of MustCollapse: the client's room is not looked at.
MustCollapseForMark == op = "mark" /\ num_dirts = MAX_DIRTS

\* after merging: mark collapses a list that is still full, grab one that does
\* not fit in the client's array
MustCollapse == \/ op = "mark" /\ num_dirts = MAX_DIRTS
                \/ op = "grab" /\ num_dirts > room

\* the loop test of `for (a = 0; a < *count - 1; ++a)' fails
MergeDone ==
    /\ pc = "merge" /\ a >= num_dirts - 1
    /\ pc' = IF MustCollapse THEN "collapse" ELSE "finish"
    /\ b' = 1
    /\ UNCHANGED <<dirty_rects, num_dirts, op, arg, room, a, given, taken>>

\* `b < *count' fails: ++a, and b starts again behind it
MergeNextA ==
    /\ pc = "merge" /\ a < num_dirts - 1 /\ b >= num_dirts
    /\ a' = a + 1 /\ b' = a + 2
    /\ UNCHANGED <<dirty_rects, num_dirts, op, arg, room, pc, given, taken>>

\* Mutant of MergeTwo: the last rectangle does not take the free place.
MergeTwoLosesLast ==
    /\ pc = "merge" /\ a < num_dirts - 1 /\ b < num_dirts
    /\ Mergeable(dirty_rects[a], dirty_rects[b])
    /\ dirty_rects' = [dirty_rects EXCEPT ![a] = expand_rect(dirty_rects[a], dirty_rects[b])]
    /\ num_dirts' = num_dirts - 1
    /\ b' = a + 1
    /\ UNCHANGED <<op, arg, room, pc, a, given, taken>>

\* Mutant of MergeTwo: b does not go back to the entries behind a.
MergeTwoWithoutRepass ==
    /\ pc = "merge" /\ a < num_dirts - 1 /\ b < num_dirts
    /\ Mergeable(dirty_rects[a], dirty_rects[b])
    /\ dirty_rects' = [dirty_rects EXCEPT
                          ![a] = expand_rect(dirty_rects[a], dirty_rects[b]),
                          ![b] = dirty_rects[num_dirts - 1]]
    /\ num_dirts' = num_dirts - 1
    /\ UNCHANGED <<op, arg, room, pc, a, b, given, taken>>

\* Mutant of MergeTwo: *count is not decremented.
MergeTwoKeepsCount ==
    /\ pc = "merge" /\ a < num_dirts - 1 /\ b < num_dirts
    /\ Mergeable(dirty_rects[a], dirty_rects[b])
    /\ dirty_rects' = [dirty_rects EXCEPT
                          ![a] = expand_rect(dirty_rects[a], dirty_rects[b]),
                          ![b] = dirty_rects[num_dirts - 1]]
    /\ b' = a + 1
    /\ UNCHANGED <<num_dirts, op, arg, room, pc, a, given, taken>>

\* the two rectangles become one, and a is compared with all the others again
MergeTwo ==
    /\ pc = "merge" /\ a < num_dirts - 1 /\ b < num_dirts
    /\ Mergeable(dirty_rects[a], dirty_rects[b])
    /\ dirty_rects' = [dirty_rects EXCEPT
                          ![a] = expand_rect(dirty_rects[a], dirty_rects[b]),
                          ![b] = dirty_rects[num_dirts - 1]]
    /\ num_dirts' = num_dirts - 1
    /\ b' = a + 1
    /\ UNCHANGED <<op, arg, room, pc, a, given, taken>>

MergeNextB ==
    /\ pc = "merge" /\ a < num_dirts - 1 /\ b < num_dirts
    /\ ~ Mergeable(dirty_rects[a], dirty_rects[b])
    /\ b' = b + 1
    /\ UNCHANGED <<dirty_rects, num_dirts, op, arg, room, pc, a, given, taken>>

CollapseOne ==
    /\ pc = "collapse" /\ b < num_dirts
    /\ dirty_rects' = [dirty_rects EXCEPT ![0] = expand_rect(@, dirty_rects[b])]
    /\ b' = b + 1
    /\ UNCHANGED <<num_dirts, op, arg, room, pc, a, given, taken>>

CollapseDone ==
    /\ pc = "collapse" /\ b >= num_dirts
    /\ num_dirts' = 1
    /\ pc' = "finish"
    /\ UNCHANGED <<dirty_rects, op, arg, room, a, b, given, taken>>

\* the section ends: its locals are gone
Return == /\ pc' = "idle" /\ op' = "none" /\ arg' = Zero /\ room' = 1
          /\ a' = 0 /\ b' = 0 /\ given' = <<>>

\* memcpy(&painter->dirty_rects[painter->num_dirts], &rect); num_dirts++
FinishMark ==
    /\ pc = "finish" /\ op = "mark"
    /\ dirty_rects' = [dirty_rects EXCEPT ![num_dirts] = arg]
    /\ num_dirts' = num_dirts + 1
    /\ taken' = <<>>
    /\ Return

\* memcpy(dirty_rects, painter->dirty_rects); num_dirts = 0
FinishGrab ==
    /\ pc = "finish" /\ op = "grab"
    /\ taken' = Listed(num_dirts)
    /\ num_dirts' = 0
    /\ UNCHANGED dirty_rects
    /\ Return

\* Mutant of FinishGrabAgain: the list is emptied before the error.
FinishGrabAgainForgets ==
    /\ pc = "finish" /\ op = "grab"
    /\ taken' = <<>>
    /\ num_dirts' = 0
    /\ UNCHANGED dirty_rects
    /\ Return

\* "Scanout buffer not set": -EAGAIN, and the list stays
FinishGrabAgain ==
    /\ pc = "finish" /\ op = "grab"
    /\ taken' = <<>>
    /\ UNCHANGED <<dirty_rects, num_dirts>>
    /\ Return

Work == \/ MergeDone \/ MergeNextA \/ MergeTwo \/ MergeNextB
        \/ CollapseOne \/ CollapseDone
        \/ FinishMark \/ FinishGrab \/ FinishGrabAgain

Next == \/ \E rect \in FbRects : StartMark(rect)
        \/ \E n \in 1 .. MAX_DIRTS : StartGrab(n)
        \/ Work

Spec == Init /\ [][Next]_vars

\* A section runs to its end: the code holds the lock and never sleeps in it.
FairSpec == Spec /\ WF_vars(Work)

-----------------------------------------------------------------------------

\* Every variable keeps its type; the array holds rectangles with ordered
\* corners only (evdi_painter.dirty_rects, num_dirts <= MAX_DIRTS).
TypeOK == /\ dirty_rects \in [Slots -> Rect]
          /\ num_dirts \in 0 .. MAX_DIRTS
          /\ op \in {"none", "mark", "grab"}
          /\ arg \in Rect
          /\ room \in 1 .. MAX_DIRTS
          /\ pc \in {"idle", "merge", "collapse", "finish"}
          /\ a \in 0 .. MAX_DIRTS /\ b \in 0 .. MAX_DIRTS + 1
          /\ given \in Seq(Rect) /\ Len(given) <= MAX_DIRTS
          /\ taken \in Seq(Rect) /\ Len(taken) <= MAX_DIRTS

\* In the middle of collapsing, entry 0 already covers the entries before b.
\* All the other entries are as the merge left them.
CoverageKept ==
    pc # "idle" => /\ \A x, y \in Coord : ListCovers(given, x, y) =>
                          \E i \in 0 .. num_dirts - 1 : Covers(dirty_rects[i], x, y)
                   /\ num_dirts <= Len(given)
                   /\ given # <<>> => num_dirts > 0

\* When a section is about to finish there is room for its result: a slot for
\* the rectangle mark_dirty appends (dirty_rects is not overrun), and room in
\* the client's array for what grabpix copies out.
FitsAtFinish ==
    pc = "finish" => /\ op = "mark" => num_dirts < MAX_DIRTS
                     /\ op = "grab" => num_dirts <= room

\* merge_dirty_rects computes merge_rects, the function EvdiPainter uses, as
\* long as nothing was collapsed.
LoopComputesMerge ==
    pc = "finish" /\ op = "grab" /\ num_dirts > 1 => Listed(num_dirts) = merge_rects(given)

\* Every section ends: the repass of merge_dirty_rects (b goes back to a + 1)
\* cannot go on for ever.
SectionEnds == pc # "idle" ~> pc = "idle"

\* The list of rectangles an observer sees: a section takes effect at its end.
Region == INSTANCE EvdiDirtRegion WITH
              list <- IF pc = "idle" THEN Listed(num_dirts) ELSE given

\* The loops implement the atomic operations of EvdiDirtRegion.
ImplementsRegion == Region!Spec

=============================================================================
