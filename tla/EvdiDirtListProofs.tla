------------------------- MODULE EvdiDirtListProofs -------------------------
(***************************************************************************)
(* Proofs about EvdiDirtList, for every capacity of the array, every       *)
(* framebuffer and every room of the client:                               *)
(*   - the loops never leave the array and never lose a dirty pixel        *)
(*     (Invariance, Coverage, Fits);                                       *)
(*   - they implement the atomic operations of EvdiDirtRegion              *)
(*     (Refinement);                                                       *)
(*   - they compute the function merge_rects (MergeIsComputed), and        *)
(*     merge_rects and collapse_rects do what EvdiPainter assumes of them, *)
(*     for lists of any length (MergeCompacts, CollapseCompacts).          *)
(***************************************************************************)
EXTENDS EvdiDirtList, WellFoundedInduction, TLAPS

\* expand_rect keeps the corners ordered and covers what both rectangles cover.
LEMMA ExpandRect ==
    ASSUME NEW r \in Rect, NEW s \in Rect
    PROVE  /\ expand_rect(r, s) \in Rect
           /\ \A x, y \in Coord : Covers(r, x, y) \/ Covers(s, x, y) =>
                                      Covers(expand_rect(r, s), x, y)
BY MaxCoordAssumption DEF expand_rect, Rect, ClipRect, Ordered, Coord, Lo, Hi, Covers

LEMMA ZeroIsRect == Zero \in Rect
BY MaxCoordAssumption DEF Zero, Rect, ClipRect, Ordered, Coord

-----------------------------------------------------------------------------
(* The inductive invariant.  CoverageKept alone is not inductive: in the   *)
(* middle of a collapse, entry 0 and the entries from b on cover the list, *)
(* and a merge step is only sound because a and b are different entries.   *)

CollapseCovers ==
    pc = "collapse" =>
        /\ b >= 1 /\ num_dirts >= 1
        /\ \A x, y \in Coord : ListCovers(given, x, y) =>
               \/ Covers(dirty_rects[0], x, y)
               \/ \E i \in b .. num_dirts - 1 : Covers(dirty_rects[i], x, y)

IInv == /\ TypeOK
        /\ CoverageKept
        /\ CollapseCovers
        /\ FitsAtFinish
        /\ pc = "merge" => a < b
        /\ pc # "idle" <=> op # "none"

LEMMA InitInvariant == Init => IInv
BY ZeroIsRect, MaxDirtsAssumption
   DEF Init, IInv, TypeOK, CoverageKept, CollapseCovers, FitsAtFinish, Slots

\* The entries up to num_dirts, as a sequence, are a list of rectangles.
LEMMA ListedType ==
    ASSUME TypeOK
    PROVE  /\ Listed(num_dirts) \in Seq(Rect)
           /\ Len(Listed(num_dirts)) = num_dirts
           /\ \A x, y \in Coord : ListCovers(Listed(num_dirts), x, y) =>
                  \E i \in 0 .. num_dirts - 1 : Covers(dirty_rects[i], x, y)
<1>1. \A i \in 1 .. num_dirts : dirty_rects[i - 1] \in Rect
  BY MaxDirtsAssumption DEF TypeOK, Slots
<1>2. Listed(num_dirts) \in Seq(Rect) /\ Len(Listed(num_dirts)) = num_dirts
  BY <1>1, MaxDirtsAssumption DEF TypeOK, Listed
<1>3. ASSUME NEW x \in Coord, NEW y \in Coord, ListCovers(Listed(num_dirts), x, y)
      PROVE  \E i \in 0 .. num_dirts - 1 : Covers(dirty_rects[i], x, y)
  <2>1. PICK i \in 1 .. num_dirts : Covers(dirty_rects[i - 1], x, y)
    BY <1>3, <1>2 DEF ListCovers, Listed, TypeOK
  <2>2. i - 1 \in 0 .. num_dirts - 1
    BY DEF TypeOK
  <2> QED BY <2>1, <2>2
<1> QED BY <1>2, <1>3

\* A section starts with the list it was given.
LEMMA StartPreserves ==
    ASSUME IInv, given' = Listed(num_dirts),
           pc = "idle", pc' \in {"merge", "finish"},
           UNCHANGED <<dirty_rects, num_dirts>>
    PROVE  CoverageKept' /\ CollapseCovers' /\ given' \in Seq(Rect) /\ Len(given') <= MAX_DIRTS
<1>1. TypeOK BY DEF IInv
<1>2. given' \in Seq(Rect) /\ Len(given') = num_dirts
  BY <1>1, ListedType
<1>3. \A x, y \in Coord : ListCovers(given', x, y) =>
          \E i \in 0 .. num_dirts' - 1 : Covers(dirty_rects'[i], x, y)
  BY <1>1, ListedType
<1>4. num_dirts' <= Len(given') /\ (given' # <<>> => num_dirts' > 0)
  BY <1>1, <1>2 DEF TypeOK
<1> QED BY <1>1, <1>2, <1>3, <1>4 DEF CoverageKept, CollapseCovers, TypeOK

\* Two entries become their bounding rectangle: what they covered is covered.
LEMMA MergeTwoPreserves ==
    ASSUME IInv, MergeTwo
    PROVE  IInv'
<1> USE MaxDirtsAssumption DEF Slots
<1> DEFINE r == expand_rect(dirty_rects[a], dirty_rects[b])
<1>1. /\ a \in Slots /\ b \in Slots /\ num_dirts - 1 \in Slots
      /\ a < b /\ b < num_dirts /\ num_dirts \in 1 .. MAX_DIRTS
  BY DEF IInv, TypeOK, MergeTwo
<1>2. r \in Rect /\ \A x, y \in Coord :
          Covers(dirty_rects[a], x, y) \/ Covers(dirty_rects[b], x, y) => Covers(r, x, y)
  BY <1>1, ExpandRect DEF IInv, TypeOK
<1>3. dirty_rects' \in [Slots -> Rect]
  BY <1>1, <1>2 DEF IInv, TypeOK, MergeTwo
<1>4. TypeOK'
  BY <1>1, <1>3 DEF IInv, TypeOK, MergeTwo, Slots
<1>5. ASSUME NEW x \in Coord, NEW y \in Coord, ListCovers(given, x, y)
      PROVE  \E i \in 0 .. num_dirts' - 1 : Covers(dirty_rects'[i], x, y)
  <2>1. PICK i \in 0 .. num_dirts - 1 : Covers(dirty_rects[i], x, y)
    BY <1>5 DEF IInv, CoverageKept, MergeTwo
  <2>2. i \in Slots
    BY <1>1 DEF Slots
  <2>3. dirty_rects'[a] = r /\ a \in 0 .. num_dirts' - 1
    BY <1>1 DEF IInv, TypeOK, MergeTwo, Slots
  <2>4. CASE i = a \/ i = b
    <3>1. Covers(r, x, y)
      BY <2>1, <2>4, <1>2
    <3>2. Covers(dirty_rects'[a], x, y)
      BY <3>1, <2>3
    <3> QED BY <3>2, <2>3
  <2>5. CASE i # a /\ i # b /\ i = num_dirts - 1
    <3>1. dirty_rects'[b] = dirty_rects[num_dirts - 1] /\ b \in 0 .. num_dirts' - 1
      BY <1>1, <2>5 DEF IInv, TypeOK, MergeTwo, Slots
    <3> QED BY <3>1, <2>1, <2>5
  <2>6. CASE i # a /\ i # b /\ i # num_dirts - 1
    <3>1. dirty_rects'[i] = dirty_rects[i] /\ i \in 0 .. num_dirts' - 1
      BY <1>1, <2>2, <2>6 DEF IInv, TypeOK, MergeTwo
    <3> QED BY <3>1, <2>1
  <2> QED BY <2>4, <2>5, <2>6
<1>6. /\ given' = given /\ num_dirts' = num_dirts - 1 /\ pc = "merge" /\ pc' = "merge"
      /\ op' = op /\ a' = a /\ b' = a + 1
  BY DEF MergeTwo
<1>7. num_dirts' <= Len(given') /\ num_dirts' > 0
  <2>1. num_dirts <= Len(given) /\ Len(given) \in Nat
    BY <1>6 DEF IInv, CoverageKept, TypeOK
  <2> QED BY <1>1, <1>6, <2>1
<1> HIDE DEF r
<1>8. CoverageKept'
  BY <1>5, <1>6, <1>7 DEF CoverageKept
<1>9. CollapseCovers' /\ FitsAtFinish' /\ (pc' = "merge" => a' < b') /\ (pc' # "idle" <=> op' # "none")
  BY <1>1, <1>6 DEF IInv, CollapseCovers, FitsAtFinish
<1> QED BY <1>4, <1>8, <1>9 DEF IInv

\* Entry 0 grows by entry b: the entries before b are covered by it.
LEMMA CollapseOnePreserves ==
    ASSUME IInv, CollapseOne
    PROVE  IInv'
<1> USE MaxDirtsAssumption DEF Slots
<1> DEFINE r == expand_rect(dirty_rects[0], dirty_rects[b])
<1>1. 0 \in Slots /\ b \in Slots /\ b >= 1 /\ b < num_dirts /\ num_dirts \in 1 .. MAX_DIRTS
  BY DEF IInv, TypeOK, CollapseCovers, CollapseOne
<1>2. r \in Rect /\ \A x, y \in Coord :
          Covers(dirty_rects[0], x, y) \/ Covers(dirty_rects[b], x, y) => Covers(r, x, y)
  BY <1>1, ExpandRect DEF IInv, TypeOK
<1>3. dirty_rects' = [dirty_rects EXCEPT ![0] = r]
  BY DEF CollapseOne
<1>4. dirty_rects'[0] = r /\ \A i \in Slots : i # 0 => dirty_rects'[i] = dirty_rects[i]
  BY <1>1, <1>3 DEF IInv, TypeOK
<1> HIDE DEF r
<1>5. TypeOK'
  BY <1>1, <1>2, <1>3 DEF IInv, TypeOK, CollapseOne, Slots
<1>6. ASSUME NEW x \in Coord, NEW y \in Coord, ListCovers(given, x, y)
      PROVE  \/ Covers(dirty_rects'[0], x, y)
             \/ \E i \in b' .. num_dirts' - 1 : Covers(dirty_rects'[i], x, y)
  <2>1. CASE Covers(dirty_rects[0], x, y) \/ Covers(dirty_rects[b], x, y)
    BY <2>1, <1>2, <1>4
  <2>2. CASE \E i \in b + 1 .. num_dirts - 1 : Covers(dirty_rects[i], x, y)
    <3>1. PICK i \in b + 1 .. num_dirts - 1 : Covers(dirty_rects[i], x, y)
      BY <2>2
    <3>2. i \in Slots /\ i # 0 /\ i \in b' .. num_dirts' - 1
      BY <1>1 DEF CollapseOne, Slots
    <3> QED BY <3>1, <3>2, <1>4
  <2>3. \/ Covers(dirty_rects[0], x, y)
        \/ \E i \in b .. num_dirts - 1 : Covers(dirty_rects[i], x, y)
    BY <1>6 DEF IInv, CollapseCovers, CollapseOne
  <2>4. \A i \in b .. num_dirts - 1 : i = b \/ i \in b + 1 .. num_dirts - 1
    BY <1>1
  <2> QED BY <2>1, <2>2, <2>3, <2>4
<1>7. CollapseCovers'
  BY <1>1, <1>6 DEF CollapseCovers, CollapseOne
<1>8. CoverageKept'
  <2>1. ASSUME NEW x \in Coord, NEW y \in Coord, ListCovers(given, x, y)
        PROVE  \E i \in 0 .. num_dirts' - 1 : Covers(dirty_rects'[i], x, y)
    <3>1. 0 \in 0 .. num_dirts' - 1 /\ \A i \in b' .. num_dirts' - 1 : i \in 0 .. num_dirts' - 1
      BY <1>1 DEF CollapseOne
    <3> QED BY <2>1, <1>6, <3>1
  <2> QED BY <2>1 DEF IInv, CoverageKept, CollapseOne
<1> QED BY <1>5, <1>7, <1>8 DEF IInv, CollapseOne, FitsAtFinish

\* Every step of a section, and every start of one, keeps the invariant.
LEMMA NextInvariant == IInv /\ [Next]_vars => IInv'
<1> SUFFICES ASSUME IInv, [Next]_vars PROVE IInv'
  OBVIOUS
<1> USE MaxDirtsAssumption
<1>1. ASSUME NEW rect \in FbRects, StartMark(rect) PROVE IInv'
  <2>1. CoverageKept' /\ CollapseCovers' /\ given' \in Seq(Rect) /\ Len(given') <= MAX_DIRTS
    BY <1>1, StartPreserves DEF StartMark
  <2>2. TypeOK'
    BY <1>1, <2>1, FbRectsAssumption DEF IInv, TypeOK, StartMark
  <2> QED BY <1>1, <2>1, <2>2 DEF IInv, TypeOK, StartMark, FitsAtFinish
<1>2. ASSUME NEW n \in 1 .. MAX_DIRTS, StartGrab(n) PROVE IInv'
  <2>1. CoverageKept' /\ CollapseCovers' /\ given' \in Seq(Rect) /\ Len(given') <= MAX_DIRTS
    BY <1>2, StartPreserves DEF StartGrab
  <2>2. TypeOK'
    BY <1>2, <2>1 DEF IInv, TypeOK, StartGrab
  <2> QED BY <1>2, <2>1, <2>2 DEF IInv, TypeOK, StartGrab, FitsAtFinish
<1>3. CASE MergeDone
  <2>1. TypeOK' /\ CoverageKept'
    BY <1>3 DEF IInv, TypeOK, CoverageKept, MergeDone
  <2>2. CollapseCovers'
    <3> SUFFICES ASSUME pc' = "collapse" PROVE CollapseCovers'
      BY DEF CollapseCovers
    <3>1. b' >= 1 /\ num_dirts' >= 1
      BY <1>3 DEF IInv, TypeOK, MergeDone, MustCollapse
    <3>2. ASSUME NEW x \in Coord, NEW y \in Coord, ListCovers(given, x, y)
          PROVE  \/ Covers(dirty_rects[0], x, y)
                 \/ \E i \in 1 .. num_dirts - 1 : Covers(dirty_rects[i], x, y)
      <4>1. PICK i \in 0 .. num_dirts - 1 : Covers(dirty_rects[i], x, y)
        BY <1>3, <3>2 DEF IInv, CoverageKept, MergeDone
      <4>2. i = 0 \/ i \in 1 .. num_dirts - 1
        BY DEF IInv, TypeOK
      <4> QED BY <4>1, <4>2
    <3> QED BY <1>3, <3>1, <3>2 DEF CollapseCovers, MergeDone
  <2>3. FitsAtFinish'
    BY <1>3 DEF IInv, TypeOK, FitsAtFinish, MergeDone, MustCollapse
  <2> QED BY <1>3, <2>1, <2>2, <2>3 DEF IInv, MergeDone
<1>4. CASE MergeNextA
  BY <1>4 DEF IInv, TypeOK, CoverageKept, CollapseCovers, FitsAtFinish, MergeNextA
<1>5. CASE MergeTwo
  BY <1>5, MergeTwoPreserves
<1>6. CASE MergeNextB
  BY <1>6 DEF IInv, TypeOK, CoverageKept, CollapseCovers, FitsAtFinish, MergeNextB
<1>7. CASE CollapseOne
  BY <1>7, CollapseOnePreserves
<1>8. CASE CollapseDone
  <2>1. TypeOK'
    BY <1>8 DEF IInv, TypeOK, CollapseDone
  <2>2. ASSUME NEW x \in Coord, NEW y \in Coord, ListCovers(given, x, y)
        PROVE  \E i \in 0 .. num_dirts' - 1 : Covers(dirty_rects'[i], x, y)
    <3>1. Covers(dirty_rects[0], x, y)
      <4>1. ~ \E i \in b .. num_dirts - 1 : TRUE
        BY <1>8 DEF IInv, TypeOK, CollapseDone
      <4> QED BY <1>8, <2>2, <4>1 DEF IInv, CollapseCovers, CollapseDone
    <3>2. 0 \in 0 .. num_dirts' - 1 /\ dirty_rects' = dirty_rects
      BY <1>8 DEF CollapseDone
    <3> QED BY <3>1, <3>2
  <2>3. num_dirts' <= Len(given') /\ num_dirts' > 0
    BY <1>8 DEF IInv, TypeOK, CoverageKept, CollapseCovers, CollapseDone
  <2> QED BY <1>8, <2>1, <2>2, <2>3
         DEF IInv, TypeOK, CoverageKept, CollapseCovers, FitsAtFinish, CollapseDone
<1>9. CASE FinishMark
  BY <1>9, ZeroIsRect DEF IInv, TypeOK, CoverageKept, CollapseCovers, FitsAtFinish,
                          FinishMark, Return, Slots
<1>10. CASE FinishGrab
  <2>1. Listed(num_dirts) \in Seq(Rect) /\ Len(Listed(num_dirts)) = num_dirts
    BY ListedType DEF IInv
  <2> QED BY <1>10, <2>1, ZeroIsRect DEF IInv, TypeOK, CoverageKept, CollapseCovers,
                                         FitsAtFinish, FinishGrab, Return
<1>11. CASE FinishGrabAgain
  BY <1>11, ZeroIsRect DEF IInv, TypeOK, CoverageKept, CollapseCovers, FitsAtFinish,
                           FinishGrabAgain, Return
<1>12. CASE UNCHANGED vars
  BY <1>12 DEF IInv, TypeOK, CoverageKept, CollapseCovers, FitsAtFinish, vars
<1> QED BY <1>1, <1>2, <1>3, <1>4, <1>5, <1>6, <1>7, <1>8, <1>9, <1>10, <1>11, <1>12
        DEF Next, Work

\* The invariant holds in every behaviour of the two sections.
THEOREM Invariance == Spec => []IInv
BY InitInvariant, NextInvariant, PTL DEF Spec

\* Types and the bound of the array: num_dirts never passes MAX_DIRTS, and every
\* entry is a rectangle with ordered corners.
THEOREM Typing == Spec => []TypeOK
<1>1. IInv => TypeOK BY DEF IInv
<1> QED BY <1>1, Invariance, PTL

\* No dirty pixel is lost by merging or collapsing.
THEOREM Coverage == Spec => []CoverageKept
<1>1. IInv => CoverageKept BY DEF IInv
<1> QED BY <1>1, Invariance, PTL

\* Neither the array nor the client's array is overrun.
THEOREM Fits == Spec => []FitsAtFinish
<1>1. IInv => FitsAtFinish BY DEF IInv
<1> QED BY <1>1, Invariance, PTL

-----------------------------------------------------------------------------
(* Refinement: a section takes effect, atomically, when it finishes.       *)

List == IF pc = "idle" THEN Listed(num_dirts) ELSE given

\* At its end, a section has compacted the list it was given.
LEMMA FinishCompacts ==
    ASSUME IInv, pc # "idle"
    PROVE  Compacts(given, Listed(num_dirts))
<1>1. /\ Listed(num_dirts) \in Seq(Rect)
      /\ Len(Listed(num_dirts)) = num_dirts
  BY ListedType DEF IInv
<1>2. ASSUME NEW x \in Coord, NEW y \in Coord, ListCovers(given, x, y)
      PROVE  ListCovers(Listed(num_dirts), x, y)
  <2>1. PICK i \in 0 .. num_dirts - 1 : Covers(dirty_rects[i], x, y)
    BY <1>2 DEF IInv, CoverageKept
  <2>2. i + 1 \in 1 .. num_dirts /\ (i + 1) - 1 = i
    BY DEF IInv, TypeOK
  <2>3. Listed(num_dirts)[i + 1] = dirty_rects[i] /\ i + 1 \in DOMAIN Listed(num_dirts)
    BY <2>2 DEF Listed
  <2> QED BY <2>1, <2>3 DEF ListCovers
<1>3. given # <<>> => Listed(num_dirts) # <<>>
  BY <1>1 DEF IInv, TypeOK, CoverageKept
<1>4. Len(Listed(num_dirts)) <= Len(given)
  BY <1>1 DEF IInv, CoverageKept
<1> QED BY <1>1, <1>2, <1>3, <1>4 DEF Compacts

\* EvdiDirtRegion extends EvdiRects too: its copies of the operators are the same.
LEMMA SameOperators ==
    /\ Region!Rect = Rect
    /\ \A s, t : Region!Compacts(s, t) <=> Compacts(s, t)
<1>1. Region!Rect = Rect /\ Region!Coord = Coord
  BY DEF Region!Rect, Rect, Region!ClipRect, ClipRect, Region!Ordered, Ordered,
         Region!Coord, Coord
<1>2. \A s, x, y : Region!ListCovers(s, x, y) <=> ListCovers(s, x, y)
  BY DEF Region!ListCovers, ListCovers, Region!Covers, Covers
<1>3. \A s, t : Region!Compacts(s, t) <=> Compacts(s, t)
  BY <1>1, <1>2 DEF Region!Compacts, Compacts
<1> QED BY <1>1, <1>3

LEMMA EmptyList == Listed(0) = <<>>
BY DEF Listed

LEMMA RegionStep == IInv /\ [Next]_vars => [Region!Next]_<<List, taken>>
<1> SUFFICES ASSUME IInv, [Next]_vars PROVE [Region!Next]_<<List, taken>>
  OBVIOUS
<1> USE MaxDirtsAssumption
<1>1. ASSUME NEW rect \in FbRects, StartMark(rect) PROVE UNCHANGED <<List, taken>>
  BY <1>1 DEF StartMark, List
<1>2. ASSUME NEW n \in 1 .. MAX_DIRTS, StartGrab(n) PROVE UNCHANGED <<List, taken>>
  BY <1>2 DEF StartGrab, List
<1>3. CASE MergeDone \/ MergeNextA \/ MergeTwo \/ MergeNextB \/ CollapseOne \/ CollapseDone
  BY <1>3 DEF MergeDone, MergeNextA, MergeTwo, MergeNextB, CollapseOne, CollapseDone, List
<1>4. CASE FinishMark
  <2>1. Compacts(given, Listed(num_dirts)) /\ List = given
    BY <1>4, FinishCompacts DEF FinishMark, List
  <2>2. /\ num_dirts \in 0 .. MAX_DIRTS - 1 /\ arg \in Rect
        /\ dirty_rects' = [dirty_rects EXCEPT ![num_dirts] = arg]
        /\ num_dirts' = num_dirts + 1
    BY <1>4 DEF FinishMark, IInv, TypeOK, FitsAtFinish
  <2>3. TypeOK'
    BY NextInvariant DEF IInv
  <2>4. List' = [i \in 1 .. num_dirts + 1 |-> dirty_rects'[i - 1]]
    BY <1>4 DEF FinishMark, List, Listed, Return
  <2>5. List' \in Seq(Rect) /\ Len(List') = num_dirts + 1
    <3>1. \A i \in 1 .. num_dirts + 1 : dirty_rects'[i - 1] \in Rect
      BY <2>2, <2>3 DEF TypeOK, Slots
    <3> QED BY <3>1, <2>2, <2>4
  <2>6. Front(List') = Listed(num_dirts)
    <3>1. \A i \in 1 .. num_dirts : List'[i] = dirty_rects[i - 1]
      BY <2>2, <2>4 DEF IInv, TypeOK, Slots
    <3>2. Front(List') = [i \in 1 .. num_dirts |-> List'[i]]
      BY <2>2, <2>5 DEF Front
    <3> QED BY <3>1, <3>2 DEF Listed
  <2>7. taken' = <<>>
    BY <1>4 DEF FinishMark
  <2>8. List' \in Seq(Region!Rect) /\ Len(List') \in 1 .. MAX_DIRTS
    BY <2>2, <2>5, SameOperators
  <2>9. Region!Compacts(List, Front(List'))
    BY <2>1, <2>6, SameOperators
  <2>10. Region!Mark
    BY <2>7, <2>8, <2>9 DEF Region!Mark, Region!Front, Front, List
  <2> QED BY <2>10 DEF Region!Next
<1>5. CASE FinishGrab
  <2>1. /\ Compacts(given, Listed(num_dirts)) /\ List = given
        /\ taken' = Listed(num_dirts) /\ List' = <<>>
    BY <1>5, FinishCompacts, EmptyList DEF FinishGrab, Return, List, Listed
  <2>2. room \in 1 .. MAX_DIRTS /\ num_dirts <= room /\ num_dirts \in Nat
    BY <1>5 DEF FinishGrab, IInv, TypeOK, FitsAtFinish
  <2>3. Len(Listed(num_dirts)) <= room
    BY <2>2, ListedType DEF IInv
  <2>4. Region!Compacts(List, taken') /\ Len(taken') <= room
    BY <2>1, <2>3, SameOperators
  <2>5. Region!Take(room)
    BY <2>1, <2>4 DEF Region!Take, List
  <2> QED BY <2>2, <2>5 DEF Region!Next
<1>6. CASE FinishGrabAgain
  <2>1. /\ Compacts(given, Listed(num_dirts)) /\ List = given
        /\ taken' = <<>> /\ List' = Listed(num_dirts)
    BY <1>6, FinishCompacts DEF FinishGrabAgain, Return, List, Listed
  <2>2. Region!Compacts(List, List')
    BY <2>1, SameOperators
  <2>3. Region!Keep
    BY <2>1, <2>2 DEF Region!Keep, List
  <2> QED BY <2>3 DEF Region!Next
<1>7. CASE UNCHANGED vars
  BY <1>7 DEF vars, List, Listed
<1> QED BY <1>1, <1>2, <1>3, <1>4, <1>5, <1>6, <1>7 DEF Next, Work

\* The loops implement the atomic operations: no observer of the list, between
\* sections, can tell merging and collapsing from a step that only covers more.
THEOREM Refinement == Spec => ImplementsRegion
<1>1. Init => Region!Init
  BY EmptyList DEF Init, Region!Init
<1>2. IInv /\ [Next]_vars => [Region!Next]_(Region!vars)
  BY RegionStep DEF Region!vars, List
<1> QED BY <1>1, <1>2, Invariance, PTL DEF Spec, Region!Spec, ImplementsRegion

-----------------------------------------------------------------------------
(* merge_rects, as a function.                                             *)

\* expand_rect takes the place of entry a, the last entry that of b.
LEMMA MergePairIs ==
    ASSUME NEW rects \in Seq(Rect), NEW i \in DOMAIN rects, NEW j \in DOMAIN rects, i < j
    PROVE  /\ MergePair(rects, i, j) \in Seq(Rect)
           /\ Len(MergePair(rects, i, j)) = Len(rects) - 1
           /\ \A k \in 1 .. Len(rects) - 1 : MergePair(rects, i, j)[k] =
                  IF k = i THEN expand_rect(rects[i], rects[j])
                  ELSE IF k = j THEN rects[Len(rects)] ELSE rects[k]
<1> DEFINE n == Len(rects)
           new == [rects EXCEPT ![i] = expand_rect(rects[i], rects[j]), ![j] = Last(rects)]
<1>1. n \in Nat /\ DOMAIN rects = 1 .. n /\ n \in DOMAIN rects /\ \A k \in 1 .. n : rects[k] \in Rect
  OBVIOUS
<1>2. expand_rect(rects[i], rects[j]) \in Rect
  BY <1>1, ExpandRect
<1>3. /\ DOMAIN new = 1 .. n
      /\ \A k \in 1 .. n : new[k] = IF k = i THEN expand_rect(rects[i], rects[j])
                                    ELSE IF k = j THEN rects[n] ELSE rects[k]
  BY <1>1 DEF Last
<1>4. new \in Seq(Rect) /\ Len(new) = n
  <2>1. \A k \in 1 .. n : new[k] \in Rect
    BY <1>1, <1>2, <1>3
  <2>2. new = [k \in 1 .. n |-> new[k]]
    BY <1>3
  <2> HIDE DEF new
  <2>3. new \in [1 .. n -> Rect]
    BY <2>1, <2>2
  <2> QED BY <2>3, <1>1
<1> HIDE DEF new
<1>5. /\ Front(new) \in Seq(Rect) /\ Len(Front(new)) = n - 1
      /\ \A k \in 1 .. n - 1 : Front(new)[k] = new[k]
  BY <1>1, <1>4 DEF Front
<1>6. MergePair(rects, i, j) = Front(new)
  BY DEF MergePair, new
<1>7. \A k \in 1 .. n - 1 : k \in 1 .. n
  BY <1>1
<1>8. \A k \in 1 .. n - 1 : Front(new)[k] = IF k = i THEN expand_rect(rects[i], rects[j])
                                          ELSE IF k = j THEN rects[n] ELSE rects[k]
  BY <1>3, <1>5, <1>7
<1> QED BY <1>5, <1>6, <1>8

\* The two loops, one test at a time.
MergeEnds(m) == m[2] >= Len(m[1])
MergeStep(m) ==
    IF m[3] > Len(m[1]) THEN <<m[1], m[2] + 1, m[2] + 2>>
    ELSE IF Mergeable(m[1][m[2]], m[1][m[3]])
         THEN <<MergePair(m[1], m[2], m[3]), m[2], m[2] + 1>>
         ELSE <<m[1], m[2], m[3] + 1>>

LEMMA MergeStepType ==
    ASSUME NEW m \in Merging, ~ MergeEnds(m)
    PROVE  MergeStep(m) \in Merging
<1>1. /\ m[1] \in Seq(Rect) /\ m[2] \in Nat \ {0} /\ m[3] \in Nat /\ m[2] < m[3]
      /\ m[2] < Len(m[1]) /\ Len(m[1]) \in Nat /\ DOMAIN m[1] = 1 .. Len(m[1])
  BY DEF Merging, MergeEnds
<1>2. CASE m[3] > Len(m[1])
  BY <1>1, <1>2 DEF MergeStep, Merging
<1>3. CASE m[3] <= Len(m[1])
  <2>1. MergePair(m[1], m[2], m[3]) \in Seq(Rect)
    BY <1>1, <1>3, MergePairIs
  <2> QED BY <1>1, <1>3, <2>1 DEF MergeStep, Merging
<1> QED BY <1>1, <1>2, <1>3

\* A function that makes the steps exists: what it returns is what the last of the
\* states that every set closed under the steps contains has for an array.  So
\* MergeFrom is such a function.
LEMMA MergeFromIs ==
    ASSUME NEW m \in Merging
    PROVE  MergeFrom[m] = IF MergeEnds(m) THEN m[1] ELSE MergeFrom[MergeStep(m)]
<1> DEFINE Closed(C) == \A z \in C : ~ MergeEnds(z) => MergeStep(z) \in C
           Reach(x) == {z \in Merging : \A C \in SUBSET Merging : Closed(C) /\ x \in C => z \in C}
           Result(x) == {z[1] : z \in {z \in Reach(x) : MergeEnds(z)}}
           f == [x \in Merging |-> CHOOSE r \in Result(x) : TRUE]
<1>1. ASSUME NEW x \in Merging, MergeEnds(x) PROVE f[x] = x[1]
  <2>1. Closed({x}) /\ {x} \in SUBSET Merging
    BY <1>1
  <2>2. Reach(x) = {x}
    BY <2>1
  <2>3. Result(x) = {x[1]}
    BY <2>2, <1>1
  <2> QED BY <2>3
<1>2. ASSUME NEW x \in Merging, ~ MergeEnds(x) PROVE f[x] = f[MergeStep(x)]
  <2> DEFINE y == MergeStep(x)
  <2>1. y \in Merging
    BY <1>2, MergeStepType
  <2>2. \A C : Closed(C) /\ x \in C => y \in C
    BY <1>2
  <2>3. Reach(y) \subseteq Reach(x)
    BY <2>2
  <2>4. ASSUME NEW z \in Reach(x), z # x PROVE z \in Reach(y)
    <3> SUFFICES ASSUME NEW C \in SUBSET Merging, Closed(C), y \in C PROVE z \in C
      BY <2>4
    <3>1. Closed(C \cup {x}) /\ C \cup {x} \in SUBSET Merging /\ x \in C \cup {x}
      OBVIOUS
    <3>2. z \in C \cup {x}
      BY <3>1, <2>4
    <3> QED BY <3>2, <2>4
  <2>5. {z \in Reach(x) : MergeEnds(z)} = {z \in Reach(y) : MergeEnds(z)}
    BY <1>2, <2>3, <2>4
  <2>6. Result(x) = Result(y)
    BY <2>5
  <2> HIDE DEF Result
  <2> QED BY <2>1, <2>6
<1> HIDE DEF f
<1>3. f = [x \in Merging |-> IF MergeEnds(x) THEN x[1] ELSE f[MergeStep(x)]]
  <2>1. f = [x \in Merging |-> f[x]]
    BY DEF f
  <2> QED BY <1>1, <1>2, <2>1
<1> DEFINE Body(g, x) ==
        LET rects == x[1]
            i == x[2]
            j == x[3]
        IN  IF i >= Len(rects) THEN rects
            ELSE IF j > Len(rects) THEN g[<<rects, i + 1, i + 2>>]
            ELSE IF Mergeable(rects[i], rects[j]) THEN g[<<MergePair(rects, i, j), i, i + 1>>]
            ELSE g[<<rects, i, j + 1>>]
<1>4. MergeFrom = CHOOSE g : g = [x \in Merging |-> Body(g, x)]
  BY DEF MergeFrom
<1>5. ASSUME NEW g, NEW x PROVE Body(g, x) = IF MergeEnds(x) THEN x[1] ELSE g[MergeStep(x)]
  BY DEF MergeEnds, MergeStep
<1> HIDE DEF Body
<1>6. f = [x \in Merging |-> Body(f, x)]
  BY <1>3, <1>5
<1>7. MergeFrom = [x \in Merging |-> Body(MergeFrom, x)]
  BY <1>4, <1>6
<1> QED BY <1>5, <1>7

-----------------------------------------------------------------------------
(* The loop computes it.                                                   *)

Computes ==
    /\ pc = "merge" => MergeFrom[<<Listed(num_dirts), a + 1, b + 1>>] = merge_rects(given)
    /\ LoopComputesMerge

\* The entries after a merge step are those of MergePair.
LEMMA ListedMerged ==
    ASSUME IInv, MergeTwo
    PROVE  Listed(num_dirts)' = MergePair(Listed(num_dirts), a + 1, b + 1)
<1> DEFINE list == Listed(num_dirts)
           n == num_dirts
<1>1. list \in Seq(Rect) /\ Len(list) = n /\ \A k \in 1 .. n : list[k] = dirty_rects[k - 1]
  BY ListedType DEF IInv, Listed
<1>2. /\ n \in Nat /\ a \in Nat /\ b \in Nat /\ a < b /\ b < n /\ n <= MAX_DIRTS
      /\ num_dirts' = n - 1 /\ dirty_rects \in [Slots -> Rect]
      /\ dirty_rects' = [dirty_rects EXCEPT
                            ![a] = expand_rect(dirty_rects[a], dirty_rects[b]),
                            ![b] = dirty_rects[n - 1]]
  BY DEF IInv, TypeOK, MergeTwo
<1>3. \A k \in 1 .. n - 1 : dirty_rects'[k - 1] =
          IF k = a + 1 THEN expand_rect(list[a + 1], list[b + 1])
          ELSE IF k = b + 1 THEN list[n] ELSE list[k]
  <2>1. \A k \in 1 .. n : k - 1 \in Slots
    BY <1>2, MaxDirtsAssumption DEF Slots
  <2>2. \A k \in 1 .. n : dirty_rects'[k - 1] =
            IF k = a + 1 THEN expand_rect(dirty_rects[a], dirty_rects[b])
            ELSE IF k = b + 1 THEN dirty_rects[n - 1] ELSE dirty_rects[k - 1]
    BY <1>2, <2>1
  <2>3. list[a + 1] = dirty_rects[a] /\ list[b + 1] = dirty_rects[b] /\ list[n] = dirty_rects[n - 1]
    BY <1>1, <1>2
  <2>4. \A k \in 1 .. n - 1 : k \in 1 .. n /\ list[k] = dirty_rects[k - 1]
    BY <1>1, <1>2
  <2> HIDE DEF list
  <2> QED BY <2>2, <2>3, <2>4
<1>4. Listed(num_dirts)' = [k \in 1 .. n - 1 |-> dirty_rects'[k - 1]]
  BY <1>2 DEF Listed
<1> HIDE DEF list
<1> DEFINE merged == MergePair(list, a + 1, b + 1)
<1>5. /\ merged \in Seq(Rect) /\ Len(merged) = n - 1
      /\ \A k \in 1 .. n - 1 : merged[k] = dirty_rects'[k - 1]
  <2>1. a + 1 \in DOMAIN list /\ b + 1 \in DOMAIN list /\ a + 1 < b + 1
    BY <1>1, <1>2
  <2>2. /\ merged \in Seq(Rect) /\ Len(merged) = Len(list) - 1
        /\ \A k \in 1 .. Len(list) - 1 : merged[k] =
               IF k = a + 1 THEN expand_rect(list[a + 1], list[b + 1])
               ELSE IF k = b + 1 THEN list[Len(list)] ELSE list[k]
    <3>1. list \in Seq(Rect)
      BY <1>1
    <3>2. /\ MergePair(list, a + 1, b + 1) \in Seq(Rect)
          /\ Len(MergePair(list, a + 1, b + 1)) = Len(list) - 1
      BY <3>1, <2>1, MergePairIs
    <3>3. \A k \in 1 .. Len(list) - 1 : MergePair(list, a + 1, b + 1)[k] =
               IF k = a + 1 THEN expand_rect(list[a + 1], list[b + 1])
               ELSE IF k = b + 1 THEN list[Len(list)] ELSE list[k]
      BY <3>1, <2>1, MergePairIs
    <3> QED BY <3>2, <3>3
  <2> HIDE DEF merged
  <2> QED BY <1>1, <1>3, <2>2
<1> HIDE DEF merged
<1>6. merged = [k \in 1 .. n - 1 |-> dirty_rects'[k - 1]]
  <2>1. merged = [k \in 1 .. n - 1 |-> merged[k]]
    BY <1>2, <1>5
  <2> QED BY <1>5, <2>1
<1> QED BY <1>4, <1>6 DEF merged, list

LEMMA InitComputes == Init => Computes
BY DEF Init, Computes, LoopComputesMerge

LEMMA NextComputes == IInv /\ Computes /\ [Next]_vars => Computes'
<1> SUFFICES ASSUME IInv, Computes, [Next]_vars PROVE Computes'
  OBVIOUS
<1> USE MaxDirtsAssumption
<1> DEFINE list == Listed(num_dirts)
<1>1. list \in Seq(Rect) /\ Len(list) = num_dirts /\ num_dirts \in Nat /\ a \in Nat /\ b \in Nat
  BY ListedType DEF IInv, TypeOK
<1>2. \A k \in 1 .. num_dirts : list[k] = dirty_rects[k - 1]
  BY DEF Listed
<1>3. ASSUME UNCHANGED <<dirty_rects, num_dirts>>
      PROVE  Listed(num_dirts)' = list
  BY <1>3 DEF Listed
<1> DEFINE m == <<list, a + 1, b + 1>>
<1>4. ASSUME pc = "merge"
      PROVE  /\ m \in Merging /\ (MergeEnds(m) <=> a >= num_dirts - 1)
             /\ MergeFrom[m] = merge_rects(given)
             /\ ~ MergeEnds(m) => MergeFrom[MergeStep(m)] = merge_rects(given)
             /\ MergeEnds(m) => list = merge_rects(given)
  <2>1. a < b
    BY <1>4 DEF IInv
  <2>2. m \in Merging /\ (MergeEnds(m) <=> a >= num_dirts - 1)
    BY <1>1, <2>1 DEF Merging, MergeEnds
  <2>3. MergeFrom[m] = merge_rects(given)
    BY <1>4 DEF Computes
  <2> QED BY <2>2, <2>3, MergeFromIs
<1>5. ASSUME NEW rect \in FbRects, StartMark(rect) PROVE Computes'
  <2>1. UNCHANGED <<dirty_rects, num_dirts>> /\ given' = list /\ a' = 0 /\ b' = 1 /\ op' = "mark"
    BY <1>5 DEF StartMark
  <2>2. MergeFrom[<<Listed(num_dirts)', a' + 1, b' + 1>>] = merge_rects(given')
    BY <1>3, <2>1 DEF merge_rects
  <2> QED BY <2>1, <2>2 DEF Computes, LoopComputesMerge
<1>6. ASSUME NEW n \in 1 .. MAX_DIRTS, StartGrab(n) PROVE Computes'
  <2>1. /\ UNCHANGED <<dirty_rects, num_dirts>> /\ given' = list /\ a' = 0 /\ b' = 1
        /\ pc' = "merge"
    BY <1>6 DEF StartGrab
  <2>2. MergeFrom[<<Listed(num_dirts)', a' + 1, b' + 1>>] = merge_rects(given')
    BY <1>3, <2>1 DEF merge_rects
  <2> QED BY <2>1, <2>2 DEF Computes, LoopComputesMerge
<1>7. CASE MergeDone
  <2>1. pc = "merge" /\ a >= num_dirts - 1 /\ given' = given /\ pc' \in {"collapse", "finish"}
        /\ UNCHANGED <<dirty_rects, num_dirts>>
    BY <1>7 DEF MergeDone
  <2>2. Listed(num_dirts)' = merge_rects(given')
    BY <1>3, <1>4, <2>1
  <2> QED BY <2>1, <2>2 DEF Computes, LoopComputesMerge
<1>8. CASE MergeNextA
  <2>1. /\ pc = "merge" /\ a < num_dirts - 1 /\ b >= num_dirts /\ given' = given /\ pc' = pc
        /\ a' = a + 1 /\ b' = a + 2 /\ UNCHANGED <<dirty_rects, num_dirts>>
    BY <1>8 DEF MergeNextA
  <2>2. MergeStep(m) = <<Listed(num_dirts)', a' + 1, b' + 1>>
    BY <1>1, <1>3, <2>1 DEF MergeStep
  <2>3. MergeFrom[<<Listed(num_dirts)', a' + 1, b' + 1>>] = merge_rects(given')
    BY <1>1, <1>4, <2>1, <2>2
  <2> QED BY <2>1, <2>3 DEF Computes, LoopComputesMerge
<1>9. CASE MergeTwo
  <2>1. /\ pc = "merge" /\ a < num_dirts - 1 /\ b < num_dirts /\ given' = given /\ pc' = pc
        /\ Mergeable(dirty_rects[a], dirty_rects[b]) /\ a' = a /\ b' = a + 1
    BY <1>9 DEF MergeTwo
  <2>0. ~ MergeEnds(m)
    BY <1>1, <1>4, <2>1
  <2>2. list[a + 1] = dirty_rects[a] /\ list[b + 1] = dirty_rects[b]
    BY <1>1, <1>2, <2>1
  <2>3. MergeStep(m) = <<Listed(num_dirts)', a' + 1, b' + 1>>
    BY <1>1, <1>9, <2>1, <2>2, ListedMerged DEF MergeStep
  <2>4. MergeFrom[<<Listed(num_dirts)', a' + 1, b' + 1>>] = merge_rects(given')
    BY <1>4, <2>0, <2>1, <2>3
  <2> QED BY <2>1, <2>4 DEF Computes, LoopComputesMerge
<1>10. CASE MergeNextB
  <2>1. /\ pc = "merge" /\ a < num_dirts - 1 /\ b < num_dirts /\ given' = given /\ pc' = pc
        /\ ~ Mergeable(dirty_rects[a], dirty_rects[b]) /\ a' = a /\ b' = b + 1
        /\ UNCHANGED <<dirty_rects, num_dirts>>
    BY <1>10 DEF MergeNextB
  <2>2. list[a + 1] = dirty_rects[a] /\ list[b + 1] = dirty_rects[b]
    BY <1>1, <1>2, <2>1
  <2>3. MergeStep(m) = <<Listed(num_dirts)', a' + 1, b' + 1>>
    BY <1>1, <1>3, <2>1, <2>2 DEF MergeStep
  <2>4. MergeFrom[<<Listed(num_dirts)', a' + 1, b' + 1>>] = merge_rects(given')
    BY <1>1, <1>4, <2>1, <2>3
  <2> QED BY <2>1, <2>4 DEF Computes, LoopComputesMerge
<1>11. CASE CollapseOne
  BY <1>11 DEF CollapseOne, Computes, LoopComputesMerge
<1>12. CASE CollapseDone
  BY <1>12 DEF CollapseDone, Computes, LoopComputesMerge
<1>13. CASE FinishMark \/ FinishGrab \/ FinishGrabAgain
  BY <1>13 DEF FinishMark, FinishGrab, FinishGrabAgain, Return, Computes, LoopComputesMerge
<1>14. CASE UNCHANGED vars
  BY <1>14 DEF vars, Computes, LoopComputesMerge, Listed
<1> QED BY <1>5, <1>6, <1>7, <1>8, <1>9, <1>10, <1>11, <1>12, <1>13, <1>14 DEF Next, Work

\* merge_dirty_rects, as the grab runs it, computes merge_rects, the function that
\* EvdiPainter uses.
THEOREM MergeIsComputed == Spec => []LoopComputesMerge
<1>1. Computes => LoopComputesMerge
  BY DEF Computes
<1> QED BY <1>1, InitComputes, NextComputes, Invariance, PTL DEF Spec

-----------------------------------------------------------------------------
(* What EvdiPainter assumes of merge_rects and collapse_rects.             *)

LEMMA CompactsItself ==
    ASSUME NEW rects \in Seq(Rect)
    PROVE  Compacts(rects, rects)
BY DEF Compacts

LEMMA CompactsChain ==
    ASSUME NEW rects \in Seq(Rect), NEW mid, NEW to, Compacts(rects, mid), Compacts(mid, to)
    PROVE  Compacts(rects, to)
<1>1. /\ mid \in Seq(Rect) /\ to \in Seq(Rect) /\ Len(mid) <= Len(rects) /\ Len(to) <= Len(mid)
      /\ (rects # <<>> => mid # <<>>)
  BY DEF Compacts
<1>2. Len(to) <= Len(rects)
  BY <1>1
<1>3. \A x, y \in Coord : ListCovers(rects, x, y) => ListCovers(to, x, y)
  BY DEF Compacts
<1>4. rects # <<>> => to # <<>>
  BY DEF Compacts
<1> QED BY <1>1, <1>2, <1>3, <1>4 DEF Compacts

LEMMA MergePairCompacts ==
    ASSUME NEW rects \in Seq(Rect), NEW i \in DOMAIN rects, NEW j \in DOMAIN rects, i < j
    PROVE  Compacts(rects, MergePair(rects, i, j))
<1> DEFINE n == Len(rects)
           new == MergePair(rects, i, j)
           r == expand_rect(rects[i], rects[j])
<1>1. /\ n \in Nat /\ DOMAIN rects = 1 .. n /\ i \in 1 .. n - 1 /\ j \in 1 .. n
      /\ \A k \in 1 .. n : rects[k] \in Rect
  OBVIOUS
<1>2. /\ new \in Seq(Rect) /\ Len(new) = n - 1
  BY MergePairIs
<1>3. \A k \in 1 .. n - 1 : new[k] = IF k = i THEN r ELSE IF k = j THEN rects[n] ELSE rects[k]
  BY MergePairIs
<1>4. \A x, y \in Coord : Covers(rects[i], x, y) \/ Covers(rects[j], x, y) => Covers(r, x, y)
  BY <1>1, ExpandRect
<1> HIDE DEF new, r
<1>5. DOMAIN new = 1 .. n - 1 /\ new # <<>>
  BY <1>1, <1>2
<1>6. ASSUME NEW x \in Coord, NEW y \in Coord, ListCovers(rects, x, y)
      PROVE  ListCovers(new, x, y)
  <2>1. PICK k \in 1 .. n : Covers(rects[k], x, y)
    BY <1>1, <1>6 DEF ListCovers
  <2>2. CASE k = i \/ k = j
    <3>1. new[i] = r /\ Covers(r, x, y)
      BY <1>1, <1>3, <1>4, <2>1, <2>2
    <3> QED BY <1>1, <1>5, <3>1 DEF ListCovers
  <2>3. CASE k # i /\ k # j /\ k = n
    <3>1. j \in 1 .. n - 1 /\ j # i /\ new[j] = rects[n]
      BY <1>1, <1>3, <2>3
    <3> QED BY <1>5, <2>1, <2>3, <3>1 DEF ListCovers
  <2>4. CASE k # i /\ k # j /\ k # n
    <3>0. k \in 1 .. n - 1
      <4>1. n \in Nat
        BY <1>1
      <4> HIDE DEF n
      <4> QED BY <2>4, <4>1
    <3>1. k \in 1 .. n - 1 /\ new[k] = rects[k]
      BY <1>3, <2>4, <3>0
    <3>2. Covers(new[k], x, y)
      BY <2>1, <3>1
    <3> QED BY <1>5, <3>1, <3>2 DEF ListCovers
  <2> QED BY <2>2, <2>3, <2>4
<1>7. Len(new) <= Len(rects)
  BY <1>1, <1>2
<1> QED BY <1>2, <1>5, <1>6, <1>7 DEF Compacts, new

LEMMA LeastNat ==
    ASSUME NEW S \in SUBSET Nat, S # {}
    PROVE  \E m \in S : \A n \in S : m <= n
<1>1. PICK m \in S : \A n \in S : ~ (<<n, m>> \in OpToRel(<, Nat))
  BY NatLessThanWellFounded, WFMin
<1>2. \A n \in S : ~ (n < m)
  BY <1>1 DEF OpToRel
<1> QED BY <1>2

\* Of the states from which it would not compact there is one with the shortest
\* array, of these one with the largest a, of these one with the largest b: the
\* next state would be another.
LEMMA MergeFromCompacts ==
    ASSUME NEW m \in Merging
    PROVE  Compacts(m[1], MergeFrom[m])
<1> DEFINE Bad == {z \in Merging : ~ Compacts(z[1], MergeFrom[z])}
<1> SUFFICES ASSUME Bad # {} PROVE FALSE
  OBVIOUS
<1>1. ASSUME NEW z \in Merging
      PROVE  /\ z[1] \in Seq(Rect) /\ Len(z[1]) \in Nat /\ DOMAIN z[1] = 1 .. Len(z[1])
             /\ z[2] \in Nat \ {0} /\ z[3] \in Nat /\ z[2] < z[3]
             /\ z = <<z[1], z[2], z[3]>>
  BY DEF Merging
<1>2. ASSUME NEW z \in Bad
      PROVE  z \in Merging /\ z[2] < Len(z[1]) /\ MergeStep(z) \in Bad
  <2>1. ~ MergeEnds(z)
    BY <1>1, MergeFromIs, CompactsItself
  <2>2. MergeStep(z) \in Merging /\ MergeFrom[z] = MergeFrom[MergeStep(z)]
    BY <2>1, MergeStepType, MergeFromIs
  <2>3. Compacts(z[1], MergeStep(z)[1])
    <3>1. CASE z[3] > Len(z[1]) \/ ~ Mergeable(z[1][z[2]], z[1][z[3]])
      <4>1. MergeStep(z)[1] = z[1]
        BY <3>1 DEF MergeStep
      <4> QED BY <1>1, <4>1, CompactsItself
    <3>2. CASE ~ (z[3] > Len(z[1])) /\ Mergeable(z[1][z[2]], z[1][z[3]])
      <4>1. MergeStep(z)[1] = MergePair(z[1], z[2], z[3])
        BY <3>2 DEF MergeStep
      <4>2. z[2] \in DOMAIN z[1] /\ z[3] \in DOMAIN z[1]
        BY <1>1, <3>2
      <4> QED BY <1>1, <4>1, <4>2, MergePairCompacts
    <3> QED BY <3>1, <3>2
  <2>4. ~ Compacts(MergeStep(z)[1], MergeFrom[MergeStep(z)])
    BY <1>1, <2>2, <2>3, CompactsChain
  <2>5. z[2] < Len(z[1])
    BY <1>1, <2>1 DEF MergeEnds
  <2> QED BY <2>2, <2>4, <2>5
<1> HIDE DEF Bad
<1>3. PICK n \in Nat : /\ \E z \in Bad : Len(z[1]) = n
                       /\ \A z \in Bad : n <= Len(z[1])
  <2> DEFINE S == {Len(z[1]) : z \in Bad}
  <2>1. S \in SUBSET Nat /\ S # {}
    BY <1>1, <1>2
  <2>2. \E k \in S : \A l \in S : k <= l
    BY <2>1, LeastNat
  <2> QED BY <2>1, <2>2
<1> DEFINE Shortest == {z \in Bad : Len(z[1]) = n}
<1>4. PICK i \in Nat : /\ \E z \in Shortest : n - z[2] = i
                       /\ \A z \in Shortest : i <= n - z[2]
  <2> DEFINE S == {n - z[2] : z \in Shortest}
  <2>0. \A z \in Shortest : n - z[2] \in Nat
    BY <1>1, <1>2
  <2>1. S \in SUBSET Nat /\ S # {}
    BY <1>3, <2>0
  <2>2. \E k \in S : \A l \in S : k <= l
    BY <2>1, LeastNat
  <2> QED BY <2>1, <2>2
<1> DEFINE Furthest == {z \in Shortest : n - z[2] = i}
<1>5. ASSUME NEW z \in Furthest PROVE z[3] <= n
  <2> SUFFICES ASSUME z[3] > Len(z[1]) PROVE FALSE
    BY <1>1, <1>2, <1>3
  <2>1. MergeStep(z) = <<z[1], z[2] + 1, z[2] + 2>>
    BY DEF MergeStep
  <2>2. MergeStep(z) \in Shortest
    BY <1>2, <2>1
  <2>3. i <= n - (z[2] + 1)
    BY <1>4, <2>1, <2>2
  <2> QED BY <1>1, <1>2, <2>3
<1>6. PICK j \in Nat : /\ \E z \in Furthest : n - z[3] = j
                       /\ \A z \in Furthest : j <= n - z[3]
  <2> DEFINE S == {n - z[3] : z \in Furthest}
  <2>0. \A z \in Furthest : n - z[3] \in Nat
    BY <1>1, <1>2, <1>5
  <2>1. S \in SUBSET Nat /\ S # {}
    BY <1>4, <2>0
  <2>2. \E k \in S : \A l \in S : k <= l
    BY <2>1, LeastNat
  <2> QED BY <2>1, <2>2
<1>7. PICK z \in Furthest : n - z[3] = j
  BY <1>6
<1>8. z \in Merging /\ Len(z[1]) = n /\ n - z[2] = i /\ z[2] < n /\ z[3] <= n /\ MergeStep(z) \in Bad
  BY <1>2, <1>5
<1>9. CASE Mergeable(z[1][z[2]], z[1][z[3]])
  <2>1. MergeStep(z)[1] = MergePair(z[1], z[2], z[3])
    BY <1>1, <1>8, <1>9 DEF MergeStep
  <2>2. z[2] \in DOMAIN z[1] /\ z[3] \in DOMAIN z[1] /\ z[1] \in Seq(Rect) /\ z[2] < z[3]
    BY <1>1, <1>8
  <2>3. Len(MergeStep(z)[1]) = n - 1
    BY <1>8, <2>1, <2>2, MergePairIs
  <2>4. n <= n - 1
    BY <1>3, <1>8, <2>3
  <2> QED BY <1>1, <1>3, <2>4
<1>10. CASE ~ Mergeable(z[1][z[2]], z[1][z[3]])
  <2>1. MergeStep(z) = <<z[1], z[2], z[3] + 1>>
    BY <1>1, <1>8, <1>10 DEF MergeStep
  <2>2. MergeStep(z) \in Furthest
    BY <1>8, <2>1
  <2>3. j <= n - (z[3] + 1)
    BY <1>6, <2>1, <2>2
  <2> QED BY <1>1, <1>7, <1>8, <2>3
<1> QED BY <1>9, <1>10

\* Merging makes a list no longer and loses no pixel: EvdiPainter's MergeAssumption
\* holds of merge_rects.
THEOREM MergeCompacts == \A rects \in Seq(Rect) : Compacts(rects, merge_rects(rects))
<1> SUFFICES ASSUME NEW rects \in Seq(Rect) PROVE Compacts(rects, merge_rects(rects))
  OBVIOUS
<1>1. <<rects, 1, 2>> \in Merging
  BY DEF Merging
<1> QED BY <1>1, MergeFromCompacts DEF merge_rects

\* What FoldLeft does at the set s of indices: the largest comes last.
FoldAt(f, base, seq, s) ==
    IF s = {} THEN base ELSE expand_rect(f[s \ {Max(s)}], seq[Max(s)])
IsFold(f, base, seq, n) == f = [s \in SUBSET (1 .. n) |-> FoldAt(f, base, seq, s)]

\* A function on the sets of indices up to k is made from one on those up to k - 1.
LEMMA FoldExists ==
    ASSUME NEW base, NEW seq, NEW n \in Nat
    PROVE  \E f : IsFold(f, base, seq, n)
<1> DEFINE Is(f, k) == IsFold(f, base, seq, k)
           Bad == {k \in Nat : ~ \E f : Is(f, k)}
<1>1. SUFFICES ASSUME Bad # {} PROVE FALSE
  OBVIOUS
<1>2. PICK k \in Bad : \A m \in Bad : k <= m
  BY <1>1, LeastNat
<1>0. k \in Nat
  BY <1>2
<1>3. ASSUME k = 0 PROVE FALSE
  <2>1. 1 .. 0 = {}
    OBVIOUS
  <2>2. SUBSET (1 .. 0) = {{}}
    BY <2>1
  <2>3. Is([s \in {{}} |-> base], 0)
    BY <2>2 DEF IsFold, FoldAt
  <2> QED BY <1>3, <2>3
<1>4. PICK h : Is(h, k - 1)
  <2>1. k - 1 \in Nat /\ ~ (k <= k - 1)
    BY <1>3
  <2> QED BY <1>2, <2>1
<1> DEFINE At(f, s) == FoldAt(f, base, seq, s)
           g == [s \in SUBSET (1 .. k) |-> At(h, s)]
<1>5. ASSUME NEW s \in SUBSET (1 .. k), s # {}
      PROVE  Max(s) \in s /\ s \ {Max(s)} \in SUBSET (1 .. k - 1)
  <2>1. PICK m \in s : \A l \in s : l <= m
    <3> DEFINE S == {k - l : l \in s}
    <3>0. \A l \in s : k - l \in Nat
      BY <1>0, <1>5
    <3>1. S \in SUBSET Nat /\ S # {}
      BY <1>5, <3>0
    <3>2. \E x \in S : \A y \in S : x <= y
      BY <3>1, LeastNat
    <3>3. PICK m \in s : \A l \in s : k - m <= k - l
      BY <3>2
    <3>4. \A l \in s : l \in Int
      BY <1>0
    <3> QED BY <1>0, <3>3, <3>4
  <2>2. Max(s) \in s /\ \A l \in s : Max(s) >= l
    BY <2>1 DEF Max
  <2>3. \A l \in s \ {Max(s)} : l \in 1 .. k - 1
    <3> SUFFICES ASSUME NEW l \in s, l # Max(s) PROVE l \in 1 .. k - 1
      OBVIOUS
    <3>1. l \in 1 .. k /\ Max(s) \in 1 .. k
      BY <1>5, <2>2
    <3> QED BY <1>0, <2>2, <3>1
  <2> QED BY <2>2, <2>3
<1>6. \A s \in SUBSET (1 .. k - 1) : h[s] = At(h, s)
  BY <1>4 DEF IsFold
<1> HIDE DEF At
<1>7. \A s \in SUBSET (1 .. k - 1) : g[s] = h[s]
  <2>1. 1 .. k - 1 \subseteq 1 .. k
    BY <1>3
  <2> QED BY <1>6, <2>1
<1>8. ASSUME NEW s \in SUBSET (1 .. k) PROVE At(g, s) = At(h, s)
  <2> HIDE DEF g
  <2> QED BY <1>5, <1>7 DEF At, FoldAt
<1>9. Is(g, k)
  <2>1. g = [s \in SUBSET (1 .. k) |-> At(g, s)]
    BY <1>8
  <2> QED BY <2>1 DEF At, IsFold
<1> QED BY <1>9

Bounding(base, seq) == FoldLeft(expand_rect, base, seq)

\* It takes the entries one after the other: g[1 .. k] is what the first k make of base.
Steps(g, base, seq, n) ==
    /\ g[1 .. 0] = base
    /\ \A k \in Nat : 0 < k /\ k <= n => g[1 .. k] = expand_rect(g[1 .. k - 1], seq[k])
    /\ Bounding(base, seq) = g[1 .. n]

LEMMA FoldIs ==
    ASSUME NEW base, NEW seq, NEW n \in Nat, DOMAIN seq = 1 .. n
    PROVE  \E g : Steps(g, base, seq, n)
<1> DEFINE g == CHOOSE f : IsFold(f, base, seq, n)
<1>1. Bounding(base, seq) = g[1 .. n]
  BY DEF Bounding, FoldLeft, MapThenFoldSet, IsFold, FoldAt
<1>2. \E f : IsFold(f, base, seq, n)
  BY FoldExists
<1>3. IsFold(g, base, seq, n)
  BY <1>2
<1> HIDE DEF g
<1>4. \A s \in SUBSET (1 .. n) : g[s] = FoldAt(g, base, seq, s)
  BY <1>3 DEF IsFold
<1>5. g[1 .. 0] = base
  <2>1. 1 .. 0 = {}
    OBVIOUS
  <2>2. g[{}] = FoldAt(g, base, seq, {})
    BY <1>4
  <2> QED BY <2>1, <2>2 DEF FoldAt
<1>6. \A s \in (SUBSET (1 .. n)) \ {{}} : g[s] = expand_rect(g[s \ {Max(s)}], seq[Max(s)])
  <2> SUFFICES ASSUME NEW s \in SUBSET (1 .. n), s # {}
               PROVE  g[s] = expand_rect(g[s \ {Max(s)}], seq[Max(s)])
    OBVIOUS
  <2>1. g[s] = FoldAt(g, base, seq, s)
    BY <1>4
  <2> QED BY <2>1 DEF FoldAt
<1>7. ASSUME NEW k \in Nat, 0 < k, k <= n
      PROVE  g[1 .. k] = expand_rect(g[1 .. k - 1], seq[k])
  <2>1. Max(1 .. k) = k
    BY <1>7 DEF Max
  <2>2. (1 .. k) \ {k} = 1 .. k - 1
    BY <1>7
  <2>3. 1 .. k \in (SUBSET (1 .. n)) \ {{}}
    <3>1. 1 \in 1 .. k /\ \A l \in 1 .. k : l \in 1 .. n
      BY <1>7
    <3>2. 1 .. k # {} /\ 1 .. k \subseteq 1 .. n
      BY <3>1
    <3> QED BY <3>2
  <2> QED BY <1>6, <2>1, <2>2, <2>3
<1> QED BY <1>1, <1>5, <1>7 DEF Steps

\* Collapsing leaves one rectangle and loses no pixel: EvdiPainter's
\* CollapseAssumption holds of collapse_rects.
THEOREM CollapseCompacts ==
    \A rects \in Seq(Rect) \ {<<>>} : /\ Compacts(rects, collapse_rects(rects))
                                      /\ Len(collapse_rects(rects)) = 1
<1> SUFFICES ASSUME NEW rects \in Seq(Rect), rects # <<>>
             PROVE  Compacts(rects, collapse_rects(rects)) /\ Len(collapse_rects(rects)) = 1
  OBVIOUS
<1> DEFINE first == Head(rects)
           rest == Tail(rects)
           n == Len(rects) - 1
<1>1. /\ n \in Nat /\ DOMAIN rest = 1 .. n /\ DOMAIN rects = 1 .. n + 1
      /\ first = rects[1] /\ \A k \in 1 .. n : rest[k] = rects[k + 1]
      /\ \A k \in 1 .. n + 1 : rects[k] \in Rect
  OBVIOUS
<1> HIDE DEF first, rest, n
<1>2. PICK g : Steps(g, first, rest, n)
  BY <1>1, FoldIs
<1> DEFINE Good(k) == /\ g[1 .. k] \in Rect
                      /\ \A x, y \in Coord : \A i \in 1 .. k + 1 :
                             Covers(rects[i], x, y) => Covers(g[1 .. k], x, y)
           Bad == {k \in 0 .. n : ~ Good(k)}
<1>3. Good(n)
  <2> SUFFICES ASSUME Bad # {} PROVE FALSE
    BY <1>1
  <2>1. PICK k \in Bad : \A l \in Bad : k <= l
    <3>1. Bad \in SUBSET Nat
      BY <1>1
    <3> HIDE DEF Bad
    <3> QED BY <3>1, LeastNat
  <2>2. k \in 0 .. n /\ ~ Good(k)
    BY <2>1
  <2>3. Good(0)
    <3>1. 1 \in 1 .. n + 1
      BY <1>1
    <3>2. g[1 .. 0] = rects[1] /\ rects[1] \in Rect
      BY <1>1, <1>2, <3>1 DEF Steps
    <3>3. \A i \in 1 .. 0 + 1 : i = 1
      OBVIOUS
    <3> QED BY <3>2, <3>3
  <2>4. k - 1 \in 0 .. n /\ 0 < k /\ k <= n /\ k \in Nat /\ k \in 1 .. n
    BY <1>1, <2>2, <2>3
  <2>5. Good(k - 1)
    BY <2>1, <2>4
  <2>6. g[1 .. k] = expand_rect(g[1 .. k - 1], rects[k + 1]) /\ rects[k + 1] \in Rect
    BY <1>1, <1>2, <2>4 DEF Steps
  <2>7. /\ g[1 .. k] \in Rect
        /\ \A x, y \in Coord : Covers(g[1 .. k - 1], x, y) \/ Covers(rects[k + 1], x, y) =>
                                   Covers(g[1 .. k], x, y)
    BY <2>5, <2>6, ExpandRect
  <2>8. \A i \in 1 .. k + 1 : i \in 1 .. (k - 1) + 1 \/ i = k + 1
    BY <2>4
  <2> QED BY <2>2, <2>5, <2>7, <2>8
<1>4. collapse_rects(rects) = <<g[1 .. n]>>
  BY <1>2 DEF Steps, collapse_rects, Bounding, first, rest
<1>5. ASSUME NEW x \in Coord, NEW y \in Coord, ListCovers(rects, x, y)
      PROVE  ListCovers(<<g[1 .. n]>>, x, y)
  <2>1. Covers(g[1 .. n], x, y)
    BY <1>1, <1>3, <1>5 DEF ListCovers
  <2> QED BY <2>1 DEF ListCovers
<1>6. Len(<<g[1 .. n]>>) <= Len(rects)
  BY <1>1 DEF n
<1> QED BY <1>3, <1>4, <1>5, <1>6 DEF Compacts

=============================================================================
