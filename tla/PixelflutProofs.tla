-------------------------- MODULE PixelflutProofs --------------------------
(***************************************************************************)
(* Proofs about Pixelflut, for every screen and every pool of connections. *)
(* For every list of rectangles:                                           *)
(*   - every variable keeps its type (Typing);                             *)
(*   - the staggered rounds look at each pixel of a rectangle once         *)
(*     (PixelOnce).                                                        *)
(* The second rests on 2 and ROUNDS being coprime: a pixel d columns into  *)
(* the rectangle is visited in the round r with 2(r + y) = d modulo 5,     *)
(* which is r = 3d - y modulo 5.                                           *)
(* When every update is of the whole screen, where looking at each pixel   *)
(* once per update gives everything its turn:                              *)
(*   - what has changed is sent (ScreenIsSent);                            *)
(*   - it arrives in the order it was sent, if the pool divides the        *)
(*     screen (LanesKeepOrder);                                            *)
(*   - the reblits reach every pixel, if the screen is coprime to their    *)
(*     frequency (RepaintedEachCycle).                                     *)
(***************************************************************************)
EXTENDS Pixelflut, SequenceTheorems, FiniteSetTheorems, TLAPS

Colors == {Black} \cup {picture[p] : picture \in Pictures, p \in Pixels}
Message == [pixel : Pixels, color : Colors]

\* the round in which pixel p of rectangle r is visited
Turn(r, p) == (3 * (p[1] - r.x1) - p[2]) % ROUNDS

\* pixel p is visited before the loops get to column u of row v in round n
Before(r, n, v, u, p) ==
    \/ Turn(r, p) < n
    \/ Turn(r, p) = n /\ (p[2] < v \/ (p[2] = v /\ p[1] < u))

TypeInv ==
    /\ TypeOK
    /\ wire \in [0 .. Conns - 1 -> Seq(Message)]
    /\ fb \in [0 .. FRAMEBUFFERS - 1 -> [Pixels -> Colors]]

\* where the loops are, and that what they have passed is what was visited
Traversal ==
    pc = "pixel" =>
        /\ y >= rect.y1 /\ x >= rect.x1
        /\ (x - rect.x1) % ROUNDS = (((round + y) % ROUNDS) * STAGGER) % ROUNDS
        /\ visited = {p \in PixelsOf(rect) : Before(rect, round, y, x, p)}

-----------------------------------------------------------------------------
(* Arithmetic of the rounds.                                               *)

\* The column a row starts at decides the round, and the other way round.
LEMMA RoundOfColumn ==
    ASSUME NEW d \in Int, NEW v \in Int, NEW r \in 0 .. ROUNDS - 1
    PROVE  d % ROUNDS = (((r + v) % ROUNDS) * STAGGER) % ROUNDS
               <=> (3 * d - v) % ROUNDS = r
BY DEF ROUNDS, STAGGER

LEMMA TurnInRounds ==
    ASSUME NEW r \in Rects, NEW p \in Pixels
    PROVE  Turn(r, p) \in 0 .. ROUNDS - 1
<1>1. r.x1 \in Int /\ p[1] \in Int /\ p[2] \in Int
  BY SizeAssumption DEF Rects, Pixels
<1>2. 3 * (p[1] - r.x1) - p[2] \in Int
  BY <1>1
<1> QED BY <1>2 DEF Turn, ROUNDS

\* A row starts within the first ROUNDS columns, where its round says.
LEMMA RowStarts ==
    ASSUME NEW v \in Nat, NEW r \in 0 .. ROUNDS, rect \in Rects
    PROVE  /\ RowStart(r, v) \in Nat
           /\ RowStart(r, v) - rect.x1 \in 0 .. ROUNDS - 1
           /\ (RowStart(r, v) - rect.x1) % ROUNDS = (((r + v) % ROUNDS) * STAGGER) % ROUNDS
<1>1. rect.x1 \in Nat
  BY SizeAssumption DEF Rects
<1> DEFINE off == (((r + v) % ROUNDS) * STAGGER) % ROUNDS
<1>2. off \in 0 .. ROUNDS - 1 /\ off % ROUNDS = off
  BY DEF ROUNDS, STAGGER
<1>3. RowStart(r, v) = rect.x1 + off
  BY DEF RowStart
<1> HIDE DEF off
<1>4. /\ RowStart(r, v) \in Nat
      /\ RowStart(r, v) - rect.x1 = off
  BY <1>1, <1>2, <1>3 DEF ROUNDS
<1>5. off % ROUNDS = (((r + v) % ROUNDS) * STAGGER) % ROUNDS
  BY <1>2 DEF off
<1> QED BY <1>2, <1>4, <1>5

\* No pixel of a row is visited before the row's start.
LEMMA NothingBeforeStart ==
    ASSUME NEW p \in Pixels, NEW r \in 0 .. ROUNDS, rect \in Rects,
           p[1] >= rect.x1, Turn(rect, p) = r
    PROVE  ~ (p[1] < RowStart(r, p[2]))
<1>1. rect.x1 \in Nat /\ p[1] \in Nat /\ p[2] \in Nat
  BY SizeAssumption DEF Rects, Pixels
<1> DEFINE d == p[1] - rect.x1
           s == RowStart(r, p[2]) - rect.x1
<1>2. r \in 0 .. ROUNDS - 1
  BY TurnInRounds
<1>3. d % ROUNDS = (((r + p[2]) % ROUNDS) * STAGGER) % ROUNDS
  <2>1. d \in Int /\ (3 * d - p[2]) % ROUNDS = r
    BY <1>1 DEF Turn
  <2> DEFINE v == p[2]
  <2>2. v \in Int /\ d \in Int /\ (3 * d - v) % ROUNDS = r
    BY <1>1, <2>1
  <2> HIDE DEF d, v
  <2>3. d % ROUNDS = (((r + v) % ROUNDS) * STAGGER) % ROUNDS
    BY <1>2, <2>2 DEF ROUNDS, STAGGER
  <2> QED BY <2>3 DEF v
<1>4. /\ s \in 0 .. ROUNDS - 1
      /\ s % ROUNDS = (((r + p[2]) % ROUNDS) * STAGGER) % ROUNDS
      /\ RowStart(r, p[2]) \in Nat
  BY <1>1, RowStarts
<1>5. d \in Nat /\ s \in Nat /\ d % ROUNDS = s % ROUNDS
  BY <1>1, <1>3, <1>4 DEF ROUNDS
<1>6. ~ (d < s)
  <2> HIDE DEF d, s
  <2> QED BY <1>4, <1>5 DEF ROUNDS
<1> QED BY <1>1, <1>4, <1>6

-----------------------------------------------------------------------------
(* Types.                                                                  *)

LEMMA InitType == Init => TypeInv
<1> SUFFICES ASSUME Init PROVE TypeInv
  OBVIOUS
<1>1. TypeOK
  BY PoolAssumption DEF Init, TypeOK, FRAMEBUFFERS, NULL, ROUNDS
<1>2. wire \in [0 .. Conns - 1 -> Seq(Message)]
  BY DEF Init
<1>3. fb \in [0 .. FRAMEBUFFERS - 1 -> [Pixels -> Colors]]
  BY DEF Init, Colors
<1> QED BY <1>1, <1>2, <1>3 DEF TypeInv

\* An update's rectangles become the list; its pictures are copied into a buffer.
LEMMA GetType ==
    ASSUME TypeInv, NEW picture \in Pictures, NEW update \in Updates, Get(picture, update)
    PROVE  TypeInv'
<1>1. update \in Seq(Rects)
  BY UpdatesAssumption
<1>2. fbid' \in 0 .. FRAMEBUFFERS - 1
  BY DEF Get, TypeInv, TypeOK, FRAMEBUFFERS
<1>3. fb' \in [0 .. FRAMEBUFFERS - 1 -> [Pixels -> Colors]]
  <2>1. \A p \in Pixels : picture[p] \in Colors
    BY DEF Colors
  <2>2. fb[fbid'] \in [Pixels -> Colors]
    BY <1>2 DEF TypeInv
  <2>3. [p \in Pixels |-> IF p \in PixelsOfAll(update) THEN picture[p] ELSE fb[fbid'][p]]
            \in [Pixels -> Colors]
    BY <2>1, <2>2
  <2> QED BY <1>2, <2>3 DEF Get, TypeInv
<1>4. TypeOK'
  BY <1>1, <1>2 DEF Get, TypeInv, TypeOK, poolVars, history
<1> QED BY <1>3, <1>4 DEF TypeInv, Get, poolVars

LEMMA RectType ==
    ASSUME TypeInv, pc # "idle"
    PROVE  /\ rects # <<>> /\ rect \in Rects
           /\ rect.x1 \in Nat /\ rect.x2 \in 0 .. Width
           /\ rect.y1 \in Nat /\ rect.y2 \in 0 .. Height
<1>1. rects # <<>> /\ rect \in Rects
  BY DEF TypeInv, TypeOK, rect
<1> QED BY <1>1, SizeAssumption DEF Rects

\* A step of the loops looks at a pixel of the screen.
LEMMA PixelInRect ==
    ASSUME TypeInv, Traversal, InRow
    PROVE  <<x, y>> \in PixelsOf(rect)
<1>1. rect.x1 <= x /\ x < rect.x2 /\ rect.y1 <= y /\ y < rect.y2
  BY DEF InRow, Traversal
<1>2. x \in 0 .. Width - 1 /\ y \in 0 .. Height - 1
  BY <1>1, RectType, SizeAssumption DEF InRow, TypeInv, TypeOK
<1> QED BY <1>1, <1>2 DEF PixelsOf, Pixels

LEMMA StepType ==
    ASSUME TypeInv, Traversal, SetBufStep
    PROVE  TypeInv'
<1>1. CASE EnterCall
  <2>1. rect \in Rects /\ rect.y1 \in Nat /\ 0 \in 0 .. ROUNDS
    BY <1>1, RectType DEF EnterCall, ROUNDS
  <2>2. RowStart(0, rect.y1) \in Nat
    BY <2>1, RowStarts
  <2> QED BY <1>1, <2>1, <2>2 DEF EnterCall, TypeInv, TypeOK, screenVars, poolVars, ROUNDS
<1>2. CASE SkipPixel
  <2>1. <<x, y>> \in Pixels
    BY <1>2, PixelInRect DEF SkipPixel, PixelsOf
  <2>2. skip_reblit' \in 0 .. REBLIT_FREQUENCY - 1 /\ active_conn_i' \in 0 .. Conns - 1
    BY <1>2, PoolAssumption DEF SkipPixel, NextConn, TypeInv, TypeOK
  <2>3. x' \in Nat
    BY <1>2 DEF SkipPixel, AdvanceRow, TypeInv, TypeOK, ROUNDS
  <2> QED BY <1>2, <2>1, <2>2, <2>3 DEF SkipPixel, TypeInv, TypeOK, screenVars
<1>3. CASE SendPixel
  <2>1. <<x, y>> \in Pixels
    BY <1>3, PixelInRect DEF SendPixel, PixelsOf
  <2>2. skip_reblit' \in 0 .. REBLIT_FREQUENCY - 1 /\ active_conn_i' \in 0 .. Conns - 1
    BY <1>3, PoolAssumption DEF SendPixel, NextConn, TypeInv, TypeOK
  <2>3. x' \in Nat
    BY <1>3 DEF SendPixel, AdvanceRow, TypeInv, TypeOK, ROUNDS
  <2>4. [pixel |-> <<x, y>>, color |-> fb[fbid][<<x, y>>]] \in Message
    BY <2>1 DEF Message, TypeInv, TypeOK
  <2>5. /\ wire' \in [0 .. Conns - 1 -> Seq(Message)]
        /\ \A c \in DOMAIN wire' : Len(wire'[c]) <= SNDBUF
    <3> DEFINE m == [pixel |-> <<x, y>>, color |-> fb[fbid][<<x, y>>]]
    <3>1. wire' = [wire EXCEPT ![active_conn_i] = Append(@, m)]
      BY <1>3 DEF SendPixel
    <3>2. m \in Message
      BY <2>4
    <3>3. /\ wire \in [0 .. Conns - 1 -> Seq(Message)] /\ active_conn_i \in 0 .. Conns - 1
          /\ Len(wire[active_conn_i]) < SNDBUF
          /\ \A c \in DOMAIN wire : Len(wire[c]) <= SNDBUF
      BY <1>3 DEF SendPixel, TypeInv, TypeOK
    <3> HIDE DEF m
    <3>4. /\ Append(wire[active_conn_i], m) \in Seq(Message)
          /\ Len(Append(wire[active_conn_i], m)) <= SNDBUF
      BY <3>2, <3>3, PoolAssumption
    <3> QED BY <3>1, <3>3, <3>4
  <2> QED BY <1>3, <2>1, <2>2, <2>3, <2>5 DEF SendPixel, TypeInv, TypeOK, screenVars
<1>4. CASE NextRow
  <2>1. y' \in Nat /\ x' \in Nat
    BY <1>4, RectType, RowStarts DEF NextRow, TypeInv, TypeOK
  <2> QED BY <1>4, <2>1 DEF NextRow, TypeInv, TypeOK, screenVars, poolVars, history
<1>5. CASE NextRound
  <2>1. round' \in 0 .. ROUNDS /\ y' \in Nat
    BY <1>5, RectType DEF NextRound, TypeInv, TypeOK, ROUNDS
  <2>2. x' \in Nat
    BY <1>5, <2>1, RectType, RowStarts DEF NextRound
  <2> QED BY <1>5, <2>1, <2>2 DEF NextRound, TypeInv, TypeOK, screenVars, poolVars, history
<1>6. CASE Return
  <2>1. Tail(rects) \in Seq(Rects) /\ (Tail(rects) = <<>> <=> Len(rects) = 1)
    <3>1. rects \in Seq(Rects) /\ rects # <<>>
      BY <1>6, RectType DEF Return, TypeInv, TypeOK
    <3>2. Tail(rects) \in Seq(Rects) /\ Len(Tail(rects)) = Len(rects) - 1
      BY <3>1
    <3>3. Tail(rects) = <<>> <=> Len(Tail(rects)) = 0
      BY <3>2, EmptySeq
    <3> QED BY <3>1, <3>2, <3>3
  <2>2. last_buf' \in 0 .. NULL
    BY <1>6 DEF Return, TypeInv, TypeOK, FRAMEBUFFERS, NULL
  <2> QED BY <1>6, <2>1, <2>2
          DEF Return, CallOver, TypeInv, TypeOK, screenVars, poolVars, ROUNDS
<1> QED BY <1>1, <1>2, <1>3, <1>4, <1>5, <1>6 DEF SetBufStep

LEMMA PaintType ==
    ASSUME TypeInv, NEW c \in DOMAIN wire, Paint(c)
    PROVE  TypeInv'
<1>1. /\ wire' \in [0 .. Conns - 1 -> Seq(Message)]
      /\ \A d \in DOMAIN wire' : Len(wire'[d]) <= SNDBUF
  <2>1. /\ wire[c] \in Seq(Message) /\ wire[c] # <<>> /\ Len(wire[c]) <= SNDBUF
        /\ wire' = [wire EXCEPT ![c] = Tail(@)]
    BY DEF Paint, TypeInv, TypeOK
  <2>2. Tail(wire[c]) \in Seq(Message) /\ Len(Tail(wire[c])) <= SNDBUF
    BY <2>1, PoolAssumption
  <2> QED BY <2>1, <2>2 DEF TypeInv, TypeOK
<1> QED BY <1>1 DEF Paint, TypeInv, TypeOK, screenVars, loopVars, history

-----------------------------------------------------------------------------
(* The traversal.                                                          *)

\* At the start of a round nothing of it is done, whatever the round before did.
LEMMA RoundStart ==
    ASSUME rect \in Rects, NEW n \in 0 .. ROUNDS, NEW p \in PixelsOf(rect)
    PROVE  Before(rect, n, rect.y1, RowStart(n, rect.y1), p) <=> Turn(rect, p) < n
<1>1. /\ p \in Pixels /\ p[1] >= rect.x1 /\ p[2] >= rect.y1
      /\ rect.y1 \in Nat /\ p[2] \in Nat
  BY SizeAssumption DEF PixelsOf, Pixels, Rects
<1>2. Turn(rect, p) = n => ~ (p[1] < RowStart(n, p[2]))
  BY <1>1, NothingBeforeStart
<1> QED BY <1>1, <1>2 DEF Before

\* A row without a pixel left is done, and the next one is not begun.
LEMMA RowDone ==
    ASSUME rect \in Rects, NEW n \in 0 .. ROUNDS, NEW p \in PixelsOf(rect),
           NEW v \in Nat, NEW u \in Nat, u >= rect.x2
    PROVE  Before(rect, n, v, u, p) <=> Before(rect, n, v + 1, RowStart(n, v + 1), p)
<1>1. /\ p \in Pixels /\ p[1] >= rect.x1 /\ p[1] < rect.x2
      /\ p[1] \in Nat /\ p[2] \in Nat /\ rect.x2 \in Nat
  BY SizeAssumption DEF PixelsOf, Pixels, Rects
<1>2. Turn(rect, p) = n => ~ (p[1] < RowStart(n, p[2]))
  BY <1>1, NothingBeforeStart
<1>3. p[1] < u
  BY <1>1
<1> QED BY <1>1, <1>2, <1>3 DEF Before

\* When all its rows are done a round is.
LEMMA RoundDone ==
    ASSUME rect \in Rects, NEW n \in 0 .. ROUNDS, NEW p \in PixelsOf(rect),
           NEW v \in Nat, NEW u, v >= rect.y2
    PROVE  Before(rect, n, v, u, p) <=> Turn(rect, p) < n + 1
<1>1. /\ p \in Pixels /\ p[2] < rect.y2 /\ p[2] \in Nat /\ rect.y2 \in Nat
  BY SizeAssumption DEF PixelsOf, Pixels, Rects
<1>2. Turn(rect, p) \in 0 .. ROUNDS - 1
  BY <1>1, TurnInRounds
<1> QED BY <1>1, <1>2 DEF Before, ROUNDS

\* The pixel the loops are at is one of this round, and the next ROUNDS - 1 in
\* its row are not.
LEMMA TurnAt ==
    ASSUME TypeInv, Traversal, InRow, NEW p \in PixelsOf(rect),
           p[2] = y, p[1] >= x, p[1] < x + ROUNDS
    PROVE  Turn(rect, p) = round <=> p[1] = x
<1>1. /\ rect.x1 \in Nat /\ x \in Nat /\ y \in Nat /\ p[1] \in Nat
      /\ round \in 0 .. ROUNDS - 1 /\ x >= rect.x1
  <2>1. pc = "pixel" /\ round < ROUNDS
    BY DEF InRow
  <2>2. rect.x1 \in Nat /\ x >= rect.x1
    BY <2>1, RectType DEF Traversal
  <2>3. x \in Nat /\ y \in Nat /\ round \in 0 .. ROUNDS - 1
    BY <2>1 DEF TypeInv, TypeOK, ROUNDS
  <2>4. p[1] \in Nat
    BY DEF PixelsOf, Pixels
  <2> QED BY <2>2, <2>3, <2>4
<1> DEFINE d == x - rect.x1
           e == p[1] - rect.x1
<1>2. /\ d \in Nat /\ e \in Nat /\ e >= d /\ e < d + ROUNDS
      /\ d % ROUNDS = (((round + y) % ROUNDS) * STAGGER) % ROUNDS
  BY <1>1 DEF Traversal, InRow, ROUNDS
<1>3. Turn(rect, p) = (3 * e - y) % ROUNDS
  BY DEF Turn
<1>4. p[1] = x <=> e = d
  BY <1>1
<1> HIDE DEF d, e
<1>5. (3 * e - y) % ROUNDS = round <=> e = d
  BY <1>1, <1>2 DEF ROUNDS, STAGGER
<1> QED BY <1>3, <1>4, <1>5

\* Visiting the pixel and going on by ROUNDS columns passes this pixel only.
LEMMA PixelDone ==
    ASSUME TypeInv, Traversal, InRow
    PROVE  {p \in PixelsOf(rect) : Before(rect, round, y, x + ROUNDS, p)}
               = visited \cup {<<x, y>>}
<1>1. <<x, y>> \in PixelsOf(rect) /\ x \in Nat /\ y \in Nat
  BY PixelInRect DEF TypeInv, TypeOK
<1>2. ASSUME NEW p \in PixelsOf(rect)
      PROVE  Before(rect, round, y, x + ROUNDS, p)
                 <=> Before(rect, round, y, x, p) \/ p = <<x, y>>
  <2>1. p = <<p[1], p[2]>> /\ p[1] \in Nat /\ p[2] \in Nat
    BY DEF PixelsOf, Pixels
  <2>2. CASE p[2] = y /\ p[1] >= x /\ p[1] < x + ROUNDS
    <3>1. Turn(rect, p) = round <=> p = <<x, y>>
      BY <2>1, <2>2, <1>1, TurnAt
    <3> QED BY <3>1, <2>1, <2>2, <1>1 DEF Before
  <2>3. CASE ~ (p[2] = y /\ p[1] >= x /\ p[1] < x + ROUNDS)
    BY <2>1, <2>3, <1>1 DEF Before, ROUNDS
  <2> QED BY <2>2, <2>3
<1>3. visited = {p \in PixelsOf(rect) : Before(rect, round, y, x, p)}
  BY DEF Traversal, InRow
<1> QED BY <1>1, <1>2, <1>3

LEMMA EnterTraversal ==
    ASSUME TypeInv, EnterCall
    PROVE  Traversal'
<1>1. rect \in Rects /\ rect.x1 \in Nat /\ rect.y1 \in Nat /\ 0 \in 0 .. ROUNDS
  BY RectType DEF EnterCall, ROUNDS
<1>2. /\ rect' = rect /\ y' = rect.y1 /\ x' = RowStart(0, rect.y1) /\ round' = 0
      /\ visited' = {}
  BY DEF EnterCall, rect
<1>3. /\ RowStart(0, rect.y1) \in Nat /\ RowStart(0, rect.y1) - rect.x1 \in 0 .. ROUNDS - 1
      /\ (RowStart(0, rect.y1) - rect.x1) % ROUNDS = (((0 + rect.y1) % ROUNDS) * STAGGER) % ROUNDS
  BY <1>1, RowStarts
<1>4. ASSUME NEW p \in PixelsOf(rect)
      PROVE  ~ Before(rect, 0, rect.y1, RowStart(0, rect.y1), p)
  <2>1. Turn(rect, p) \in 0 .. ROUNDS - 1
    BY <1>1, TurnInRounds DEF PixelsOf
  <2> QED BY <1>1, <2>1, RoundStart DEF ROUNDS
<1>5. RowStart(0, rect.y1) >= rect.x1
  BY <1>1, <1>3
<1> QED BY <1>1, <1>2, <1>3, <1>4, <1>5 DEF Traversal

LEMMA PixelTraversal ==
    ASSUME TypeInv, Traversal, SkipPixel \/ SendPixel
    PROVE  Traversal'
<1>1. /\ InRow /\ rect' = rect /\ y' = y /\ round' = round /\ x' = x + ROUNDS
      /\ visited' = visited \cup {<<x, y>>}
  BY DEF SkipPixel, SendPixel, AdvanceRow, rect
<1>2. visited' = {p \in PixelsOf(rect) : Before(rect, round, y, x + ROUNDS, p)}
  BY <1>1, PixelDone
<1>3. /\ rect.x1 \in Nat /\ x \in Nat /\ y >= rect.y1 /\ x >= rect.x1
      /\ (x - rect.x1) % ROUNDS = (((round + y) % ROUNDS) * STAGGER) % ROUNDS
  BY <1>1, RectType DEF InRow, Traversal, TypeInv, TypeOK
<1>4. /\ x + ROUNDS >= rect.x1
      /\ ((x + ROUNDS) - rect.x1) % ROUNDS = (((round + y) % ROUNDS) * STAGGER) % ROUNDS
  <2>1. ((x + ROUNDS) - rect.x1) % ROUNDS = (x - rect.x1) % ROUNDS /\ x + ROUNDS >= rect.x1
    BY <1>3 DEF ROUNDS
  <2> QED BY <1>3, <2>1
<1>5. (x' - rect'.x1) % ROUNDS = (((round' + y') % ROUNDS) * STAGGER) % ROUNDS
  BY <1>1, <1>4
<1>6. y' >= rect'.y1 /\ x' >= rect'.x1
  BY <1>1, <1>3, <1>4
<1>7. visited' = {p \in PixelsOf(rect') : Before(rect', round', y', x', p)}
  BY <1>1, <1>2
<1> QED BY <1>5, <1>6, <1>7 DEF Traversal

LEMMA RowTraversal ==
    ASSUME TypeInv, Traversal, NextRow
    PROVE  Traversal'
<1>1. /\ rect \in Rects /\ rect.x1 \in Nat /\ rect.y1 \in Nat /\ x \in Nat /\ y \in Nat
      /\ round \in 0 .. ROUNDS /\ y >= rect.y1 /\ x >= rect.x2
      /\ visited = {p \in PixelsOf(rect) : Before(rect, round, y, x, p)}
  <2>1. pc = "pixel" /\ pc # "idle" /\ x >= rect.x2
    BY DEF NextRow
  <2>2. rect \in Rects /\ rect.x1 \in Nat /\ rect.y1 \in Nat
    BY <2>1, RectType
  <2> QED BY <2>1, <2>2 DEF TypeInv, TypeOK, Traversal
<1>2. /\ rect' = rect /\ round' = round /\ y' = y + 1 /\ x' = RowStart(round, y + 1)
      /\ visited' = visited
  BY DEF NextRow, rect, screenVars, history
<1>3. /\ x' \in Nat /\ x' - rect.x1 \in 0 .. ROUNDS - 1
      /\ (x' - rect.x1) % ROUNDS = (((round + y') % ROUNDS) * STAGGER) % ROUNDS
  <2>1. y' \in Nat /\ x' = RowStart(round, y')
    BY <1>1, <1>2
  <2> QED BY <1>1, <2>1, RowStarts
<1>4. visited' = {p \in PixelsOf(rect) : Before(rect, round, y', x', p)}
  BY <1>1, <1>2, RowDone
<1>5. x' >= rect.x1 /\ y' >= rect.y1
  BY <1>1, <1>2, <1>3
<1> QED BY <1>2, <1>3, <1>4, <1>5 DEF Traversal

LEMMA RoundTraversal ==
    ASSUME TypeInv, Traversal, NextRound
    PROVE  Traversal'
<1>1. /\ rect \in Rects /\ rect.x1 \in Nat /\ rect.y1 \in Nat /\ x \in Nat /\ y \in Nat
      /\ round \in 0 .. ROUNDS /\ round + 1 \in 0 .. ROUNDS /\ y >= rect.y2
      /\ visited = {p \in PixelsOf(rect) : Before(rect, round, y, x, p)}
  <2>1. pc = "pixel" /\ pc # "idle" /\ y >= rect.y2 /\ round < ROUNDS
    BY DEF NextRound
  <2>2. rect \in Rects /\ rect.x1 \in Nat /\ rect.y1 \in Nat
    BY <2>1, RectType
  <2>3. round \in 0 .. ROUNDS /\ round + 1 \in 0 .. ROUNDS /\ x \in Nat /\ y \in Nat
    BY <2>1 DEF TypeInv, TypeOK, ROUNDS
  <2> QED BY <2>1, <2>2, <2>3 DEF Traversal
<1>2. /\ rect' = rect /\ round' = round + 1 /\ y' = rect.y1
      /\ x' = RowStart(round + 1, rect.y1) /\ visited' = visited
  BY DEF NextRound, rect, screenVars, history
<1>3. /\ x' \in Nat /\ x' - rect.x1 \in 0 .. ROUNDS - 1
      /\ (x' - rect.x1) % ROUNDS = (((round' + y') % ROUNDS) * STAGGER) % ROUNDS
  BY <1>1, <1>2, RowStarts
<1>4. visited' = {p \in PixelsOf(rect) : Before(rect, round', y', x', p)}
  <2>1. \A p \in PixelsOf(rect) : Before(rect, round, y, x, p) <=> Turn(rect, p) < round + 1
    BY <1>1, RoundDone
  <2>2. \A p \in PixelsOf(rect) : Before(rect, round', y', x', p) <=> Turn(rect, p) < round + 1
    BY <1>1, <1>2, RoundStart
  <2> QED BY <1>1, <1>2, <2>1, <2>2
<1>5. x' >= rect.x1 /\ y' >= rect.y1
  BY <1>1, <1>2, <1>3
<1> QED BY <1>2, <1>3, <1>4, <1>5 DEF Traversal

-----------------------------------------------------------------------------
(* The theorems.                                                           *)

IInv == TypeInv /\ Traversal

LEMMA NextInvariant == IInv /\ [Next]_vars => IInv'
<1> SUFFICES ASSUME IInv, [Next]_vars PROVE IInv'
  OBVIOUS
<1>1. ASSUME NEW picture \in Pictures, NEW update \in Updates, Get(picture, update) PROVE IInv'
  <2>1. TypeInv'
    BY <1>1, GetType DEF IInv
  <2> QED BY <1>1, <2>1 DEF IInv, Get, Traversal
<1>2. CASE SetBufStep
  <2>1. TypeInv'
    BY <1>2, StepType DEF IInv
  <2>2. CASE Return
    BY <2>1, <2>2 DEF IInv, Traversal, Return, CallOver
  <2> QED BY <1>2, <2>1, <2>2, EnterTraversal, PixelTraversal, RowTraversal, RoundTraversal
          DEF IInv, SetBufStep
<1>3. ASSUME NEW c \in DOMAIN wire, Paint(c) PROVE IInv'
  <2>1. TypeInv'
    BY <1>3, PaintType DEF IInv
  <2>2. Traversal'
    BY <1>3 DEF Paint, IInv, Traversal, loopVars, history, rect
  <2> QED BY <2>1, <2>2 DEF IInv
<1>4. CASE UNCHANGED vars
  <2>1. TypeInv'
    BY <1>4 DEF IInv, TypeInv, TypeOK, vars, screenVars, loopVars, poolVars, history
  <2>2. Traversal'
    BY <1>4 DEF IInv, Traversal, vars, loopVars, history, rect
  <2> QED BY <2>1, <2>2 DEF IInv
<1> QED BY <1>1, <1>2, <1>3, <1>4 DEF Next

LEMMA Invariance == Spec => []IInv
<1>1. Init => IInv
  BY InitType DEF Init, IInv, Traversal
<1> QED BY <1>1, NextInvariant, PTL DEF Spec

\* When the loops are at a pixel it is one of the rectangle's they have not been
\* at; when the rounds are over they have been at all of them.
LEMMA OnceFromTraversal == IInv => EachPixelOnce
<1> SUFFICES ASSUME IInv PROVE EachPixelOnce
  OBVIOUS
<1>1. ASSUME InRow PROVE <<x, y>> \in PixelsOf(rect) \ visited
  <2>1. <<x, y>> \in PixelsOf(rect) /\ x \in Nat /\ y \in Nat
    BY <1>1, PixelInRect DEF IInv, TypeInv, TypeOK
  <2>2. Turn(rect, <<x, y>>) = round
    BY <1>1, <2>1, TurnAt DEF IInv, ROUNDS
  <2>3. round \in 0 .. ROUNDS
    BY DEF IInv, TypeInv, TypeOK
  <2>4. ~ Before(rect, round, y, x, <<x, y>>)
    BY <2>1, <2>2, <2>3 DEF Before, ROUNDS
  <2> QED BY <1>1, <2>1, <2>4 DEF IInv, Traversal, InRow
<1>2. ASSUME pc = "pixel", round = ROUNDS PROVE visited = PixelsOf(rect)
  <2>1. rect \in Rects
    BY <1>2, RectType DEF IInv
  <2>2. \A p \in PixelsOf(rect) : Before(rect, round, y, x, p)
    BY <1>2, <2>1, TurnInRounds DEF Before, PixelsOf, ROUNDS
  <2> QED BY <1>2, <2>2 DEF IInv, Traversal
<1> QED BY <1>1, <1>2 DEF EachPixelOnce

\* Every variable keeps its type (pf_set_buf's static state included), for every
\* screen, update and pool.
THEOREM Typing == Spec => []TypeOK
<1>1. IInv => TypeOK
  BY DEF IInv, TypeInv
<1> QED BY <1>1, Invariance, PTL

\* pf_set_buf's staggered rounds look at each pixel of a rectangle exactly once,
\* for rectangles of any size at any offset.
THEOREM PixelOnce == Spec => []EachPixelOnce
BY OnceFromTraversal, Invariance, PTL

-----------------------------------------------------------------------------
(* Remainders of an unknown modulus, for the pool of connections and the   *)
(* reblit counter.                                                         *)

\* Nothing but a multiple of the modulus below it is zero.
LEMMA SmallMultiple ==
    ASSUME NEW R \in Nat \ {0}, NEW k \in Int, NEW r \in 0 .. R - 1, NEW s \in 0 .. R - 1,
           r = s + R * k
    PROVE  k = 0
<1>1. CASE k >= 1
  <2>1. R * k >= R
    BY <1>1
  <2> QED BY <2>1
<1>2. CASE k <= -1
  <2>1. R * k <= -R
    BY <1>2
  <2> QED BY <2>1
<1> QED BY <1>1, <1>2

\* A number by its quotient and remainder.
LEMMA DivMod ==
    ASSUME NEW R \in Nat \ {0}, NEW a \in Int
    PROVE  a % R \in 0 .. R - 1 /\ \E q \in Int : a = R * q + (a % R)
<1>1. a % R \in 0 .. R - 1
  OBVIOUS
<1>2. a \div R \in Int /\ a = R * (a \div R) + (a % R)
  OBVIOUS
<1> QED BY <1>1, <1>2

\* Whole turns make no difference.
LEMMA ModShift ==
    ASSUME NEW R \in Nat \ {0}, NEW a \in Int, NEW k \in Int
    PROVE  (a + R * k) % R = a % R
<1> DEFINE b == a + R * k
           r == a % R
           s == b % R
<1>1. b \in Int
  OBVIOUS
<1>2. b = a + R * k
  OBVIOUS
<1> HIDE DEF b
<1>3. PICK q \in Int, n \in Int : a = R * q + r /\ b = R * n + s
  BY <1>1, DivMod
<1>4. r \in 0 .. R - 1 /\ s \in 0 .. R - 1
  BY <1>1, DivMod
<1> HIDE DEF r, s
<1>5. r = s + R * (n - q - k)
  BY <1>2, <1>3, <1>4
<1>6. n - q - k = 0
  BY <1>4, <1>5, SmallMultiple
<1>7. r = s
  BY <1>4, <1>5, <1>6
<1> QED BY <1>2, <1>7 DEF r, s

\* m times a number, and more, modulo R: the number may be reduced first.
LEMMA ModReduce ==
    ASSUME NEW R \in Nat \ {0}, NEW a \in Int, NEW m \in Int, NEW b \in Int
    PROVE  /\ (m * (a % R) + b) % R = (m * a + b) % R
           /\ (m * (a % R)) % R = (m * a) % R
<1> DEFINE r == a % R
<1>1. PICK q \in Int : a = R * q + r
  BY DivMod
<1>2. r \in Int
  BY DivMod
<1> HIDE DEF r
<1>3. m * a + b = (m * r + b) + R * (m * q) /\ m * a = m * r + R * (m * q)
  BY <1>1, <1>2
<1>4. m * r \in Int /\ m * r + b \in Int /\ m * q \in Int
  BY <1>2
<1>5. (m * a + b) % R = (m * r + b) % R
  BY <1>3, <1>4, ModShift
<1>6. (m * a) % R = (m * r) % R
  BY <1>3, <1>4, ModShift
<1> QED BY <1>5, <1>6 DEF r

\* A counter that is reset counts modulo its bound.
LEMMA ModSucc ==
    ASSUME NEW R \in Nat \ {0}, NEW a \in Int
    PROVE  (a + 1) % R = ((a % R) + 1) % R
<1> DEFINE r == a % R
<1>1. PICK q \in Int : a = R * q + r
  BY DivMod
<1>2. r \in Int
  BY DivMod
<1> HIDE DEF r
<1>3. a + 1 = (r + 1) + R * q /\ r + 1 \in Int
  BY <1>1, <1>2
<1>4. (a + 1) % R = (r + 1) % R
  BY <1>3, ModShift
<1> QED BY <1>4 DEF r

-----------------------------------------------------------------------------
(* What is sent, when every update is of the whole screen.                 *)

\* The device reports the whole screen, as it does after a connect and with a
\* compositor that gives no damage.
WholeScreen == Updates \subseteq {<<Full>>}

\* Of the update under way, what was looked at has its new colour and the rest the
\* colour of the buffer it is compared with, which is the other one.
Shown ==
    /\ sent \in [Pixels -> Colors \cup {NoColor}]
    /\ pc # "idle" => rects = <<Full>> /\ last_buf # fbid
    /\ pc # "idle" \/ last_buf # NULL => fb[fbid] = screen
    /\ pc = "idle" /\ last_buf # NULL => last_buf = fbid /\ sent = screen
    /\ pc # "pixel" => visited = {}
    /\ pc # "idle" => \A p \in Pixels :
          /\ p \in visited => sent[p] = fb[fbid][p]
          /\ p \notin visited /\ last_buf # NULL => sent[p] = fb[last_buf][p]

LEMMA FullIsScreen == PixelsOf(Full) = Pixels /\ PixelsOfAll(<<Full>>) = Pixels
<1>1. \A p \in Pixels : 0 <= p[1] /\ p[1] < Width /\ 0 <= p[2] /\ p[2] < Height
  BY SizeAssumption DEF Pixels
<1>2. PixelsOf(Full) = Pixels
  BY <1>1 DEF PixelsOf, Full
<1>3. PixelsOfAll(<<Full>>) = PixelsOf(Full)
  BY DEF PixelsOfAll
<1> QED BY <1>2, <1>3

\* The loops look at the whole screen.
LEMMA CallIsFull ==
    ASSUME IInv, Shown
    PROVE  /\ pc # "idle" => rect = Full
           /\ InRow => <<x, y>> \in Pixels \ visited
           /\ pc = "pixel" /\ round = ROUNDS => visited = Pixels
<1>1. pc # "idle" => rect = Full
  BY DEF Shown, rect
<1> QED BY <1>1, OnceFromTraversal, FullIsScreen DEF EachPixelOnce, InRow

LEMMA GetShown ==
    ASSUME IInv, Shown, WholeScreen,
           NEW picture \in Pictures, NEW update \in Updates, Get(picture, update)
    PROVE  Shown'
<1>1. update = <<Full>> /\ PixelsOfAll(update) = Pixels /\ update # <<>>
  BY FullIsScreen DEF WholeScreen
<1>2. fbid' \in 0 .. FRAMEBUFFERS - 1 /\ fbid' # fbid
  BY DEF Get, IInv, TypeInv, TypeOK, FRAMEBUFFERS
<1>3. /\ pc = "idle" /\ pc' = "rect" /\ rects' = update /\ screen' = picture
      /\ UNCHANGED <<last_buf, sent, visited>>
  BY <1>1 DEF Get, history
<1>4. fb'[fbid'] = screen' /\ (last_buf = fbid => fb'[last_buf] = fb[last_buf])
  <2>1. fb' = [fb EXCEPT ![fbid'] = [p \in Pixels |-> IF p \in PixelsOfAll(update)
                                                     THEN picture[p] ELSE fb[fbid'][p]]]
    BY DEF Get
  <2>2. [p \in Pixels |-> IF p \in PixelsOfAll(update) THEN picture[p] ELSE fb[fbid'][p]] = picture
    BY <1>1, PicturesAssumption
  <2>3. fb \in [0 .. FRAMEBUFFERS - 1 -> [Pixels -> Colors]] /\ fbid \in 0 .. FRAMEBUFFERS - 1
    BY DEF IInv, TypeInv, TypeOK
  <2>4. PICK n \in 0 .. FRAMEBUFFERS - 1 : n = fbid' /\ n # fbid
    BY <1>2
  <2>5. fb' = [fb EXCEPT ![n] = picture]
    BY <2>1, <2>2, <2>4
  <2>6. fb'[n] = picture /\ fb'[fbid] = fb[fbid]
    BY <2>3, <2>4, <2>5
  <2> QED BY <1>3, <2>4, <2>6
<1>5. last_buf # NULL => last_buf = fbid /\ sent = fb[last_buf]
  BY <1>3 DEF Shown
<1>6. last_buf' # fbid'
  BY <1>2, <1>3, <1>5 DEF FRAMEBUFFERS, NULL
<1> QED BY <1>1, <1>3, <1>4, <1>5, <1>6 DEF Shown

\* A pixel that is skipped was sent with the colour it still has.
LEMMA SkipShown ==
    ASSUME IInv, Shown, SkipPixel
    PROVE  Shown'
<1>1. /\ pc = "pixel" /\ last_buf # NULL /\ fb[last_buf][<<x, y>>] = fb[fbid][<<x, y>>]
      /\ visited' = visited \cup {<<x, y>>}
      /\ UNCHANGED <<screen, fb, fbid, pc, rects, last_buf, sent>>
  BY DEF SkipPixel, InRow, Redundant, screenVars
<1> QED BY <1>1 DEF Shown

LEMMA SendShown ==
    ASSUME IInv, Shown, SendPixel
    PROVE  Shown'
<1>1. /\ pc = "pixel" /\ sent' = [sent EXCEPT ![<<x, y>>] = fb[fbid][<<x, y>>]]
      /\ visited' = visited \cup {<<x, y>>}
      /\ UNCHANGED <<screen, fb, fbid, pc, rects, last_buf>>
  BY DEF SendPixel, InRow, screenVars
<1>2. <<x, y>> \in Pixels
  BY CallIsFull DEF SendPixel
<1>3. fb[fbid][<<x, y>>] \in Colors
  BY <1>2 DEF IInv, TypeInv, TypeOK
<1>4. /\ sent' \in [Pixels -> Colors \cup {NoColor}]
      /\ sent'[<<x, y>>] = fb[fbid][<<x, y>>]
      /\ \A p \in Pixels : p # <<x, y>> => sent'[p] = sent[p]
  BY <1>1, <1>2, <1>3 DEF Shown
<1> QED BY <1>1, <1>2, <1>4 DEF Shown

\* When the only call of an update is over all of it was looked at.
LEMMA ReturnShown ==
    ASSUME IInv, Shown, Return
    PROVE  Shown'
<1>1. /\ pc = "pixel" /\ rects = <<Full>> /\ visited = Pixels /\ fb[fbid] = screen
  BY CallIsFull DEF Return, Shown
<1>2. /\ pc' = "idle" /\ last_buf' = fbid /\ visited' = {}
      /\ UNCHANGED <<screen, fb, fbid, sent>>
  BY <1>1 DEF Return, CallOver, screenVars
<1>3. \A p \in Pixels : sent[p] = screen[p]
  BY <1>1 DEF Shown
<1>4. screen = [p \in Pixels |-> screen[p]] /\ sent = [p \in Pixels |-> sent[p]]
  BY PicturesAssumption DEF IInv, TypeInv, TypeOK, Shown
<1>5. sent = screen
  BY <1>3, <1>4
<1> QED BY <1>1, <1>2, <1>5 DEF Shown

LEMMA NextShown == IInv /\ Shown /\ WholeScreen /\ [Next]_vars => Shown'
<1> SUFFICES ASSUME IInv, Shown, WholeScreen, [Next]_vars PROVE Shown'
  OBVIOUS
<1>1. ASSUME NEW picture \in Pictures, NEW update \in Updates, Get(picture, update) PROVE Shown'
  BY <1>1, GetShown
<1>2. CASE EnterCall
  BY <1>2 DEF EnterCall, Shown, screenVars
<1>3. CASE NextRow \/ NextRound
  BY <1>3 DEF NextRow, NextRound, Shown, screenVars, history
<1>4. ASSUME NEW c \in DOMAIN wire, Paint(c) PROVE Shown'
  BY <1>4 DEF Paint, Shown, screenVars, loopVars, history
<1>5. CASE UNCHANGED vars
  BY <1>5 DEF vars, Shown, screenVars, loopVars, history
<1> QED BY <1>1, <1>2, <1>3, <1>4, <1>5, SkipShown, SendShown, ReturnShown DEF Next, SetBufStep

LEMMA InitShown == Init => Shown
BY DEF Init, Shown

LEMMA ShownInvariance ==
    ASSUME WholeScreen
    PROVE  Spec => []Shown
<1>1. Init => Shown
  BY InitShown
<1>2. IInv /\ Shown /\ [Next]_vars => Shown'
  BY NextShown
<1> QED BY <1>1, <1>2, Invariance, PTL DEF Spec

\* "Sends changed pixels to pixelflut": when every update is of the whole screen, as
\* one rectangle, the buffer of the previous call is what was sent, so that comparing
\* with it skips nothing that has changed.  (With two rectangles, or with part of the
\* screen, it does: runs two_rects and stale_buffer.)
THEOREM ScreenIsSent ==
    ASSUME WholeScreen
    PROVE  Spec => []ChangedPixelsSent
<1>1. Shown => ChangedPixelsSent
  BY DEF Shown, ChangedPixelsSent
<1> QED BY <1>1, ShownInvariance, PTL

-----------------------------------------------------------------------------
(* The connections, when every update is of the whole screen and the pool  *)
(* divides it.                                                             *)

\* how many pixels a call looks at before p
Rank(p) == Cardinality({q \in Pixels : Before(Full, Turn(Full, p), p[2], p[1], q)})

\* the connection a pixel is sent on
Lane(p) == Rank(p) % Conns

PoolDivides == (Width * Height) % Conns = 0

\* A message is on its pixel's connection.
Lanes ==
    /\ canvas \in [Pixels -> Colors \cup {NoColor}]
    /\ active_conn_i = Cardinality(visited) % Conns
    /\ \A c \in DOMAIN wire : \A i \in DOMAIN wire[c] : Lane(wire[c][i].pixel) = c

\* the last message of a queue about pixel p has colour k
LastOf(queue, p, k) ==
    \E i \in DOMAIN queue : /\ queue[i] = [pixel |-> p, color |-> k]
                            /\ \A j \in DOMAIN queue : j > i => queue[j].pixel # p

\* What a pixel was sent with last is the last to arrive, or has arrived.
Arriving == \A p \in Pixels :
    LET queue == wire[Lane(p)]
    IN  \/ LastOf(queue, p, sent[p])
        \/ canvas[p] = sent[p] /\ \A i \in DOMAIN queue : queue[i].pixel # p

LEMMA PixelsCounted ==
    /\ IsFiniteSet(Pixels) /\ Cardinality(Pixels) = Width * Height
    /\ \A S \in SUBSET Pixels : IsFiniteSet(S) /\ Cardinality(S) \in Nat
<1> DEFINE C == 0 .. Width - 1
           R == 0 .. Height - 1
<1>1. /\ IsFiniteSet(C) /\ Cardinality(C) = IF 0 > Width - 1 THEN 0 ELSE Width - 1 - 0 + 1
      /\ IsFiniteSet(R) /\ Cardinality(R) = IF 0 > Height - 1 THEN 0 ELSE Height - 1 - 0 + 1
  BY SizeAssumption, FS_Interval
<1>2. Cardinality(C) = Width /\ Cardinality(R) = Height
  BY <1>1, SizeAssumption
<1>3. IsFiniteSet(C \X R) /\ Cardinality(C \X R) = Cardinality(C) * Cardinality(R)
  BY <1>1, FS_Product
<1>4. Pixels = C \X R
  BY DEF Pixels
<1>5. IsFiniteSet(Pixels) /\ Cardinality(Pixels) = Width * Height
  BY <1>2, <1>3, <1>4
<1>6. ASSUME NEW S \in SUBSET Pixels PROVE IsFiniteSet(S) /\ Cardinality(S) \in Nat
  BY <1>5, FS_Subset, FS_CardinalityType
<1> QED BY <1>5, <1>6

LEMMA RankType == \A p \in Pixels : Rank(p) \in Nat /\ Lane(p) \in 0 .. Conns - 1
<1>1. ASSUME NEW p \in Pixels PROVE Rank(p) \in Nat
  BY PixelsCounted DEF Rank
<1>2. \A n \in Nat : n % Conns \in 0 .. Conns - 1
  BY PoolAssumption
<1> QED BY <1>1, <1>2 DEF Lane

\* The pixel the loops are at comes after those they have visited.
LEMMA LookAt ==
    ASSUME IInv, Shown, InRow
    PROVE  /\ Rank(<<x, y>>) = Cardinality(visited)
           /\ Cardinality(visited \cup {<<x, y>>}) = Cardinality(visited) + 1
<1>1. /\ rect = Full /\ <<x, y>> \in Pixels \ visited /\ visited \subseteq Pixels
      /\ x \in Nat /\ y \in Nat
  BY CallIsFull DEF InRow, IInv, TypeInv, TypeOK
<1>2. Turn(Full, <<x, y>>) = round
  BY <1>1, FullIsScreen, TurnAt DEF IInv, ROUNDS
<1>3. visited = {q \in Pixels : Before(Full, round, y, x, q)}
  BY <1>1, FullIsScreen DEF IInv, Traversal, InRow
<1>4. Rank(<<x, y>>) = Cardinality(visited)
  BY <1>2, <1>3 DEF Rank
<1>5. IsFiniteSet(visited)
  BY <1>1, PixelsCounted
<1> QED BY <1>1, <1>4, <1>5, FS_AddElement

\* The turn in the pool goes round with the pixels looked at.
LEMMA NextLane ==
    ASSUME IInv, Shown, Lanes, InRow
    PROVE  /\ active_conn_i = Lane(<<x, y>>)
           /\ (active_conn_i + 1) % Conns = Cardinality(visited \cup {<<x, y>>}) % Conns
<1>1. Cardinality(visited) \in Nat
  BY PixelsCounted DEF IInv, TypeInv, TypeOK
<1>2. (active_conn_i + 1) % Conns = (Cardinality(visited) + 1) % Conns
  <2> DEFINE n == Cardinality(visited)
  <2>1. n \in Int /\ active_conn_i = n % Conns /\ Conns \in Nat \ {0}
    BY <1>1, PoolAssumption DEF Lanes
  <2> HIDE DEF n
  <2>2. (n + 1) % Conns = ((n % Conns) + 1) % Conns
    BY <2>1, ModSucc
  <2> QED BY <2>1, <2>2 DEF n
<1> QED BY <1>2, LookAt DEF Lane, Lanes

LEMMA LastAppended ==
    ASSUME NEW queue \in Seq(Message), NEW m \in Message
    PROVE  /\ LastOf(Append(queue, m), m.pixel, m.color)
           /\ \A p, k : p # m.pixel /\ LastOf(queue, p, k) => LastOf(Append(queue, m), p, k)
           /\ \A p : p # m.pixel /\ (\A i \in DOMAIN queue : queue[i].pixel # p)
                        => \A i \in DOMAIN Append(queue, m) : Append(queue, m)[i].pixel # p
<1>1. /\ Len(queue) \in Nat /\ DOMAIN queue = 1 .. Len(queue)
      /\ DOMAIN Append(queue, m) = 1 .. Len(queue) + 1
      /\ Append(queue, m)[Len(queue) + 1] = m
      /\ \A i \in 1 .. Len(queue) : Append(queue, m)[i] = queue[i]
  OBVIOUS
<1>2. m = [pixel |-> m.pixel, color |-> m.color]
  BY DEF Message
<1>3. LastOf(Append(queue, m), m.pixel, m.color)
  BY <1>1, <1>2 DEF LastOf
<1>4. ASSUME NEW p, NEW k, p # m.pixel, LastOf(queue, p, k)
      PROVE  LastOf(Append(queue, m), p, k)
  <2>1. PICK i \in DOMAIN queue : /\ queue[i] = [pixel |-> p, color |-> k]
                                  /\ \A j \in DOMAIN queue : j > i => queue[j].pixel # p
    BY <1>4 DEF LastOf
  <2>2. i \in DOMAIN Append(queue, m) /\ Append(queue, m)[i] = [pixel |-> p, color |-> k]
    BY <1>1, <2>1
  <2>3. ASSUME NEW j \in DOMAIN Append(queue, m), j > i PROVE Append(queue, m)[j].pixel # p
    BY <1>1, <1>4, <2>1, <2>3
  <2> QED BY <2>2, <2>3 DEF LastOf
<1>5. ASSUME NEW p, p # m.pixel, \A i \in DOMAIN queue : queue[i].pixel # p
      PROVE  \A i \in DOMAIN Append(queue, m) : Append(queue, m)[i].pixel # p
  BY <1>1, <1>5
<1> QED BY <1>3, <1>4, <1>5

LEMMA LastTaken ==
    ASSUME NEW queue \in Seq(Message), queue # <<>>, NEW p, NEW k
    PROVE  /\ LastOf(queue, p, k) =>
                \/ LastOf(Tail(queue), p, k)
                \/ /\ Head(queue).pixel = p /\ Head(queue).color = k
                   /\ \A i \in DOMAIN Tail(queue) : Tail(queue)[i].pixel # p
           /\ (\A i \in DOMAIN queue : queue[i].pixel # p) =>
                /\ Head(queue).pixel # p
                /\ \A i \in DOMAIN Tail(queue) : Tail(queue)[i].pixel # p
<1>1. /\ Len(queue) \in Nat \ {0} /\ DOMAIN queue = 1 .. Len(queue)
      /\ DOMAIN Tail(queue) = 1 .. Len(queue) - 1 /\ Head(queue) = queue[1]
      /\ \A i \in 1 .. Len(queue) - 1 : Tail(queue)[i] = queue[i + 1]
  OBVIOUS
<1>2. ASSUME LastOf(queue, p, k)
      PROVE  \/ LastOf(Tail(queue), p, k)
             \/ /\ Head(queue).pixel = p /\ Head(queue).color = k
                /\ \A i \in DOMAIN Tail(queue) : Tail(queue)[i].pixel # p
  <2>1. PICK i \in 1 .. Len(queue) : /\ queue[i] = [pixel |-> p, color |-> k]
                                     /\ \A j \in 1 .. Len(queue) : j > i => queue[j].pixel # p
    BY <1>1, <1>2 DEF LastOf
  <2>2. ASSUME NEW j \in 1 .. Len(queue) - 1, j + 1 > i PROVE Tail(queue)[j].pixel # p
    BY <1>1, <2>1, <2>2
  <2>3. CASE i = 1
    BY <1>1, <2>1, <2>2, <2>3
  <2>4. CASE i > 1
    <3>1. i - 1 \in 1 .. Len(queue) - 1 /\ Tail(queue)[i - 1] = [pixel |-> p, color |-> k]
      BY <1>1, <2>1, <2>4
    <3>2. \A j \in 1 .. Len(queue) - 1 : j > i - 1 => Tail(queue)[j].pixel # p
      BY <1>1, <2>2
    <3> QED BY <1>1, <3>1, <3>2 DEF LastOf
  <2> QED BY <2>1, <2>3, <2>4
<1>3. ASSUME \A i \in DOMAIN queue : queue[i].pixel # p
      PROVE  /\ Head(queue).pixel # p
             /\ \A i \in DOMAIN Tail(queue) : Tail(queue)[i].pixel # p
  BY <1>1, <1>3
<1> QED BY <1>2, <1>3

\* A step that moves no message and looks at no pixel.
LEMMA LanesSame ==
    Lanes /\ Arriving /\ UNCHANGED <<poolVars, canvas, sent, visited>> => Lanes' /\ Arriving'
BY DEF Lanes, Arriving, poolVars

LEMMA SkipLanes ==
    ASSUME IInv, Shown, Lanes, Arriving, SkipPixel
    PROVE  Lanes' /\ Arriving'
<1>1. /\ InRow /\ visited' = visited \cup {<<x, y>>} /\ active_conn_i' = (active_conn_i + 1) % Conns
      /\ UNCHANGED <<wire, canvas, sent>>
  BY DEF SkipPixel, NextConn
<1>2. active_conn_i' = Cardinality(visited') % Conns
  BY <1>1, NextLane
<1> QED BY <1>1, <1>2 DEF Lanes, Arriving

LEMMA SendLanes ==
    ASSUME IInv, Shown, Lanes, Arriving, SendPixel
    PROVE  Lanes' /\ Arriving'
<1> DEFINE here == <<x, y>>
           m == [pixel |-> here, color |-> fb[fbid][here]]
           c == active_conn_i
<1>1. /\ InRow /\ visited' = visited \cup {here} /\ active_conn_i' = (active_conn_i + 1) % Conns
      /\ wire' = [wire EXCEPT ![c] = Append(@, m)] /\ sent' = [sent EXCEPT ![here] = fb[fbid][here]]
      /\ canvas' = canvas
  BY DEF SendPixel, NextConn
<1>2. here \in Pixels /\ fb[fbid][here] \in Colors
  BY <1>1, CallIsFull DEF IInv, TypeInv, TypeOK
<1>3. m \in Message /\ m.pixel = here /\ m.color = fb[fbid][here]
  BY <1>2 DEF Message
<1>4. active_conn_i' = Cardinality(visited') % Conns
  BY <1>1, NextLane
<1>5. Lane(here) = c
  BY <1>1, NextLane
<1>6. /\ wire \in [0 .. Conns - 1 -> Seq(Message)] /\ c \in 0 .. Conns - 1
      /\ sent \in [Pixels -> Colors \cup {NoColor}]
  BY DEF IInv, TypeInv, TypeOK, Shown
<1> HIDE DEF m, c, here
<1>7. /\ DOMAIN wire' = 0 .. Conns - 1 /\ wire'[c] = Append(wire[c], m)
      /\ \A d \in 0 .. Conns - 1 : d # c => wire'[d] = wire[d]
      /\ sent'[here] = m.color /\ \A p \in Pixels : p # here => sent'[p] = sent[p]
  BY <1>1, <1>2, <1>3, <1>6
<1>8. Lanes'
  <2>1. ASSUME NEW d \in 0 .. Conns - 1, NEW i \in DOMAIN wire'[d]
        PROVE  Lane(wire'[d][i].pixel) = d
    <3>1. CASE d # c
      BY <1>6, <1>7, <2>1, <3>1 DEF Lanes
    <3>2. CASE d = c
      <4>1. wire'[d][i] = m \/ (i \in DOMAIN wire[d] /\ wire'[d][i] = wire[d][i])
        BY <1>3, <1>6, <1>7, <3>2
      <4> QED BY <1>3, <1>5, <1>6, <3>2, <4>1 DEF Lanes
    <3> QED BY <3>1, <3>2
  <2> QED BY <1>1, <1>4, <1>7, <2>1 DEF Lanes
<1>9. ASSUME NEW p \in Pixels
      PROVE  \/ LastOf(wire'[Lane(p)], p, sent'[p])
             \/ /\ canvas[p] = sent'[p]
                /\ \A i \in DOMAIN wire'[Lane(p)] : wire'[Lane(p)][i].pixel # p
  <2>1. Lane(p) \in 0 .. Conns - 1
    BY RankType
  <2>2. CASE p = here
    <3>1. LastOf(Append(wire[c], m), m.pixel, m.color)
      BY <1>3, <1>6, LastAppended
    <3> QED BY <1>3, <1>5, <1>7, <2>2, <3>1
  <2>3. CASE p # here /\ Lane(p) = c
    <3>1. wire[c] \in Seq(Message)
      BY <1>6
    <3>2. sent'[p] = sent[p] /\ wire'[Lane(p)] = Append(wire[c], m) /\ p # m.pixel
      BY <1>3, <1>7, <2>3
    <3>3. CASE LastOf(wire[c], p, sent[p])
      <4>1. LastOf(Append(wire[c], m), p, sent[p])
        BY <1>3, <3>1, <3>2, <3>3, LastAppended
      <4> QED BY <3>2, <4>1
    <3>4. CASE canvas[p] = sent[p] /\ \A i \in DOMAIN wire[c] : wire[c][i].pixel # p
      <4>1. \A i \in DOMAIN Append(wire[c], m) : Append(wire[c], m)[i].pixel # p
        BY <1>3, <3>1, <3>2, <3>4, LastAppended
      <4> QED BY <3>2, <3>4, <4>1
    <3> QED BY <2>3, <3>3, <3>4 DEF Arriving
  <2>4. CASE p # here /\ Lane(p) # c
    BY <1>7, <2>1, <2>4 DEF Arriving
  <2> QED BY <2>2, <2>3, <2>4
<1>10. Arriving'
  BY <1>1, <1>9 DEF Arriving, Lane, Rank
<1> QED BY <1>8, <1>10

\* The server paints what was sent first.
LEMMA PaintLanes ==
    ASSUME IInv, Lanes, Arriving, NEW c \in DOMAIN wire, Paint(c)
    PROVE  Lanes' /\ Arriving'
<1> DEFINE m == Head(wire[c])
<1>1. /\ wire[c] # <<>> /\ wire' = [wire EXCEPT ![c] = Tail(@)]
      /\ canvas' = [canvas EXCEPT ![m.pixel] = m.color]
      /\ UNCHANGED <<active_conn_i, sent, visited>>
  BY DEF Paint, history
<1>2. /\ wire \in [0 .. Conns - 1 -> Seq(Message)] /\ c \in 0 .. Conns - 1
      /\ canvas \in [Pixels -> Colors \cup {NoColor}]
  BY DEF IInv, TypeInv, Lanes
<1>3. m \in Message /\ m = wire[c][1] /\ 1 \in DOMAIN wire[c]
  BY <1>1, <1>2
<1>4. m.pixel \in Pixels /\ m.color \in Colors /\ Lane(m.pixel) = c
  BY <1>3 DEF Message, Lanes
<1> HIDE DEF m
<1>5. /\ DOMAIN wire' = 0 .. Conns - 1 /\ wire'[c] = Tail(wire[c])
      /\ \A d \in 0 .. Conns - 1 : d # c => wire'[d] = wire[d]
      /\ canvas' \in [Pixels -> Colors \cup {NoColor}]
      /\ canvas'[m.pixel] = m.color /\ \A p \in Pixels : p # m.pixel => canvas'[p] = canvas[p]
  BY <1>1, <1>2, <1>4
<1>6. Lanes'
  <2>1. ASSUME NEW d \in 0 .. Conns - 1, NEW i \in DOMAIN wire'[d]
        PROVE  Lane(wire'[d][i].pixel) = d
    <3>1. CASE d # c
      BY <1>2, <1>5, <2>1, <3>1 DEF Lanes
    <3>2. CASE d = c
      <4>1. i + 1 \in DOMAIN wire[d] /\ wire'[d][i] = wire[d][i + 1]
        BY <1>1, <1>2, <1>5, <3>2
      <4> QED BY <1>2, <4>1 DEF Lanes
    <3> QED BY <3>1, <3>2
  <2> QED BY <1>1, <1>5, <2>1 DEF Lanes
<1>7. ASSUME NEW p \in Pixels
      PROVE  \/ LastOf(wire'[Lane(p)], p, sent[p])
             \/ /\ canvas'[p] = sent[p]
                /\ \A i \in DOMAIN wire'[Lane(p)] : wire'[Lane(p)][i].pixel # p
  <2>1. Lane(p) \in 0 .. Conns - 1
    BY RankType
  <2>2. CASE Lane(p) # c
    BY <1>4, <1>5, <2>1, <2>2 DEF Arriving
  <2>3. CASE Lane(p) = c
    <3>1. wire[c] \in Seq(Message) /\ Head(wire[c]) = m
      BY <1>2 DEF m
    <3>2. CASE LastOf(wire[c], p, sent[p])
      BY <1>1, <1>5, <2>3, <3>1, <3>2, LastTaken
    <3>3. CASE canvas[p] = sent[p] /\ \A i \in DOMAIN wire[c] : wire[c][i].pixel # p
      BY <1>1, <1>5, <2>3, <3>1, <3>3, LastTaken
    <3> QED BY <2>3, <3>2, <3>3 DEF Arriving
  <2> QED BY <2>2, <2>3
<1>8. Arriving'
  BY <1>1, <1>7 DEF Arriving, Lane, Rank
<1> QED BY <1>6, <1>8

\* A call over the whole screen comes back to the connection it began with.
LEMMA ReturnLanes ==
    ASSUME IInv, Shown, Lanes, Arriving, PoolDivides, Return
    PROVE  Lanes' /\ Arriving'
<1>1. visited = Pixels /\ visited' = {} /\ UNCHANGED <<poolVars, canvas, sent>>
  BY CallIsFull DEF Return, CallOver
<1>2. Cardinality(visited) % Conns = 0
  BY <1>1, PixelsCounted DEF PoolDivides
<1>3. Cardinality({}) % Conns = 0
  BY FS_EmptySet, PoolAssumption
<1>4. active_conn_i' = Cardinality(visited') % Conns
  BY <1>1, <1>2, <1>3 DEF Lanes, poolVars
<1> QED BY <1>1, <1>4 DEF Lanes, Arriving, poolVars

LEMMA NextLanes ==
    IInv /\ Shown /\ Lanes /\ Arriving /\ PoolDivides /\ [Next]_vars => Lanes' /\ Arriving'
<1> SUFFICES ASSUME IInv, Shown, Lanes, Arriving, PoolDivides, [Next]_vars
             PROVE  Lanes' /\ Arriving'
  OBVIOUS
<1>1. ASSUME NEW picture \in Pictures, NEW update \in Updates, Get(picture, update)
      PROVE  Lanes' /\ Arriving'
  BY <1>1, LanesSame DEF Get, history
<1>2. CASE EnterCall
  BY <1>2, LanesSame DEF EnterCall, Shown
<1>3. CASE NextRow \/ NextRound
  BY <1>3, LanesSame DEF NextRow, NextRound, history
<1>4. CASE UNCHANGED vars
  BY <1>4, LanesSame DEF vars, history
<1> QED BY <1>1, <1>2, <1>3, <1>4, SkipLanes, SendLanes, PaintLanes, ReturnLanes
        DEF Next, SetBufStep

LEMMA InitLanes == Init => Lanes /\ Arriving
<1> SUFFICES ASSUME Init PROVE Lanes /\ Arriving
  OBVIOUS
<1>1. /\ visited = {} /\ active_conn_i = 0 /\ canvas = sent
      /\ canvas = [p \in Pixels |-> NoColor] /\ wire = [c \in 0 .. Conns - 1 |-> <<>>]
  BY DEF Init
<1>2. active_conn_i = Cardinality(visited) % Conns
  BY <1>1, FS_EmptySet, PoolAssumption
<1>3. \A p \in Pixels : wire[Lane(p)] = <<>>
  BY <1>1, RankType
<1>4. Lanes
  BY <1>1, <1>2 DEF Lanes
<1>5. \A p \in Pixels : DOMAIN wire[Lane(p)] = {}
  BY <1>3
<1>6. Arriving
  BY <1>1, <1>5 DEF Arriving
<1> QED BY <1>4, <1>6

\* Once everything has arrived the wall shows what was sent last, however the
\* connections are delayed: a pixel keeps its connection, if the pool divides the
\* pixels of an update and every update is of the whole screen.
THEOREM LanesKeepOrder ==
    ASSUME WholeScreen, PoolDivides
    PROVE  Spec => []WallSettles
<1>1. Init => Lanes /\ Arriving
  BY InitLanes
<1>2. IInv /\ Shown /\ Lanes /\ Arriving /\ [Next]_vars => (Lanes /\ Arriving)'
  BY NextLanes
<1>3. IInv /\ Shown /\ Lanes /\ Arriving => WallSettles
  <2> SUFFICES ASSUME IInv, Shown, Lanes, Arriving, \A c \in DOMAIN wire : wire[c] = <<>>
               PROVE  canvas = sent
    BY DEF WallSettles
  <2>1. ASSUME NEW p \in Pixels PROVE canvas[p] = sent[p]
    <3>1. wire[Lane(p)] = <<>>
      BY RankType DEF IInv, TypeInv
    <3>2. ~ LastOf(<<>>, p, sent[p])
      BY DEF LastOf
    <3> QED BY <3>1, <3>2 DEF Arriving
  <2> QED BY <2>1 DEF Lanes, Shown
<1> QED BY <1>1, <1>2, <1>3, Invariance, ShownInvariance, PTL DEF Spec

-----------------------------------------------------------------------------
(* The reblits, when every update is of the whole screen and the reblit    *)
(* counter, which counts pixels, does not keep step with it.               *)

\* m undoes a turn of the screen: the screen's size and the frequency are coprime,
\* as they are unless 23 divides the size.
Undoes(m) == (m * (Width * Height)) % REBLIT_FREQUENCY = 1

\* what the reblit counter was when p was last looked at, for a screen's turn
LastCount(p) ==
    skip_reblit - Cardinality(visited) + Rank(p) + 1 - (IF p \in visited THEN 0 ELSE Width * Height)

\* how many looks ago at p that counter would have been 0
Since(m, p) == (m * LastCount(p)) % REBLIT_FREQUENCY

\* p is never repainted because of its colour
Exempt(color) == BgColor \in {PF_NO_BGCOLOR, color}

Ages(m) ==
    /\ age \in [Pixels -> Nat]
    /\ \A p \in Pixels : age[p] <= Since(m, p)
    /\ \A p \in Pixels : Exempt(sent[p]) => age[p] = 0

LEMMA SinceType ==
    ASSUME IInv, NEW m \in Int, NEW p \in Pixels
    PROVE  LastCount(p) \in Int /\ Since(m, p) \in 0 .. REBLIT_FREQUENCY - 1
<1>1. skip_reblit \in Int /\ visited \in SUBSET Pixels /\ Width * Height \in Int
  BY PoolAssumption, SizeAssumption DEF IInv, TypeInv, TypeOK
<1>2. Cardinality(visited) \in Int /\ Rank(p) \in Int
  BY <1>1, PixelsCounted, RankType
<1>3. LastCount(p) \in Int
  BY <1>1, <1>2 DEF LastCount
<1>4. \A k \in Int : k % REBLIT_FREQUENCY \in 0 .. REBLIT_FREQUENCY - 1
  BY PoolAssumption
<1>5. m * LastCount(p) \in Int
  BY <1>3
<1> QED BY <1>3, <1>4, <1>5 DEF Since

\* Where one turn adds n to a counter modulo R and m undoes it, m times the counter
\* goes up by one, and comes to 0 only when the counter does.
LEMMA OneMore ==
    ASSUME NEW R \in Nat \ {0}, NEW n \in Int, NEW m \in Int, (m * n) % R = 1,
           NEW s \in Int, s % R # 0
    PROVE  (m * (s % R)) % R = ((m * (s - n)) % R) + 1
<1>1. PICK q \in Int : m * n = R * q + 1
  <2>1. m * n \in Int
    OBVIOUS
  <2> QED BY <2>1, DivMod
<1> DEFINE a == m * s
           t == a % R
           u == (m * (s - n)) % R
<1>2. a \in Int /\ a = m * s
  OBVIOUS
<1>5. (m * (s % R)) % R = t
  BY ModReduce
<1>6. m * (s - n) = (a - 1) + R * (-q)
  BY <1>1, <1>2
<1> HIDE DEF a
<1>7. a - 1 \in Int /\ -q \in Int
  BY <1>2
<1>8. u = (a - 1) % R
  BY <1>6, <1>7, ModShift
<1>9. t # 0
  <2>1. SUFFICES ASSUME t = 0 PROVE FALSE
    OBVIOUS
  <2>2. PICK k \in Int : a = R * k + t
    BY <1>2, DivMod
  <2>3. (m * n) * s = n * (R * k)
    BY <1>2, <2>1, <2>2
  <2>4. (m * n) * s = (R * q + 1) * s
    BY <1>1
  <2>5. s + R * (q * s - n * k) = 0
    BY <2>3, <2>4
  <2>6. q * s - n * k \in Int
    OBVIOUS
  <2>7. (s + R * (q * s - n * k)) % R = s % R
    BY <2>6, ModShift
  <2>8. 0 % R = 0
    OBVIOUS
  <2> QED BY <2>5, <2>7, <2>8
<1>10. t = u + 1
  <2>1. PICK k \in Int : a = R * k + t
    BY <1>2, DivMod
  <2>2. t \in 1 .. R - 1
    BY <1>2, <1>9, DivMod
  <2> HIDE DEF t
  <2>3. a - 1 = (t - 1) + R * k /\ t - 1 \in Int
    BY <2>1, <2>2
  <2>4. (a - 1) % R = (t - 1) % R
    BY <2>3, ModShift
  <2>5. (t - 1) % R = t - 1
    BY <2>2
  <2> QED BY <1>8, <2>2, <2>4, <2>5
<1> QED BY <1>5, <1>10

\* What a look at a pixel does to the count: it is the last of this pixel, and for all
\* others as long ago as before.
LEMMA LookCounts ==
    ASSUME IInv, Shown, InRow, NEW m \in Int, Undoes(m),
           NEW here \in Pixels, here = <<x, y>>, visited' = visited \cup {here},
           skip_reblit' = (skip_reblit + 1) % REBLIT_FREQUENCY
    PROVE  /\ \A p \in Pixels : p # here => Since(m, p)' = Since(m, p)
           /\ skip_reblit' # 0 => Since(m, here)' = Since(m, here) + 1
           /\ Since(m, here)' \in Nat
<1> DEFINE R == REBLIT_FREQUENCY
           N == Width * Height
           s == skip_reblit + 1
           n == Cardinality(visited)
<1>1. /\ here \notin visited /\ visited \in SUBSET Pixels
      /\ Rank(here) = n /\ Cardinality(visited') = n + 1
  BY CallIsFull, LookAt DEF IInv, TypeInv, TypeOK
<1>2. /\ R \in Nat \ {0} /\ N \in Int /\ s \in Int /\ n \in Int /\ skip_reblit = s - 1
      /\ (m * N) % R = 1 /\ skip_reblit' = s % R /\ s % R \in 0 .. R - 1
  <2>1. R \in Nat \ {0} /\ N \in Int /\ skip_reblit \in Int
    BY PoolAssumption, SizeAssumption DEF IInv, TypeInv, TypeOK
  <2>2. n \in Int
    BY <1>1, PixelsCounted
  <2>3. s \in Int /\ skip_reblit = s - 1
    BY <2>1
  <2> QED BY <2>1, <2>2, <2>3, DivMod DEF Undoes
<1>3. \A p \in Pixels : Rank(p) \in Int /\ Rank(p)' = Rank(p)
  BY RankType DEF Rank
<1>4. \A p \in Pixels :
        /\ Since(m, p) = (m * LastCount(p)) % R
        /\ Since(m, p)' = (m * LastCount(p)') % R
  BY DEF Since
<1>5. \A p \in Pixels :
        /\ LastCount(p) = skip_reblit - n + Rank(p) + 1 - (IF p \in visited THEN 0 ELSE N)
        /\ LastCount(p)' = skip_reblit' - Cardinality(visited') + Rank(p)' + 1
                              - (IF p \in visited' THEN 0 ELSE N)
  BY DEF LastCount
<1> HIDE DEF R, N, s, n
<1>6. ASSUME NEW p \in Pixels, p # here
      PROVE  Since(m, p)' = Since(m, p)
  <2> DEFINE b == Rank(p) - n - (IF p \in visited THEN 0 ELSE N)
  <2>1. b \in Int
    BY <1>2, <1>3
  <2>2. p \in visited' <=> p \in visited
    BY <1>6
  <2>3. LastCount(p) = s + b
    BY <1>2, <1>3, <1>5
  <2>4. LastCount(p)' = (s % R) + b
    <3> DEFINE z == IF p \in visited THEN 0 ELSE N
    <3>1. z \in Int /\ z = IF p \in visited' THEN 0 ELSE N
      BY <1>2, <2>2
    <3>2. LastCount(p)' = (s % R) - (n + 1) + Rank(p) + 1 - z
      BY <1>1, <1>2, <1>3, <1>5, <3>1
    <3> HIDE DEF z
    <3>3. (s % R) - (n + 1) + Rank(p) + 1 - z = (s % R) + (Rank(p) - n - z)
      BY <1>2, <1>3, <3>1
    <3> QED BY <3>2, <3>3 DEF z
  <2> HIDE DEF b
  <2>5. m * LastCount(p) = m * s + m * b /\ m * LastCount(p)' = m * (s % R) + m * b
    BY <1>2, <2>1, <2>3, <2>4
  <2>6. (m * (s % R) + m * b) % R = (m * s + m * b) % R
    <3>1. m * b \in Int
      BY <2>1
    <3> QED BY <1>2, <3>1, ModReduce
  <2> QED BY <1>4, <2>5, <2>6
<1>7. LastCount(here)' = s % R /\ LastCount(here) = s - N
  <2>1. here \in visited' /\ here \notin visited
    BY <1>1
  <2>2. LastCount(here)' = (s % R) - (n + 1) + n + 1 - 0
    BY <1>1, <1>2, <1>3, <1>5, <2>1
  <2>3. LastCount(here) = (s - 1) - n + n + 1 - N
    BY <1>1, <1>2, <1>5, <2>1
  <2> QED BY <1>2, <2>2, <2>3
<1>8. Since(m, here)' = (m * (s % R)) % R /\ Since(m, here) = (m * (s - N)) % R
  BY <1>4, <1>7
<1>9. skip_reblit' # 0 => Since(m, here)' = Since(m, here) + 1
  <2>1. ASSUME s % R # 0 PROVE (m * (s % R)) % R = ((m * (s - N)) % R) + 1
    BY <1>2, <2>1, OneMore
  <2> QED BY <1>2, <1>8, <2>1
<1>10. Since(m, here)' \in Nat
  <2>1. m * (s % R) \in Int
    BY <1>2
  <2>2. (m * (s % R)) % R \in 0 .. R - 1
    BY <1>2, <2>1, DivMod
  <2> QED BY <1>2, <1>8, <2>2
<1> QED BY <1>6, <1>9, <1>10

\* A step that looks at no pixel.
LEMMA AgesSame ==
    ASSUME NEW m, Ages(m), UNCHANGED <<skip_reblit, visited, sent, age>>
    PROVE  Ages(m)'
<1>1. \A p \in Pixels : Since(m, p)' = Since(m, p)
  BY DEF Since, LastCount, Rank
<1>2. \A p \in Pixels : Exempt(sent[p])' = Exempt(sent[p])
  BY DEF Exempt
<1> QED BY <1>1, <1>2 DEF Ages

\* A pixel of another colour is skipped only while the counter is not 0.
LEMMA SkipAges ==
    ASSUME IInv, Shown, NEW m \in Int, Undoes(m), Ages(m), SkipPixel
    PROVE  Ages(m)'
<1>0. PICK here \in Pixels : here = <<x, y>>
  BY CallIsFull DEF SkipPixel
<1> DEFINE color == fb[fbid][here]
<1>1. /\ InRow /\ visited' = visited \cup {here}
      /\ skip_reblit' = (skip_reblit + 1) % REBLIT_FREQUENCY
      /\ sent' = sent
  BY <1>0 DEF SkipPixel
<1>2. here \in Pixels /\ here \notin visited
  BY <1>0, <1>1, CallIsFull
<1>3. /\ \A p \in Pixels : p # here => Since(m, p)' = Since(m, p)
      /\ skip_reblit' # 0 => Since(m, here)' = Since(m, here) + 1
      /\ Since(m, here)' \in Nat
  BY <1>0, <1>1, LookCounts
<1>4. sent[here] = color
  BY <1>0, <1>1, <1>2 DEF SkipPixel, Redundant, Shown, InRow
<1>5. age \in [Pixels -> Nat] /\ Since(m, here) \in Nat
  BY <1>2, SinceType, PoolAssumption DEF Ages
<1> HIDE DEF color
<1>6. CASE Exempt(color)
  <2>1. age' = age
    BY <1>0, <1>6 DEF SkipPixel, Exempt, color
  <2>2. age[here] = 0
    BY <1>2, <1>4, <1>6 DEF Ages
  <2> QED BY <1>1, <1>2, <1>3, <1>5, <2>1, <2>2 DEF Ages, Exempt
<1>7. CASE ~ Exempt(color)
  <2>1. age' = [age EXCEPT ![here] = IF @ < REBLIT_FREQUENCY THEN @ + 1 ELSE @]
    BY <1>0, <1>7 DEF SkipPixel, Exempt, color
  <2>2. skip_reblit' # 0
    BY <1>0, <1>1, <1>7 DEF SkipPixel, Redundant, Exempt, color
  <2>3. /\ age' \in [Pixels -> Nat] /\ age'[here] <= age[here] + 1
        /\ \A p \in Pixels : p # here => age'[p] = age[p]
    BY <1>2, <1>5, <2>1
  <2>4. age'[here] <= Since(m, here)'
    <3>1. age[here] \in Nat /\ age'[here] \in Nat /\ age[here] <= Since(m, here)
      BY <1>2, <1>5, <2>3 DEF Ages
    <3> QED BY <1>3, <1>5, <2>2, <2>3, <3>1
  <2> QED BY <1>1, <1>2, <1>3, <1>4, <1>7, <2>3, <2>4 DEF Ages, Exempt
<1> QED BY <1>6, <1>7

LEMMA SendAges ==
    ASSUME IInv, Shown, NEW m \in Int, Undoes(m), Ages(m), SendPixel
    PROVE  Ages(m)'
<1>0. PICK here \in Pixels : here = <<x, y>>
  BY CallIsFull DEF SendPixel
<1>1. /\ InRow /\ visited' = visited \cup {here}
      /\ skip_reblit' = (skip_reblit + 1) % REBLIT_FREQUENCY
      /\ sent' = [sent EXCEPT ![here] = fb[fbid][here]] /\ age' = [age EXCEPT ![here] = 0]
  BY <1>0 DEF SendPixel
<1>2. here \in Pixels
  OBVIOUS
<1>3. /\ \A p \in Pixels : p # here => Since(m, p)' = Since(m, p)
      /\ Since(m, here)' \in Nat
  BY <1>0, <1>1, LookCounts
<1>4. /\ age' \in [Pixels -> Nat] /\ age'[here] = 0
      /\ \A p \in Pixels : p # here => age'[p] = age[p] /\ sent'[p] = sent[p]
  BY <1>1, <1>2 DEF Ages, Shown
<1>5. \A p \in Pixels : age'[p] <= Since(m, p)'
  BY <1>3, <1>4 DEF Ages
<1>6. \A p \in Pixels : Exempt(sent'[p]) => age'[p] = 0
  BY <1>4 DEF Ages
<1> QED BY <1>4, <1>5, <1>6 DEF Ages, Exempt

\* The next call goes on with the counter where this one, a turn of the screen, has
\* left it.
LEMMA ReturnAges ==
    ASSUME IInv, Shown, NEW m \in Int, Ages(m), Return
    PROVE  Ages(m)'
<1>1. visited = Pixels /\ visited' = {} /\ UNCHANGED <<skip_reblit, sent, age>>
  BY CallIsFull DEF Return, CallOver
<1>2. /\ Cardinality(visited) = Width * Height /\ Cardinality({}) = 0
      /\ Width * Height \in Int /\ skip_reblit \in Int
  BY <1>1, PixelsCounted, FS_EmptySet, SizeAssumption, PoolAssumption DEF IInv, TypeInv, TypeOK
<1>3. \A p \in Pixels : Rank(p) \in Int /\ Rank(p)' = Rank(p)
  BY RankType DEF Rank
<1>4. \A p \in Pixels : LastCount(p)' = LastCount(p)
  BY <1>1, <1>2, <1>3 DEF LastCount
<1>5. \A p \in Pixels : Since(m, p)' = Since(m, p)
  BY <1>4 DEF Since
<1> QED BY <1>1, <1>5 DEF Ages, Exempt

LEMMA NextAges ==
    ASSUME NEW m \in Int, Undoes(m)
    PROVE  IInv /\ Shown /\ Ages(m) /\ [Next]_vars => Ages(m)'
<1> SUFFICES ASSUME IInv, Shown, Ages(m), [Next]_vars PROVE Ages(m)'
  OBVIOUS
<1>1. ASSUME NEW picture \in Pictures, NEW update \in Updates, Get(picture, update)
      PROVE  Ages(m)'
  BY <1>1, AgesSame DEF Get, history
<1>2. CASE EnterCall
  BY <1>2, AgesSame DEF EnterCall, Shown
<1>3. CASE NextRow \/ NextRound
  BY <1>3, AgesSame DEF NextRow, NextRound, history
<1>4. ASSUME NEW c \in DOMAIN wire, Paint(c) PROVE Ages(m)'
  BY <1>4, AgesSame DEF Paint, history
<1>5. CASE UNCHANGED vars
  BY <1>5, AgesSame DEF vars, history
<1> QED BY <1>1, <1>2, <1>3, <1>4, <1>5, SkipAges, SendAges, ReturnAges DEF Next, SetBufStep

LEMMA InitAges ==
    ASSUME NEW m \in Int, Init
    PROVE  Ages(m)
<1>1. age = [p \in Pixels |-> 0]
  BY DEF Init
<1>2. \A p \in Pixels : Since(m, p) \in Nat
  BY InitType, SinceType, PoolAssumption DEF IInv, Init, Traversal
<1> QED BY <1>1, <1>2 DEF Ages

\* With -b a pixel of another colour is repainted at least every REBLIT_FREQUENCY
\* looks at it, as skip_reblit counts on from call to call, when every update is of
\* the whole screen and the number of its pixels is coprime to the frequency.
THEOREM RepaintedEachCycle ==
    ASSUME WholeScreen, NEW m \in Int, Undoes(m)
    PROVE  Spec => []RepaintedInTime
<1>1. Init => Ages(m)
  BY InitAges
<1>2. IInv /\ Shown /\ Ages(m) /\ [Next]_vars => Ages(m)'
  BY NextAges
<1>3. IInv /\ Ages(m) => RepaintedInTime
  <2> SUFFICES ASSUME IInv, Ages(m), NEW p \in Pixels PROVE age[p] < REBLIT_FREQUENCY
    BY DEF RepaintedInTime
  <2>1. age[p] \in Nat /\ age[p] <= Since(m, p) /\ Since(m, p) \in 0 .. REBLIT_FREQUENCY - 1
    BY SinceType DEF Ages
  <2> QED BY <2>1, PoolAssumption
<1> QED BY <1>1, <1>2, <1>3, Invariance, ShownInvariance, PTL DEF Spec

=============================================================================
