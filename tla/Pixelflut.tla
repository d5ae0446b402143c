----------------------------- MODULE Pixelflut -----------------------------
(***************************************************************************)
(* How kernelflut gets a screen update onto the pixelflut wall             *)
(* (src/pixelflut.c, called from kernelflut.c's loop): the traversal of    *)
(* each dirty rectangle in staggered rounds, the comparison with the       *)
(* buffer of the previous call, the occasional reblit and the pool of TCP  *)
(* connections, one pixel per step.  The virtual screen and the server are *)
(* external: an update is some change of the screen inside the rectangles  *)
(* the device reports, and a connection delivers in order.                 *)
(***************************************************************************)
EXTENDS Integers, Sequences, FiniteSets

CONSTANTS
    Width, Height,          \* of the screen and of its buffers
    Pictures,               \* what the screen may show: colours per pixel
    Black,                  \* the colour of a buffer fresh from calloc
    Updates,                \* lists of rectangles the device may report
    BgColor,                \* -b; PF_NO_BGCOLOR without it
    PF_NO_BGCOLOR,
    NoColor,                \* nothing painted yet
    Conns,                  \* size of the connection pool
    SNDBUF,                 \* bound: pixels that fit in a connection
    REBLIT_FREQUENCY        \* 23

Pixels == (0 .. Width - 1) \X (0 .. Height - 1)
Rects == {r \in [x1 : 0 .. Width, x2 : 0 .. Width, y1 : 0 .. Height, y2 : 0 .. Height] :
             r.x1 <= r.x2 /\ r.y1 <= r.y2}
PixelsOf(r) == {p \in Pixels : /\ r.x1 <= p[1] /\ p[1] < r.x2
                               /\ r.y1 <= p[2] /\ p[2] < r.y2}
PixelsOfAll(rects) == UNION {PixelsOf(rects[i]) : i \in DOMAIN rects}
Full == [x1 |-> 0, x2 |-> Width, y1 |-> 0, y2 |-> Height]

ASSUME SizeAssumption == Width \in Nat /\ Height \in Nat
ASSUME UpdatesAssumption == Updates \subseteq Seq(Rects)
ASSUME PicturesAssumption ==
    \A picture \in Pictures : /\ picture = [p \in Pixels |-> picture[p]]
                              /\ NoColor \notin {picture[p] : p \in Pixels}
ASSUME ColorsAssumption == NoColor # Black /\ NoColor # PF_NO_BGCOLOR
ASSUME PoolAssumption ==
    /\ Conns \in Nat \ {0} /\ SNDBUF \in Nat \ {0}
    /\ REBLIT_FREQUENCY \in Nat \ {0}

ROUNDS == 5

\* Mutant of STAGGER: not coprime to ROUNDS.
StaggerOfRounds == 5

STAGGER == 2

\* Mutant of FRAMEBUFFERS: every update goes into the same buffer.
SingleFramebuffer == 1

FRAMEBUFFERS == 2
NULL == FRAMEBUFFERS        \* no buffer

VARIABLES
    screen,         \* what the virtual screen shows (external)
    fb,             \* the framebuffers, filled by evdi_grab_pixels
    fbid,           \* the one of this update
    rects,          \* rectangles of this update that are still to be sent
    pc,             \* "idle" between updates, "rect" before a pf_set_buf, "pixel" in it
    round, y, x,    \* its loop variables
    last_buf,       \* the framebuffer of the previous call
    skip_reblit,
    active_conn_i,
    wire,           \* per connection: pixels on their way (external)
    canvas,         \* what the wall shows (external)
    sent,           \* history: the colour each pixel was last sent with
    visited,        \* history: the pixels this call has looked at
    age             \* history: looks at a pixel since it was last sent

screenVars == <<screen, fb, fbid>>
loopVars == <<pc, rects, round, y, x>>
poolVars == <<wire, active_conn_i>>
history == <<sent, visited, age>>
vars == <<screenVars, loopVars, last_buf, skip_reblit, poolVars, canvas, history>>

Init ==
    /\ screen \in Pictures
    /\ fb = [id \in 0 .. FRAMEBUFFERS - 1 |-> [p \in Pixels |-> Black]]
    /\ fbid = 0
    /\ pc = "idle" /\ rects = <<>>
    /\ round = 0 /\ y = 0 /\ x = 0
    /\ last_buf = NULL /\ skip_reblit = 0 /\ active_conn_i = 0
    /\ wire = [c \in 0 .. Conns - 1 |-> <<>>]
    /\ canvas = [p \in Pixels |-> NoColor]
    /\ sent = canvas /\ visited = {} /\ age = [p \in Pixels |-> 0]

-----------------------------------------------------------------------------

\* evdi_get: the buffers alternate; only what is dirty is copied into one.  The
\* rectangles cover every change (EvdiPainter's DamageKept); the first update
\* after a connect is of the whole screen.
Get(picture, update) ==
    /\ pc = "idle"
    /\ \A p \in Pixels \ PixelsOfAll(update) : picture[p] = screen[p]
    /\ last_buf = NULL => PixelsOfAll(update) = Pixels
    /\ screen' = picture
    /\ fbid' = (fbid + 1) % FRAMEBUFFERS
    /\ fb' = [fb EXCEPT ![fbid'] = [p \in Pixels |-> IF p \in PixelsOfAll(update)
                                                     THEN picture[p] ELSE fb[fbid'][p]]]
    /\ rects' = update
    /\ pc' = IF update = <<>> THEN "idle" ELSE "rect"
    /\ UNCHANGED <<round, y, x, last_buf, skip_reblit, poolVars, canvas, history>>

rect == Head(rects)

\* where a row starts in a round: updates are staggered to show early
RowStart(r, row) == rect.x1 + ((((r + row) % ROUNDS) * STAGGER) % ROUNDS)

\* Mutant of EnterCall: the reblit counter starts again with every call.
EnterCallAfresh ==
    /\ pc = "rect"
    /\ pc' = "pixel"
    /\ round' = 0 /\ y' = rect.y1 /\ x' = RowStart(0, rect.y1)
    /\ visited' = {} /\ skip_reblit' = 0
    /\ UNCHANGED <<screenVars, rects, last_buf, poolVars, canvas, sent, age>>

EnterCall ==
    /\ pc = "rect"
    /\ pc' = "pixel"
    /\ round' = 0 /\ y' = rect.y1 /\ x' = RowStart(0, rect.y1)
    /\ visited' = {}
    /\ UNCHANGED <<screenVars, rects, last_buf, skip_reblit, poolVars, canvas, sent, age>>

InRow == pc = "pixel" /\ round < ROUNDS /\ y < rect.y2 /\ x < rect.x2

Redundant(p, skip) ==
    /\ last_buf # NULL /\ fb[last_buf][p] = fb[fbid][p]
    /\ BgColor \in {PF_NO_BGCOLOR, fb[fbid][p]} \/ skip # 0

\* Mutant of NextConn: it runs past the end of the pool.
NextConnUnwrapped(skipped) == active_conn_i + 1

\* Mutant of NextConn: a skipped pixel does not use up its turn.
NextConnWhenSent(skipped) == IF skipped THEN active_conn_i ELSE (active_conn_i + 1) % Conns

\* every pixel takes the next connection, whether it is sent or not
NextConn(skipped) == (active_conn_i + 1) % Conns

AdvanceRow == x' = x + ROUNDS

\* The pixel is as it was in the previous buffer.  (The age of what must never
\* be repainted does not count.)
SkipPixel ==
    LET p == <<x, y>>
        skip == (skip_reblit + 1) % REBLIT_FREQUENCY
    IN  /\ InRow /\ Redundant(p, skip)
        /\ skip_reblit' = skip
        /\ active_conn_i' = NextConn(TRUE)
        /\ AdvanceRow
        /\ visited' = visited \cup {p}
        /\ age' = IF BgColor \in {PF_NO_BGCOLOR, fb[fbid][p]} THEN age
                  ELSE [age EXCEPT ![p] = IF @ < REBLIT_FREQUENCY THEN @ + 1 ELSE @]
        /\ UNCHANGED <<screenVars, pc, rects, round, y, last_buf, wire, canvas, sent>>

\* dprintf to the connection; it blocks while the socket buffer is full
SendPixel ==
    LET p == <<x, y>>
        skip == (skip_reblit + 1) % REBLIT_FREQUENCY
    IN  /\ InRow /\ ~ Redundant(p, skip)
        /\ Len(wire[active_conn_i]) < SNDBUF
        /\ skip_reblit' = skip
        /\ wire' = [wire EXCEPT ![active_conn_i] = Append(@, [pixel |-> p, color |-> fb[fbid][p]])]
        /\ active_conn_i' = NextConn(FALSE)
        /\ AdvanceRow
        /\ sent' = [sent EXCEPT ![p] = fb[fbid][p]]
        /\ visited' = visited \cup {p}
        /\ age' = [age EXCEPT ![p] = 0]
        /\ UNCHANGED <<screenVars, pc, rects, round, y, last_buf, canvas>>

NextRow ==
    /\ pc = "pixel" /\ round < ROUNDS /\ y < rect.y2 /\ x >= rect.x2
    /\ y' = y + 1 /\ x' = RowStart(round, y + 1)
    /\ UNCHANGED <<screenVars, pc, rects, round, last_buf, skip_reblit, poolVars, canvas, history>>

\* Mutant of NextRound: every round is the first.
NextRoundNot ==
    /\ pc = "pixel" /\ round < ROUNDS /\ y >= rect.y2
    /\ y' = rect.y1 /\ x' = RowStart(round, rect.y1)
    /\ UNCHANGED <<screenVars, pc, rects, round, last_buf, skip_reblit, poolVars, canvas, history>>

NextRound ==
    /\ pc = "pixel" /\ round < ROUNDS /\ y >= rect.y2
    /\ round' = round + 1 /\ y' = rect.y1 /\ x' = RowStart(round + 1, rect.y1)
    /\ UNCHANGED <<screenVars, pc, rects, last_buf, skip_reblit, poolVars, canvas, history>>

\* the loop goes on with the next rectangle, the call's locals are gone
CallOver ==
    /\ rects' = Tail(rects)
    /\ pc' = IF Len(rects) = 1 THEN "idle" ELSE "rect"
    /\ round' = 0 /\ y' = 0 /\ x' = 0
    /\ visited' = {}

\* last_buf is set by the call for each rectangle, not once per update
Return ==
    /\ pc = "pixel" /\ round = ROUNDS
    /\ last_buf' = fbid
    /\ CallOver
    /\ UNCHANGED <<screenVars, skip_reblit, poolVars, canvas, sent, age>>

\* The server paints the next pixel of a connection.
Paint(c) ==
    /\ wire[c] # <<>>
    /\ canvas' = [canvas EXCEPT ![Head(wire[c]).pixel] = Head(wire[c]).color]
    /\ wire' = [wire EXCEPT ![c] = Tail(@)]
    /\ UNCHANGED <<screenVars, loopVars, last_buf, skip_reblit, active_conn_i, history>>

SetBufStep == EnterCall \/ SkipPixel \/ SendPixel \/ NextRow \/ NextRound \/ Return

Next == \/ \E picture \in Pictures, update \in Updates : Get(picture, update)
        \/ SetBufStep
        \/ \E c \in DOMAIN wire : Paint(c)

Spec == Init /\ [][Next]_vars

\* kernelflut goes on, the server reads every connection, updates keep coming
FairSpec == /\ Spec
            /\ WF_vars(SetBufStep)
            /\ \A c \in 0 .. Conns - 1 : WF_vars(Paint(c))
            /\ WF_vars(\E picture \in Pictures, update \in Updates : Get(picture, update))

-----------------------------------------------------------------------------

\* Every variable keeps its type; the index into the pool stays in it and the
\* list of rectangles is empty exactly between updates.
TypeOK ==
    /\ screen \in Pictures
    /\ fbid \in 0 .. FRAMEBUFFERS - 1 /\ last_buf \in 0 .. NULL
    /\ pc \in {"idle", "rect", "pixel"}
    /\ rects \in Seq(Rects) /\ (rects = <<>> <=> pc = "idle")
    /\ round \in 0 .. ROUNDS /\ y \in Nat /\ x \in Nat
    /\ skip_reblit \in 0 .. REBLIT_FREQUENCY - 1
    /\ active_conn_i \in 0 .. Conns - 1
    /\ visited \subseteq Pixels
    /\ \A c \in DOMAIN wire : Len(wire[c]) <= SNDBUF

\* The rounds, though each row starts elsewhere in each of them, look at every
\* pixel of the rectangle exactly once, and at no other.
EachPixelOnce ==
    /\ InRow => <<x, y>> \in PixelsOf(rect) \ visited
    /\ pc = "pixel" /\ round = ROUNDS => visited = PixelsOf(rect)

\* README.md: kernelflut "sends changed pixels to pixelflut": between updates,
\* every pixel was last sent with the colour it has on the screen.
ChangedPixelsSent == pc = "idle" /\ last_buf # NULL => sent = screen

\* A pixel keeps its connection from update to update, so that its colours
\* arrive in the order they were sent: once everything has arrived the wall
\* shows what was sent last.
WallSettles == (\A c \in DOMAIN wire : wire[c] = <<>>) => canvas = sent

\* An update is sent to the end, though connections block, as long as the
\* server reads them.
UpdateIsSent == pc # "idle" ~> pc = "idle"

\* With a background colour, a pixel of another colour is repainted at least
\* every REBLIT_FREQUENCY times it is looked at.
RepaintedInTime == \A p \in Pixels : age[p] < REBLIT_FREQUENCY

=============================================================================
