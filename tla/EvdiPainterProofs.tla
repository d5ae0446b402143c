------------------------- MODULE EvdiPainterProofs -------------------------
(***************************************************************************)
(* The types of EvdiPainter, for any number of clients and framebuffers,   *)
(* any capacity of dirty_rects and any behaviour of the compositor         *)
(* (Typing), with the lemmas on rectangles and on what each locked section *)
(* leaves alone.  EvdiPainterSafetyProofs builds on them.                  *)
(***************************************************************************)
EXTENDS EvdiPainter, TLAPS

-----------------------------------------------------------------------------
(* Rectangles and lists of them.                                           *)

LEMMA SizeType ==
    ASSUME NEW f \in Fbs
    PROVE  Width(f) \in Coord /\ Height(f) \in Coord /\ FullRect(f) \in Rect
<1>1. Size[f] \in Coord \X Coord
  BY FbsAssumption
<1> QED BY <1>1, MaxCoordAssumption
        DEF Width, Height, FullRect, Rect, ClipRect, Ordered, Coord

LEMMA SanitizeType ==
    ASSUME NEW w \in Coord, NEW h \in Coord, NEW r \in ClipRect
    PROVE  sanitize_rect(w, h, r) \in Rect
BY MaxCoordAssumption DEF sanitize_rect, Rect, ClipRect, Ordered, Coord, Lo, Hi

\* Sanitizing drops nothing that is on the screen.
LEMMA SanitizeCovers ==
    ASSUME NEW f \in Fbs, NEW r \in ClipRect, NEW p \in Damage(f, r)
    PROVE  Covers(sanitize_rect(Width(f), Height(f), r), p[1], p[2])
<1>1. Width(f) \in Coord /\ Height(f) \in Coord
  BY SizeType
<1>2. /\ p \in Pixels /\ p[1] < Width(f) /\ p[2] < Height(f)
      /\ Lo(r.x1, r.x2) <= p[1] /\ p[1] < Hi(r.x1, r.x2)
      /\ Lo(r.y1, r.y2) <= p[2] /\ p[2] < Hi(r.y1, r.y2)
  BY DEF Damage, Screen, PixelsOf, FullRect, Covers
<1>3. p[1] \in Coord /\ p[2] \in Coord
  BY <1>2 DEF Pixels
<1> QED BY <1>1, <1>2, <1>3, MaxCoordAssumption
        DEF sanitize_rect, Covers, ClipRect, Coord, Lo, Hi

LEMMA FullDamage ==
    ASSUME NEW f \in Fbs
    PROVE  Screen(f) \subseteq Damage(f, FullRect(f))
<1>1. Width(f) \in Coord /\ Height(f) \in Coord
  BY SizeType
<1> QED BY <1>1, MaxCoordAssumption
        DEF Screen, Damage, PixelsOf, FullRect, Covers, Pixels, Coord, Lo, Hi

LEMMA InDirtLists ==
    ASSUME NEW n \in Nat, NEW s \in Seq(Rect), Len(s) <= n
    PROVE  s \in DirtLists(n)
<1>1. s \in [1 .. Len(s) -> Rect] /\ Len(s) \in 0 .. n
  OBVIOUS
<1> QED BY <1>1 DEF DirtLists

\* A compacted list covers the pixels of the list it stands for.
LEMMA CompactsCovers ==
    ASSUME NEW s, NEW t, Compacts(s, t)
    PROVE  PixelsIn(s) \subseteq PixelsIn(t)
BY DEF Compacts, PixelsIn, Pixels

LEMMA CompactsTransitive ==
    ASSUME NEW s \in Seq(Rect), NEW t, NEW u, Compacts(s, t), Compacts(t, u)
    PROVE  Compacts(s, u)
BY DEF Compacts

LEMMA MergeCompacts ==
    ASSUME NEW s \in Seq(Rect), Len(s) <= MAX_DIRTS
    PROVE  Compacts(s, merge_dirty_rects(s))
BY InDirtLists, MaxDirtsAssumption, MergeAssumption

\* Making room for a rectangle leaves a free slot and covers what was covered.
LEMMA RoomForOneCompacts ==
    ASSUME NEW s \in Seq(Rect), Len(s) <= MAX_DIRTS
    PROVE  Compacts(s, RoomForOne(s)) /\ Len(RoomForOne(s)) < MAX_DIRTS
<1> DEFINE merged == IF Len(s) = MAX_DIRTS THEN merge_dirty_rects(s) ELSE s
<1>1. Compacts(s, s)
  BY DEF Compacts
<1>2. Compacts(s, merged)
  BY <1>1, MergeCompacts
<1>3. merged \in Seq(Rect) /\ Len(merged) <= MAX_DIRTS /\ Len(merged) \in Nat
  BY <1>2, MaxDirtsAssumption DEF Compacts
<1>4. RoomForOne(s) = IF Len(merged) = MAX_DIRTS THEN collapse_dirty_rects(merged) ELSE merged
  BY DEF RoomForOne
<1> HIDE DEF merged
<1>5. CASE Len(merged) = MAX_DIRTS
  <2>1. merged \in DirtLists(MAX_DIRTS) \ {<<>>}
    BY <1>3, <1>5, InDirtLists, MaxDirtsAssumption
  <2>2. Compacts(merged, RoomForOne(s)) /\ Len(RoomForOne(s)) = 1
    BY <1>4, <1>5, <2>1, CollapseAssumption
  <2> QED BY <1>2, <2>2, CompactsTransitive, MaxDirtsAssumption
<1>6. CASE Len(merged) # MAX_DIRTS
  BY <1>2, <1>3, <1>4, <1>6, MaxDirtsAssumption
<1> QED BY <1>5, <1>6

LEMMA AppendCovers ==
    ASSUME NEW s \in Seq(Rect), NEW r \in Rect
    PROVE  /\ Append(s, r) \in Seq(Rect) /\ Len(Append(s, r)) = Len(s) + 1
           /\ PixelsIn(s) \subseteq PixelsIn(Append(s, r))
           /\ PixelsOf(r) \subseteq PixelsIn(Append(s, r))
<1>1. /\ Append(s, r) \in Seq(Rect) /\ Len(Append(s, r)) = Len(s) + 1
      /\ \A i \in DOMAIN s : Append(s, r)[i] = s[i] /\ i \in DOMAIN Append(s, r)
      /\ Append(s, r)[Len(s) + 1] = r /\ Len(s) + 1 \in DOMAIN Append(s, r)
  OBVIOUS
<1>2. PixelsIn(s) \subseteq PixelsIn(Append(s, r))
  BY <1>1 DEF PixelsIn, ListCovers
<1>3. PixelsOf(r) \subseteq PixelsIn(Append(s, r))
  BY <1>1 DEF PixelsIn, PixelsOf, ListCovers
<1> QED BY <1>1, <1>2, <1>3

-----------------------------------------------------------------------------
(* Types.  The shape of the commit comes with them: the framebuffer of a   *)
(* commit that is going to be marked or announced exists.                  *)

CommitShape ==
    /\ commit.pc \in {"plane", "set", "count", "mark"} => commit.fb \in Fbs
    /\ commit.mode_changed => commit.fb = crtc.fb
    /\ crtc.active => crtc.fb \in Fbs
    /\ commit.pc = "mode" => commit.mode_changed /\ crtc.active

DrmInv == DrmTypeOK /\ CommitShape

TypeInv == PainterTypeOK /\ ClientTypeOK /\ DrmInv /\ HistoryTypeOK

LEMMA PainterSame == PainterTypeOK /\ UNCHANGED painterVars => PainterTypeOK'
BY DEF PainterTypeOK, painterVars

LEMMA ClientSame == ClientTypeOK /\ UNCHANGED clientVars => ClientTypeOK'
BY DEF ClientTypeOK, clientVars

LEMMA DrmSame == DrmInv /\ UNCHANGED drmVars => DrmInv'
BY DEF DrmInv, DrmTypeOK, CommitShape, drmVars

LEMMA HistorySame == HistoryTypeOK /\ UNCHANGED <<history, announced>> => HistoryTypeOK'
BY DEF HistoryTypeOK, history

LEMMA MarkDirtyType ==
    ASSUME PainterTypeOK, HistoryTypeOK, NEW r \in ClipRect, MarkDirty(r)
    PROVE  /\ dirty_rects' \in Seq(Rect) /\ Len(dirty_rects') <= MAX_DIRTS
           /\ unseen' \subseteq Pixels /\ dropped' \subseteq Pixels
<1>1. CASE scanout_fb = NoFb
  BY <1>1 DEF MarkDirty, PainterTypeOK, HistoryTypeOK, history
<1>2. CASE scanout_fb # NoFb
  <2>1. scanout_fb \in Fbs
    BY <1>2 DEF PainterTypeOK
  <2> DEFINE rect == sanitize_rect(Width(scanout_fb), Height(scanout_fb), r)
  <2>2. rect \in Rect
    BY <2>1, SizeType, SanitizeType
  <2>3. /\ RoomForOne(dirty_rects) \in Seq(Rect)
        /\ Len(RoomForOne(dirty_rects)) < MAX_DIRTS
    BY RoomForOneCompacts DEF PainterTypeOK, Compacts
  <2>4. dirty_rects' = Append(RoomForOne(dirty_rects), rect)
    BY <1>2 DEF MarkDirty
  <2> HIDE DEF rect
  <2>5. dirty_rects' \in Seq(Rect) /\ Len(dirty_rects') <= MAX_DIRTS
    BY <2>2, <2>3, <2>4, MaxDirtsAssumption
  <2>6. Damage(scanout_fb, r) \subseteq Pixels
    BY DEF Damage, Screen, PixelsOf
  <2> QED BY <1>2, <2>5, <2>6 DEF MarkDirty, HistoryTypeOK
<1> QED BY <1>1, <1>2

\* A step that marks a rectangle and leaves the rest of the painter alone.
LEMMA MarkStepType ==
    ASSUME PainterTypeOK, HistoryTypeOK, NEW r \in ClipRect, MarkDirty(r),
           UNCHANGED <<drm_filp, scanout_fb, was_update_requested, needs_full_modeset, refs,
                       announced>>
    PROVE  PainterTypeOK' /\ HistoryTypeOK'
<1>1. /\ dirty_rects' \in Seq(Rect) /\ Len(dirty_rects') <= MAX_DIRTS
      /\ unseen' \subseteq Pixels /\ dropped' \subseteq Pixels
  BY MarkDirtyType
<1>2. PainterTypeOK'
  BY <1>1 DEF PainterTypeOK
<1>3. HistoryTypeOK'
  BY <1>1 DEF HistoryTypeOK
<1> QED BY <1>2, <1>3

LEMMA NoRectType == NoRect \in Rect
BY MaxCoordAssumption DEF NoRect, Rect, ClipRect, Ordered, Coord

LEMMA InitType == Init => TypeInv
<1> SUFFICES ASSUME Init PROVE TypeInv
  OBVIOUS
<1>1. PainterTypeOK
  <2>1. dirty_rects \in Seq(Rect) /\ Len(dirty_rects) <= MAX_DIRTS
    BY MaxDirtsAssumption DEF Init
  <2>2. refs \in [Fbs -> Int]
    BY DEF Init
  <2> QED BY <2>1, <2>2 DEF Init, PainterTypeOK
<1>2. ClientTypeOK
  <2>1. \A f \in Fbs : Size[f] \in Coord \X Coord
    BY FbsAssumption
  <2>2. bufsize \in [Clients -> Coord \X Coord]
    BY <2>1 DEF Init
  <2>3. grab \in [Clients -> Grabs]
    BY DEF Init, NoGrab, Grabs
  <2> QED BY <2>2, <2>3 DEF Init, ClientTypeOK
<1>3. DrmTypeOK
  <2>1. commit \in Commits
    BY DEF Init, IdleCommit, Commits
  <2>2. dirtyfb \in [fb : Fbs \cup {NoFb}, clips : Seq(ClipRect)]
    BY DEF Init, IdleDirtyFb
  <2>3. crtc \in [fb : Fbs \cup {NoFb}, active : BOOLEAN]
    BY DEF Init
  <2>4. cursor \in [pc : {"idle", "mark", "ready"}, rect : Rect]
    BY NoRectType DEF Init, IdleCursor
  <2> QED BY <2>1, <2>2, <2>3, <2>4 DEF DrmTypeOK
<1>4. CommitShape
  BY DEF Init, CommitShape, IdleCommit
<1>5. HistoryTypeOK
  BY DEF Init, HistoryTypeOK
<1> QED BY <1>1, <1>2, <1>3, <1>4, <1>5 DEF TypeInv, DrmInv

LEMMA DisconnectType ==
    ASSUME PainterTypeOK, HistoryTypeOK, NEW c \in Clients, DisconnectFile(c), UNCHANGED announced
    PROVE  PainterTypeOK' /\ HistoryTypeOK'
<1>1. CASE c = drm_filp
  <2>1. refs' \in [Fbs -> Int]
    BY <1>1 DEF PainterTypeOK, DisconnectFile, Put
  <2>2. /\ scanout_fb' = NoFb /\ drm_filp' = NoClient /\ was_update_requested' = FALSE
        /\ unseen' = {} /\ dropped' = {}
        /\ dirty_rects' = dirty_rects /\ needs_full_modeset' = needs_full_modeset
    BY <1>1 DEF DisconnectFile
  <2>3. PainterTypeOK'
    BY <2>1, <2>2 DEF PainterTypeOK
  <2> QED BY <2>2, <2>3 DEF HistoryTypeOK
<1>2. CASE c # drm_filp
  BY <1>2, PainterSame, HistorySame DEF DisconnectFile
<1> QED BY <1>1, <1>2

LEMMA SendType ==
    ASSUME ClientTypeOK, NEW event \in Event, Send(event), UNCHANGED <<client, bufsize, grab, connects>>
    PROVE  ClientTypeOK'
<1>1. \A c \in Clients : Append(events[c], event) \in Seq(Event)
  BY DEF ClientTypeOK
<1>2. events' \in [Clients -> Seq(Event)]
  BY <1>1 DEF Send, ClientTypeOK
<1> QED BY <1>2 DEF ClientTypeOK

LEMMA SendReadyType ==
    ASSUME PainterTypeOK, ClientTypeOK, HistoryTypeOK, SendUpdateReadyIfNeeded
    PROVE  PainterTypeOK' /\ ClientTypeOK' /\ HistoryTypeOK'
<1>1. UpdateReady \in Event
  BY DEF Event
<1>2. ClientTypeOK'
  <2>1. CASE was_update_requested
    BY <1>1, <2>1, SendType DEF SendUpdateReadyIfNeeded
  <2>2. CASE ~ was_update_requested
    BY <2>2, ClientSame DEF SendUpdateReadyIfNeeded, clientVars
  <2> QED BY <2>1, <2>2
<1>3. PainterTypeOK'
  BY DEF SendUpdateReadyIfNeeded, PainterTypeOK
<1> QED BY <1>2, <1>3, HistorySame DEF SendUpdateReadyIfNeeded

LEMMA StartCommitType ==
    ASSUME DrmInv, needs_full_modeset \in BOOLEAN,
           NEW f \in Fbs \cup {NoFb}, NEW active \in BOOLEAN, active => f \in Fbs,
           StartCommit(f, active)
    PROVE  /\ crtc' \in [fb : Fbs \cup {NoFb}, active : BOOLEAN]
           /\ commit' \in Commits /\ CommitShape'
<1>1. crtc.fb \in Fbs \cup {NoFb}
  BY DEF DrmInv, DrmTypeOK
<1>2. crtc' = [fb |-> f, active |-> active]
  BY DEF StartCommit
<1>3. /\ commit'.pc \in {"plane", "flush"} /\ (commit'.pc = "plane" => f \in Fbs)
      /\ commit'.fb = f /\ commit' \in Commits
  <2> DEFINE modeChanged == \/ needs_full_modeset
                            \/ (f = NoFb) # (crtc.fb = NoFb)
                            \/ f # NoFb /\ crtc.fb # NoFb /\ Size[f] # Size[crtc.fb]
             step == IF f = NoFb THEN "flush" ELSE "plane"
  <2>1. modeChanged \in BOOLEAN
    OBVIOUS
  <2>2. commit' = [pc |-> step, fb |-> f, old |-> crtc.fb, mode_changed |-> modeChanged]
    BY DEF StartCommit
  <2>3. step \in {"plane", "flush"} /\ (step = "plane" => f \in Fbs)
    OBVIOUS
  <2> HIDE DEF modeChanged, step
  <2> QED BY <1>1, <2>1, <2>2, <2>3 DEF Commits
<1> QED BY <1>2, <1>3 DEF CommitShape

\* A step of the modeset thread that only goes to another of its statements.
LEMMA GotoType ==
    ASSUME DrmInv, UNCHANGED <<crtc, cursor, dirtyfb>>,
           NEW step \in {"set", "count", "mark", "flush", "mode", "modeset_done", "ready"},
           Goto(step),
           step \in {"set", "count", "mark"} => commit.fb \in Fbs,
           step = "mode" => commit.mode_changed /\ crtc.active
    PROVE  DrmInv'
<1>1. commit' = [commit EXCEPT !.pc = step] /\ commit \in Commits
  BY DEF Goto, DrmInv, DrmTypeOK
<1>2. /\ commit' \in Commits /\ commit'.pc = step /\ commit'.fb = commit.fb
      /\ commit'.mode_changed = commit.mode_changed
  BY <1>1 DEF Commits
<1>3. DrmTypeOK'
  BY <1>2 DEF DrmInv, DrmTypeOK
<1>4. CommitShape'
  BY <1>2 DEF DrmInv, CommitShape
<1> QED BY <1>3, <1>4 DEF DrmInv

LEMMA ConnectType == \A c \in Clients : TypeInv /\ Connect(c) => TypeInv'
<1> SUFFICES ASSUME NEW c \in Clients, TypeInv, Connect(c) PROVE TypeInv'
  OBVIOUS
<1>1. PainterTypeOK'
  BY DEF Connect, TypeInv, PainterTypeOK
<1>2. ClientTypeOK'
  BY DEF Connect, TypeInv, ClientTypeOK
<1>3. DrmInv'
  BY DrmSame DEF Connect, TypeInv
<1>4. HistoryTypeOK'
  BY DEF Connect, TypeInv, HistoryTypeOK, history
<1> QED BY <1>1, <1>2, <1>3, <1>4 DEF TypeInv

LEMMA LeaveType == \A c \in Clients : TypeInv /\ (Disconnect(c) \/ Close(c)) => TypeInv'
<1> SUFFICES ASSUME NEW c \in Clients, TypeInv, Disconnect(c) \/ Close(c) PROVE TypeInv'
  OBVIOUS
<1>1. PainterTypeOK' /\ HistoryTypeOK'
  BY DisconnectType DEF Disconnect, Close, TypeInv
<1>2. ClientTypeOK'
  <2>1. events' = events \/ events' = [events EXCEPT ![c] = <<>>]
    BY DEF Disconnect, Close
  <2>2. events' \in [Clients -> Seq(Event)]
    <3>1. events \in [Clients -> Seq(Event)] /\ <<>> \in Seq(Event)
      BY DEF TypeInv, ClientTypeOK
    <3> QED BY <2>1, <3>1
  <2>3. client' = [client EXCEPT ![c] = "left"] \/ client' = [client EXCEPT ![c] = "closed"]
    BY DEF Disconnect, Close
  <2>4. UNCHANGED <<bufsize, grab, connects>>
    BY DEF Disconnect, Close
  <2> QED BY <2>2, <2>3, <2>4 DEF TypeInv, ClientTypeOK
<1>3. DrmInv'
  BY DrmSame DEF Disconnect, Close, TypeInv
<1> QED BY <1>1, <1>2, <1>3 DEF TypeInv

LEMMA RequestType == \A c \in Clients : TypeInv /\ RequestUpdate(c) => TypeInv'
<1> SUFFICES ASSUME NEW c \in Clients, TypeInv, RequestUpdate(c) PROVE TypeInv'
  OBVIOUS
<1>1. PainterTypeOK'
  BY DEF RequestUpdate, ReadyAtOnce, TypeInv, PainterTypeOK
<1>2. ClientTypeOK'
  BY DEF RequestUpdate, TypeInv, ClientTypeOK
<1>3. DrmInv' /\ HistoryTypeOK'
  BY DrmSame, HistorySame DEF RequestUpdate, TypeInv
<1> QED BY <1>1, <1>2, <1>3 DEF TypeInv

LEMMA ReadType == \A c \in Clients : TypeInv /\ ReadEvents(c) => TypeInv'
<1> SUFFICES ASSUME NEW c \in Clients, TypeInv, ReadEvents(c) PROVE TypeInv'
  OBVIOUS
<1>1. bufsize' \in [Clients -> Coord \X Coord]
  <2>1. CASE UNCHANGED bufsize
    BY <2>1 DEF TypeInv, ClientTypeOK
  <2>2. CASE \E i \in DOMAIN events[c] :
                /\ events[c][i].type = "mode_changed"
                /\ bufsize' = [bufsize EXCEPT ![c] = Size[events[c][i].fb]]
    <3>1. PICK i \in DOMAIN events[c] :
                /\ events[c][i].type = "mode_changed"
                /\ bufsize' = [bufsize EXCEPT ![c] = Size[events[c][i].fb]]
      BY <2>2
    <3>2. events[c] \in Seq(Event)
      BY DEF TypeInv, ClientTypeOK
    <3>3. events[c][i] \in Event
      BY <3>2
    <3>4. events[c][i].fb \in Fbs
      BY <3>1, <3>3 DEF Event, UpdateReady, ModeChanged
    <3>5. Size[events[c][i].fb] \in Coord \X Coord
      BY <3>4, FbsAssumption
    <3> QED BY <3>1, <3>5 DEF TypeInv, ClientTypeOK
  <2> QED BY <2>1, <2>2 DEF ReadEvents
<1>2. events' \in [Clients -> Seq(Event)]
  BY DEF ReadEvents, TypeInv, ClientTypeOK
<1>3. client' \in [Clients -> {"closed", "idle", "waiting", "ready", "grabbing", "left"}]
  BY DEF ReadEvents, TypeInv, ClientTypeOK
<1>4. ClientTypeOK'
  BY <1>1, <1>2, <1>3 DEF ReadEvents, TypeInv, ClientTypeOK
<1>5. PainterTypeOK' /\ DrmInv' /\ HistoryTypeOK'
  BY PainterSame, DrmSame, HistorySame DEF ReadEvents, TypeInv
<1> QED BY <1>4, <1>5 DEF TypeInv

LEMMA GrabLockedType == \A c \in Clients : TypeInv /\ GrabLocked(c) => TypeInv'
<1> SUFFICES ASSUME NEW c \in Clients, TypeInv, GrabLocked(c) PROVE TypeInv'
  OBVIOUS
<1> DEFINE rects == merge_dirty_rects(dirty_rects)
           owed == unseen \cap PixelsIn(rects)
<1>1. rects \in Seq(Rect) /\ Len(rects) <= MAX_DIRTS
  BY MergeCompacts, MaxDirtsAssumption DEF Compacts, TypeInv, PainterTypeOK
<1>2. <<>> \in Seq(Rect) /\ Len(<<>>) <= MAX_DIRTS
  BY MaxDirtsAssumption
<1>3. /\ scanout_fb \in Fbs \cup {NoFb} /\ refs \in [Fbs -> Int] /\ grab \in [Clients -> Grabs]
      /\ unseen \subseteq Pixels /\ dropped \subseteq Pixels
  BY DEF TypeInv, PainterTypeOK, ClientTypeOK, HistoryTypeOK
<1>4. /\ dirty_rects' \in {rects, <<>>}
      /\ refs' \in {refs, Get(refs, scanout_fb)}
      /\ grab' \in {grab, [grab EXCEPT ![c] = [fb |-> scanout_fb, rects |-> rects, owed |-> owed]]}
      /\ unseen' \in {unseen, unseen \ owed} /\ dropped' \in {dropped, dropped \ owed}
  BY DEF GrabLocked, history
<1>5. client' \in [Clients -> {"closed", "idle", "waiting", "ready", "grabbing", "left"}]
  BY DEF GrabLocked, TypeInv, ClientTypeOK
<1> HIDE DEF rects
<1>6. grab' \in [Clients -> Grabs]
  <2>1. [fb |-> scanout_fb, rects |-> rects, owed |-> owed] \in Grabs
    BY <1>1, <1>3 DEF Grabs
  <2> HIDE DEF owed
  <2> QED BY <1>3, <1>4, <2>1
<1> HIDE DEF owed
<1>7. refs' \in [Fbs -> Int]
  BY <1>3, <1>4 DEF Get
<1>8. dirty_rects' \in Seq(Rect) /\ Len(dirty_rects') <= MAX_DIRTS
  BY <1>1, <1>2, <1>4, Zenon
<1>9. PainterTypeOK'
  BY <1>7, <1>8 DEF GrabLocked, TypeInv, PainterTypeOK
<1>10. ClientTypeOK'
  BY <1>5, <1>6 DEF GrabLocked, TypeInv, ClientTypeOK
<1>11. DrmInv'
  BY DrmSame DEF GrabLocked, TypeInv
<1>12. HistoryTypeOK'
  BY <1>3, <1>4 DEF GrabLocked, TypeInv, HistoryTypeOK
<1> QED BY <1>9, <1>10, <1>11, <1>12 DEF TypeInv

LEMMA EndGrabType ==
    \A c \in Clients : TypeInv /\ (GrabCopies(c) \/ GrabFails(c)) => TypeInv'
<1> SUFFICES ASSUME NEW c \in Clients, TypeInv, GrabCopies(c) \/ GrabFails(c) PROVE TypeInv'
  OBVIOUS
<1>1. EndGrab(c)
  BY DEF GrabCopies, GrabFails
<1>2. refs' \in [Fbs -> Int]
  BY <1>1 DEF EndGrab, TypeInv, PainterTypeOK, Put
<1>3. PainterTypeOK'
  BY <1>1, <1>2 DEF EndGrab, TypeInv, PainterTypeOK
<1>4. NoGrab \in Grabs
  BY DEF NoGrab, Grabs
<1>5. ClientTypeOK'
  BY <1>1, <1>4 DEF EndGrab, TypeInv, ClientTypeOK
<1>6. DrmInv'
  BY <1>1, DrmSame DEF EndGrab, TypeInv
<1>7. HistoryTypeOK'
  <2>1. grab[c].owed \subseteq Pixels /\ unseen \subseteq Pixels /\ dropped \subseteq Pixels
    BY DEF TypeInv, ClientTypeOK, HistoryTypeOK, Grabs
  <2>2. unseen' \subseteq Pixels /\ dropped' \subseteq Pixels
    BY <2>1 DEF GrabCopies, GrabFails, history
  <2> QED BY <1>1, <2>2 DEF EndGrab, TypeInv, HistoryTypeOK
<1> QED BY <1>3, <1>5, <1>6, <1>7 DEF TypeInv

LEMMA CommitStartType ==
    \A f \in Fbs \cup {NoFb}, active \in BOOLEAN : TypeInv /\ Commit(f, active) => TypeInv'
<1> SUFFICES ASSUME NEW f \in Fbs \cup {NoFb}, NEW active \in BOOLEAN, TypeInv, Commit(f, active)
             PROVE  TypeInv'
  OBVIOUS
<1>1. StartCommit(f, active) /\ (active => f \in Fbs)
  BY DEF Commit
<1>2. needs_full_modeset \in BOOLEAN
  BY DEF TypeInv, PainterTypeOK
<1>3. /\ crtc' \in [fb : Fbs \cup {NoFb}, active : BOOLEAN]
      /\ commit' \in Commits /\ CommitShape'
  BY <1>1, <1>2, StartCommitType DEF TypeInv
<1>4. DrmInv'
  BY <1>3 DEF Commit, TypeInv, DrmInv, DrmTypeOK
<1>5. PainterTypeOK' /\ ClientTypeOK' /\ HistoryTypeOK'
  BY PainterSame, ClientSame, HistorySame DEF Commit, TypeInv
<1> QED BY <1>4, <1>5 DEF TypeInv

LEMMA CommitStepType == TypeInv /\ CommitStep => TypeInv'
<1> SUFFICES ASSUME TypeInv, CommitStep PROVE TypeInv'
  OBVIOUS
<1>0. PainterTypeOK /\ ClientTypeOK /\ DrmInv /\ HistoryTypeOK /\ DrmTypeOK /\ CommitShape
  BY DEF TypeInv, DrmInv
<1>1. CASE PlaneUpdate
  <2>1. commit.fb \in Fbs
    BY <1>0, <1>1 DEF PlaneUpdate, At, CommitShape
  <2>2. DrmInv'
    BY <1>0, <1>1, <2>1, GotoType DEF PlaneUpdate
  <2> QED BY <1>0, <1>1, <2>2, PainterSame, ClientSame, HistorySame DEF PlaneUpdate, TypeInv
<1>2. CASE SetScanout
  <2>1. commit.fb \in Fbs
    BY <1>0, <1>2 DEF SetScanout, At, CommitShape
  <2>2. DrmInv'
    BY <1>0, <1>2, <2>1, GotoType DEF SetScanout
  <2>3. refs' \in [Fbs -> Int]
    BY <1>0, <1>2 DEF SetScanout, PainterTypeOK, Get, Put
  <2>4. PainterTypeOK'
    BY <1>0, <1>2, <2>1, <2>3 DEF SetScanout, PainterTypeOK
  <2>5. Screen(commit.fb) \subseteq Pixels
    BY DEF Screen, PixelsOf
  <2>6. HistoryTypeOK'
    BY <1>0, <1>2, <2>5 DEF SetScanout, HistoryTypeOK
  <2> QED BY <1>0, <1>2, <2>2, <2>4, <2>6, ClientSame DEF SetScanout, TypeInv
<1>3. CASE CountDirts
  <2>1. commit.fb \in Fbs
    BY <1>0, <1>3 DEF CountDirts, At, CommitShape
  <2>2. DrmInv'
    BY <1>0, <1>3, <2>1, GotoType DEF CountDirts
  <2> QED BY <1>0, <1>3, <2>2, PainterSame, ClientSame, HistorySame DEF CountDirts, TypeInv
<1>4. CASE MarkFull
  <2>1. FullRect(commit.fb) \in ClipRect
    BY <1>0, <1>4, SizeType DEF MarkFull, At, Rect, CommitShape
  <2>2. DrmInv'
    BY <1>0, <1>4, GotoType DEF MarkFull
  <2>3. PainterTypeOK' /\ HistoryTypeOK'
    BY <1>0, <1>4, <2>1, MarkStepType DEF MarkFull
  <2> QED BY <1>0, <1>4, <2>2, <2>3, ClientSame DEF MarkFull, TypeInv
<1>5. CASE Flush
  <2>1. CASE commit.mode_changed /\ crtc.active /\ scanout_fb # NoFb
    BY <1>0, <1>5, <2>1, GotoType, PainterSame, ClientSame, HistorySame DEF Flush, TypeInv
  <2>2. CASE ~ (commit.mode_changed /\ crtc.active /\ scanout_fb # NoFb)
    BY <1>0, <1>5, <2>2, GotoType, PainterSame, ClientSame, HistorySame DEF Flush, TypeInv
  <2> QED BY <2>1, <2>2
<1>6. CASE SendModeChanged
  <2>1. commit.fb \in Fbs
    BY <1>0, <1>6 DEF SendModeChanged, At, CommitShape
  <2>2. ModeChanged(commit.fb) \in Event
    BY <2>1 DEF Event
  <2>3. ClientTypeOK'
    BY <1>0, <1>6, <2>2, SendType DEF SendModeChanged
  <2>4. DrmInv'
    BY <1>0, <1>6, GotoType DEF SendModeChanged
  <2>5. HistoryTypeOK'
    BY <1>0, <1>6, <2>1 DEF SendModeChanged, HistoryTypeOK, history
  <2> QED BY <1>0, <1>6, <2>3, <2>4, <2>5, PainterSame DEF SendModeChanged, TypeInv
<1>7. CASE FullModesetDone
  <2>1. PainterTypeOK'
    BY <1>0, <1>7 DEF FullModesetDone, PainterTypeOK
  <2>2. DrmInv'
    BY <1>0, <1>7, GotoType DEF FullModesetDone
  <2> QED BY <1>0, <1>7, <2>1, <2>2, ClientSame, HistorySame DEF FullModesetDone, TypeInv
<1>8. CASE EndCommit
  <2>1. PainterTypeOK' /\ ClientTypeOK' /\ HistoryTypeOK'
    BY <1>0, <1>8, SendReadyType DEF EndCommit
  <2>2. IdleCommit \in Commits /\ IdleCommit.pc = "idle" /\ ~ IdleCommit.mode_changed
    BY DEF IdleCommit, Commits
  <2>3. DrmInv'
    BY <1>0, <1>8, <2>2 DEF EndCommit, DrmInv, DrmTypeOK, CommitShape
  <2> QED BY <2>1, <2>3 DEF TypeInv
<1> QED BY <1>1, <1>2, <1>3, <1>4, <1>5, <1>6, <1>7, <1>8 DEF CommitStep

LEMMA CursorType == TypeInv /\ (CursorChange \/ CursorStep) => TypeInv'
<1> SUFFICES ASSUME TypeInv, CursorChange \/ CursorStep PROVE TypeInv'
  OBVIOUS
<1>0. PainterTypeOK /\ ClientTypeOK /\ DrmInv /\ HistoryTypeOK /\ DrmTypeOK /\ CommitShape
  BY DEF TypeInv, DrmInv
<1>1. ASSUME cursor' \in [pc : {"idle", "mark", "ready"}, rect : Rect],
             UNCHANGED <<crtc, commit, dirtyfb>>
      PROVE  DrmInv'
  BY <1>0, <1>1 DEF DrmInv, DrmTypeOK, CommitShape
<1>2. CASE CursorChange
  <2>1. framebuffer_size \in Rect
    BY <1>0, SizeType, NoRectType DEF framebuffer_size, PainterTypeOK
  <2> QED BY <1>0, <1>1, <1>2, <2>1, PainterSame, ClientSame, HistorySame
          DEF CursorChange, TypeInv
<1>3. CASE CursorMark
  <2>1. cursor.rect \in ClipRect
    BY <1>0 DEF DrmTypeOK, Rect
  <2>2. PainterTypeOK' /\ HistoryTypeOK'
    BY <1>0, <1>3, <2>1, MarkStepType DEF CursorMark
  <2>3. DrmInv'
    BY <1>1, <1>3, NoRectType DEF CursorMark
  <2> QED BY <1>0, <1>3, <2>2, <2>3, ClientSame DEF CursorMark, TypeInv
<1>4. CASE EndCursor
  <2>1. PainterTypeOK' /\ ClientTypeOK' /\ HistoryTypeOK'
    BY <1>0, <1>4, SendReadyType DEF EndCursor
  <2>2. DrmInv'
    BY <1>1, <1>4, NoRectType DEF EndCursor, IdleCursor
  <2> QED BY <2>1, <2>2 DEF TypeInv
<1> QED BY <1>2, <1>3, <1>4 DEF CursorStep

LEMMA DirtyFbType ==
    \A f \in Fbs, clips \in ClipLists : TypeInv /\ DirtyFb(f, clips) => TypeInv'
<1> SUFFICES ASSUME NEW f \in Fbs, NEW clips \in ClipLists, TypeInv, DirtyFb(f, clips)
             PROVE  TypeInv'
  OBVIOUS
<1>1. dirtyfb' \in [fb : Fbs \cup {NoFb}, clips : Seq(ClipRect)]
  BY ClipListsAssumption DEF DirtyFb
<1>2. DrmInv'
  BY <1>1 DEF DirtyFb, TypeInv, DrmInv, DrmTypeOK, CommitShape
<1> QED BY <1>2, PainterSame, ClientSame, HistorySame DEF DirtyFb, TypeInv

LEMMA DirtyFbStepType == TypeInv /\ DirtyFbStep => TypeInv'
<1> SUFFICES ASSUME TypeInv, DirtyFbStep PROVE TypeInv'
  OBVIOUS
<1>0. PainterTypeOK /\ ClientTypeOK /\ DrmInv /\ HistoryTypeOK /\ DrmTypeOK /\ CommitShape
  BY DEF TypeInv, DrmInv
<1>1. CASE DirtyFbMark
  <2>1. Head(dirtyfb.clips) \in ClipRect /\ Tail(dirtyfb.clips) \in Seq(ClipRect)
    BY <1>0, <1>1 DEF DirtyFbMark, DrmTypeOK
  <2>2. dirtyfb' \in [fb : Fbs \cup {NoFb}, clips : Seq(ClipRect)]
    BY <1>0, <1>1, <2>1 DEF DirtyFbMark, DrmTypeOK
  <2>3. DrmInv'
    BY <1>0, <1>1, <2>2 DEF DirtyFbMark, DrmInv, DrmTypeOK, CommitShape
  <2>4. PainterTypeOK' /\ HistoryTypeOK'
    BY <1>0, <1>1, <2>1, MarkStepType DEF DirtyFbMark
  <2> QED BY <1>0, <1>1, <2>3, <2>4, ClientSame DEF DirtyFbMark, TypeInv
<1>2. CASE DirtyFbCommit
  <2>1. dirtyfb' \in [fb : Fbs \cup {NoFb}, clips : Seq(ClipRect)]
    BY <1>2 DEF DirtyFbCommit, IdleDirtyFb
  <2>2. StartCommit(crtc.fb, crtc.active)
    BY <1>2 DEF DirtyFbCommit
  <2>3. /\ crtc.fb \in Fbs \cup {NoFb} /\ crtc.active \in BOOLEAN
        /\ crtc.active => crtc.fb \in Fbs
    BY <1>0 DEF DrmTypeOK, CommitShape
  <2>4. needs_full_modeset \in BOOLEAN
    BY <1>0 DEF PainterTypeOK
  <2>5. /\ crtc' \in [fb : Fbs \cup {NoFb}, active : BOOLEAN]
        /\ commit' \in Commits /\ CommitShape'
    BY <1>0, <2>2, <2>3, <2>4, StartCommitType
  <2>6. DrmInv'
    BY <1>0, <1>2, <2>1, <2>5 DEF DirtyFbCommit, DrmInv, DrmTypeOK
  <2> QED BY <1>0, <1>2, <2>6, PainterSame, ClientSame, HistorySame DEF DirtyFbCommit, TypeInv
<1>3. CASE DirtyFbNoCommit
  <2>1. dirtyfb' \in [fb : Fbs \cup {NoFb}, clips : Seq(ClipRect)]
    BY <1>3 DEF DirtyFbNoCommit, IdleDirtyFb
  <2>2. DrmInv'
    BY <1>0, <1>3, <2>1 DEF DirtyFbNoCommit, DrmInv, DrmTypeOK, CommitShape
  <2> QED BY <1>0, <1>3, <2>2, PainterSame, ClientSame, HistorySame DEF DirtyFbNoCommit, TypeInv
<1> QED BY <1>1, <1>2, <1>3 DEF DirtyFbStep

LEMMA NextType == TypeInv /\ [Next]_vars => TypeInv'
<1> SUFFICES ASSUME TypeInv, [Next]_vars PROVE TypeInv'
  OBVIOUS
<1>1. ASSUME NEW c \in Clients, ClientStep(c) PROVE TypeInv'
  BY <1>1, ConnectType, LeaveType, RequestType, ReadType, GrabLockedType, EndGrabType
     DEF ClientStep
<1>2. CASE CompositorStep
  BY <1>2, CommitStartType, CursorType, DirtyFbType, CommitStepType, DirtyFbStepType
     DEF CompositorStep
<1>3. CASE UNCHANGED vars
  BY <1>3, PainterSame, ClientSame, DrmSame, HistorySame DEF vars, TypeInv
<1> QED BY <1>1, <1>2, <1>3 DEF Next

\* Types, and the bound of the array of dirty rectangles.
THEOREM Typing == Spec => []TypeOK
<1>1. TypeInv => TypeOK BY DEF TypeInv, TypeOK, DrmInv
<1> QED BY <1>1, InitType, NextType, PTL DEF Spec

=============================================================================
