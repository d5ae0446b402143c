---------------------------- MODULE EvdiPainter ----------------------------
(***************************************************************************)
(* The painter of an evdi device (src/evdi/module/evdi_painter.c) with the *)
(* threads that use it:                                                    *)
(*   - clients of the device node, which connect a virtual monitor, ask    *)
(*     for updates and grab pixels through ioctls;                         *)
(*   - the compositor's atomic commits (evdi_modeset.c), one at a time;    *)
(*   - its cursor ioctl (evdi_modeset.c), which holds the CRTC's lock: no  *)
(*     commit starts meanwhile, but one that is under way in its worker,   *)
(*     without that lock, goes on;                                         *)
(*   - its dirtyfb ioctl (evdi_fb.c), whose clip rectangles are marked     *)
(*     before it takes any of DRM's modeset locks.                         *)
(* A locked section of the painter's mutex is one step; what the code does *)
(* outside the mutex is a step of its own, so that everything may happen   *)
(* in between.                                                             *)
(***************************************************************************)
EXTENDS EvdiRects, FiniteSets

CONSTANTS
    Clients,            \* processes that open the device node
    NoClient,
    Fbs,                \* framebuffers of the compositor
    NoFb,
    Size,               \* Size[f]: <<width, height>> of framebuffer f
    MAX_DIRTS,          \* capacity of dirty_rects (16)
    ClipLists,          \* the clip lists the compositor passes to dirtyfb
    Env,                \* what the surroundings may do, see EnvAssumption
    MaxConnects,        \* bound: connect ioctls in a behaviour
    MaxEvents,          \* bound: a commit starts only if no queue is longer
    merge_dirty_rects(_),
    collapse_dirty_rects(_)

ASSUME ClientsAssumption == NoClient \notin Clients
ASSUME FiniteClientsAssumption == IsFiniteSet(Clients)
ASSUME FbsAssumption ==
    /\ NoFb \notin Fbs
    /\ Size \in [Fbs -> Coord \X Coord]
ASSUME MaxDirtsAssumption == MAX_DIRTS \in Nat /\ MAX_DIRTS >= 2
ASSUME ClipListsAssumption == ClipLists \subseteq Seq(ClipRect)
\* "atomic": the compositor may change the mode of a screen that DPMS has off,
\* which legacy modesetting never does; "no monitor": it may turn a screen on that
\* reports no monitor; "no memory": the scanout buffer cannot always be mapped.
ASSUME EnvAssumption == Env \subseteq {"atomic", "no monitor", "no memory"}
ASSUME BoundsAssumption == MaxConnects \in Nat /\ MaxEvents \in Nat

\* What EvdiDirtListProofs shows of merge_rects and collapse_rects.
ASSUME MergeAssumption ==
    \A rects \in DirtLists(MAX_DIRTS) : Compacts(rects, merge_dirty_rects(rects))
ASSUME CollapseAssumption ==
    \A rects \in DirtLists(MAX_DIRTS) \ {<<>>} :
        /\ Compacts(rects, collapse_dirty_rects(rects))
        /\ Len(collapse_dirty_rects(rects)) = 1

VARIABLES
    drm_filp,               \* the connected client (is_connected: it is not NoClient)
    scanout_fb,             \* the framebuffer grabs copy from
    dirty_rects,            \* the dirty rectangles; num_dirts is its length
    was_update_requested,
    needs_full_modeset,
    refs,                   \* references the painter holds, per framebuffer
    events,                 \* per client: the event list of its drm_file
    client,                 \* per client: where it is in its protocol
    bufsize,                \* per client: size of the buffers it registered
    grab,                   \* per client: the grab it is in, after the unlock
    crtc,                   \* DRM's state: the plane's framebuffer, CRTC active
    commit,                 \* the commit that is under way
    cursor,                 \* the cursor ioctl: the rectangle it is to mark
    dirtyfb,                \* the dirtyfb ioctl: framebuffer and clips left
    connects,               \* connect ioctls so far
    unseen,                 \* history: damaged pixels no grab has delivered yet
    dropped,                \* history: those of them a failed grab has forgotten
    announced               \* history: the framebuffer whose mode drm_filp was told

painterVars == <<drm_filp, scanout_fb, dirty_rects, was_update_requested,
                 needs_full_modeset, refs>>
clientVars  == <<events, client, bufsize, grab, connects>>
drmVars     == <<crtc, commit, cursor, dirtyfb>>
history     == <<unseen, dropped>>
vars == <<painterVars, clientVars, drmVars, history, announced>>

UpdateReady == [type |-> "update_ready", fb |-> NoFb]
ModeChanged(f) == [type |-> "mode_changed", fb |-> f]   \* the mode of f's size
Event == {UpdateReady} \cup {ModeChanged(f) : f \in Fbs}

NoGrab == [fb |-> NoFb, rects |-> <<>>, owed |-> {}]
IdleCommit == [pc |-> "idle", fb |-> NoFb, old |-> NoFb, mode_changed |-> FALSE]
NoRect == [x1 |-> 0, y1 |-> 0, x2 |-> 0, y2 |-> 0]
IdleCursor == [pc |-> "idle", rect |-> NoRect]
IdleDirtyFb == [fb |-> NoFb, clips |-> <<>>]

Init ==
    /\ drm_filp = NoClient /\ scanout_fb = NoFb
    /\ dirty_rects = <<>>
    /\ was_update_requested = FALSE
    /\ needs_full_modeset = TRUE            \* evdi_painter_init
    /\ refs = [f \in Fbs |-> 0]
    /\ events = [c \in Clients |-> <<>>]
    /\ client = [c \in Clients |-> "closed"]
    /\ bufsize \in [Clients -> {Size[f] : f \in Fbs}]
    /\ grab = [c \in Clients |-> NoGrab]
    /\ crtc = [fb |-> NoFb, active |-> FALSE]
    /\ commit = IdleCommit
    /\ cursor = IdleCursor
    /\ dirtyfb = IdleDirtyFb
    /\ connects = 0
    /\ unseen = {} /\ dropped = {}
    /\ announced = NoFb

-----------------------------------------------------------------------------
(* Pixels.                                                                 *)

Width(f) == Size[f][1]
Height(f) == Size[f][2]
FullRect(f) == [x1 |-> 0, y1 |-> 0, x2 |-> Width(f), y2 |-> Height(f)]

Pixels == Coord \X Coord
PixelsOf(r) == {p \in Pixels : Covers(r, p[1], p[2])}
PixelsIn(rects) == {p \in Pixels : ListCovers(rects, p[1], p[2])}
Screen(f) == PixelsOf(FullRect(f))

\* the pixels of f inside a rectangle whose corners may come in any order
Damage(f, r) ==
    {p \in Screen(f) : /\ Lo(r.x1, r.x2) <= p[1] /\ p[1] < Hi(r.x1, r.x2)
                       /\ Lo(r.y1, r.y2) <= p[2] /\ p[2] < Hi(r.y1, r.y2)}

-----------------------------------------------------------------------------
(* Locked sections several threads run.                                    *)

\* Mutant of RoomForOne: a list that does not merge is not collapsed.
RoomForOneByMerging(rects) ==
    IF Len(rects) = MAX_DIRTS THEN merge_dirty_rects(rects) ELSE rects

RoomForOne(rects) ==
    LET merged == IF Len(rects) = MAX_DIRTS THEN merge_dirty_rects(rects) ELSE rects
    IN  IF Len(merged) = MAX_DIRTS THEN collapse_dirty_rects(merged) ELSE merged

\* evdi_painter_mark_dirty
MarkDirty(r) ==
    IF scanout_fb = NoFb
    THEN UNCHANGED <<dirty_rects, history>>
    ELSE /\ dirty_rects' = Append(RoomForOne(dirty_rects),
                                  sanitize_rect(Width(scanout_fb), Height(scanout_fb), r))
         /\ unseen' = unseen \cup Damage(scanout_fb, r)
         /\ dropped' = dropped \ Damage(scanout_fb, r)

\* evdi_painter_send_event: to the client that is connected, if any
Send(event) ==
    events' = [c \in Clients |-> IF c = drm_filp THEN Append(events[c], event)
                                                 ELSE events[c]]

Get(count, f) == [g \in Fbs |-> IF g = f THEN count[g] + 1 ELSE count[g]]
Put(count, f) == [g \in Fbs |-> IF g = f THEN count[g] - 1 ELSE count[g]]

\* Mutant of SendUpdateReadyIfNeeded: was_update_requested is not reset.
SendUpdateReadyAgain ==
    /\ IF was_update_requested THEN Send(UpdateReady) ELSE UNCHANGED events
    /\ UNCHANGED <<painterVars, client, bufsize, grab, connects, history, announced>>

\* Mutant of SendUpdateReadyIfNeeded: nothing is sent behind an unread event.
SendUpdateReadyIfEmpty ==
    /\ IF was_update_requested /\ \E c \in Clients : c = drm_filp /\ events[c] = <<>>
       THEN Send(UpdateReady) ELSE UNCHANGED events
    /\ was_update_requested' = FALSE
    /\ UNCHANGED <<drm_filp, scanout_fb, dirty_rects, needs_full_modeset, refs,
                   client, bufsize, grab, connects, history, announced>>

\* evdi_painter_send_update_ready_if_needed
SendUpdateReadyIfNeeded ==
    /\ IF was_update_requested THEN Send(UpdateReady) ELSE UNCHANGED events
    /\ was_update_requested' = FALSE
    /\ UNCHANGED <<drm_filp, scanout_fb, dirty_rects, needs_full_modeset, refs,
                   client, bufsize, grab, connects, history, announced>>

-----------------------------------------------------------------------------
(* The clients.                                                            *)

\* evdi_painter_connect: whoever was connected is replaced.  dirty_rects and
\* was_update_requested stay as they are.  A client connects a file it has just
\* opened; the driver would also take one that has disconnected, or is connected.
Connect(c) ==
    /\ client[c] = "closed"
    /\ connects < MaxConnects /\ connects' = connects + 1
    /\ drm_filp' = c
    /\ needs_full_modeset' = TRUE
    /\ announced' = NoFb
    /\ client' = [client EXCEPT ![c] = "idle"]
    /\ UNCHANGED <<scanout_fb, dirty_rects, was_update_requested, refs,
                   events, bufsize, grab, drmVars, history>>

\* Mutant of DisconnectFile: the scanout buffer's reference is not dropped.
DisconnectFileKeepsRef(c) ==
    IF c = drm_filp
    THEN /\ scanout_fb' = NoFb
         /\ drm_filp' = NoClient
         /\ was_update_requested' = FALSE
         /\ unseen' = {} /\ dropped' = {}
         /\ UNCHANGED <<dirty_rects, needs_full_modeset, refs>>
    ELSE UNCHANGED <<painterVars, history>>

\* evdi_painter_disconnect: -EFAULT, and nothing happens, for any other file.
\* The dirty rectangles stay.
DisconnectFile(c) ==
    IF c = drm_filp
    THEN /\ refs' = Put(refs, scanout_fb)
         /\ scanout_fb' = NoFb
         /\ drm_filp' = NoClient
         /\ was_update_requested' = FALSE
         /\ unseen' = {} /\ dropped' = {}
         /\ UNCHANGED <<dirty_rects, needs_full_modeset>>
    ELSE UNCHANGED <<painterVars, history>>

NotInIoctl(c) == client[c] \in {"idle", "waiting", "ready"}

\* evdi_disconnect
Disconnect(c) ==
    /\ NotInIoctl(c)
    /\ DisconnectFile(c)
    /\ client' = [client EXCEPT ![c] = "left"]
    /\ UNCHANGED <<events, bufsize, grab, connects, drmVars, announced>>

\* The file is closed, by the client or because it died: evdi_driver_preclose
\* and postclose disconnect, DRM frees the events nobody read.
Close(c) ==
    /\ NotInIoctl(c) \/ client[c] = "left"
    /\ DisconnectFile(c)
    /\ client' = [client EXCEPT ![c] = "closed"]
    /\ events' = [events EXCEPT ![c] = <<>>]
    /\ UNCHANGED <<bufsize, grab, connects, drmVars, announced>>

ReadyAtOnce == ~ was_update_requested /\ dirty_rects # <<>>

\* Mutant of RequestUpdate: the request is not recorded.
RequestUpdateForgets(c) ==
    /\ client[c] = "idle"
    /\ client' = [client EXCEPT ![c] = IF ReadyAtOnce THEN "ready" ELSE "waiting"]
    /\ UNCHANGED <<painterVars, events, bufsize, grab, connects, drmVars, history, announced>>

\* evdi_painter_request_update_ioctl
RequestUpdate(c) ==
    /\ client[c] = "idle"
    /\ client' = [client EXCEPT ![c] = IF ReadyAtOnce THEN "ready" ELSE "waiting"]
    /\ was_update_requested' = ~ ReadyAtOnce
    /\ UNCHANGED <<drm_filp, scanout_fb, dirty_rects, needs_full_modeset, refs,
                   events, bufsize, grab, connects, drmVars, history, announced>>

\* evdi_handle_events reads all pending events: on mode_changed the client
\* registers buffers of the new size, on update_ready it stops waiting.
ReadEvents(c) ==
    LET modes == {i \in DOMAIN events[c] : events[c][i].type = "mode_changed"}
    IN  /\ NotInIoctl(c) /\ events[c] # <<>>
        /\ \/ modes = {} /\ UNCHANGED bufsize
           \/ \E i \in modes :
                 /\ \A j \in modes : j <= i
                 /\ bufsize' = [bufsize EXCEPT ![c] = Size[events[c][i].fb]]
        /\ client' = [client EXCEPT ![c] =
                         IF @ = "waiting" /\ Contains(events[c], UpdateReady)
                         THEN "ready" ELSE @]
        /\ events' = [events EXCEPT ![c] = <<>>]
        /\ UNCHANGED <<painterVars, grab, connects, drmVars, history, announced>>

\* evdi_painter_grabpix_ioctl up to the unlock.  libevdi always has room for
\* MAX_DIRTS rectangles, so nothing is collapsed here.
GrabLocked(c) ==
    LET rects == merge_dirty_rects(dirty_rects)
        owed == unseen \cap PixelsIn(rects)
    IN  /\ client[c] = "ready"
        /\ IF scanout_fb = NoFb
           THEN /\ dirty_rects' = rects
                /\ client' = [client EXCEPT ![c] = "idle"]      \* -EAGAIN
                /\ UNCHANGED <<refs, grab, history>>
           ELSE /\ dirty_rects' = <<>>
                /\ client' = [client EXCEPT ![c] = "grabbing"]
                /\ refs' = Get(refs, scanout_fb)
                /\ grab' = [grab EXCEPT ![c] =
                               [fb |-> scanout_fb, rects |-> rects, owed |-> owed]]
                /\ unseen' = unseen \ owed
                /\ dropped' = dropped \ owed
        /\ UNCHANGED <<drm_filp, scanout_fb, was_update_requested, needs_full_modeset,
                       events, bufsize, connects, drmVars, announced>>

\* The buffer has the framebuffer's size (-EINVAL otherwise) and no rectangle
\* is larger (-EFAULT: "rect size may correspond to previous resolution").
CopyFits(c) ==
    /\ bufsize[c] = Size[grab[c].fb]
    /\ \A i \in DOMAIN grab[c].rects : /\ grab[c].rects[i].x2 <= bufsize[c][1]
                                       /\ grab[c].rects[i].y2 <= bufsize[c][2]

EndGrab(c) == /\ client' = [client EXCEPT ![c] = "idle"]
              /\ refs' = Put(refs, grab[c].fb)
              /\ grab' = [grab EXCEPT ![c] = NoGrab]
              /\ UNCHANGED <<drm_filp, scanout_fb, dirty_rects, was_update_requested,
                             needs_full_modeset, events, bufsize, connects, drmVars, announced>>

\* The pixels reach the client's buffer.
GrabCopies(c) ==
    /\ client[c] = "grabbing" /\ CopyFits(c)
    /\ EndGrab(c)
    /\ UNCHANGED history

\* They do not, because of their sizes or because the framebuffer cannot be
\* mapped: the rectangles are gone, though the client has not seen the pixels.
GrabFails(c) ==
    /\ client[c] = "grabbing"
    /\ ~ CopyFits(c) \/ "no memory" \in Env
    /\ EndGrab(c)
    /\ IF grab[c].fb = scanout_fb
       THEN /\ dropped' = dropped \cup (grab[c].owed \ unseen)
            /\ unseen' = unseen \cup grab[c].owed
       ELSE UNCHANGED history

ClientStep(c) ==
    \/ Connect(c) \/ Disconnect(c) \/ Close(c)
    \/ RequestUpdate(c) \/ ReadEvents(c)
    \/ GrabLocked(c) \/ GrabCopies(c) \/ GrabFails(c)

-----------------------------------------------------------------------------
(* The compositor: atomic commits, cursor changes, dirtyfb.                *)

At(step) == commit.pc = step
Goto(step) == commit' = [commit EXCEPT !.pc = step]

\* Mutant of StartCommit: a change of size alone is not a mode change.
StartCommitSameMode(f, active) ==
    /\ At("idle") /\ cursor = IdleCursor
    /\ \A c \in Clients : Len(events[c]) <= MaxEvents
    /\ crtc' = [fb |-> f, active |-> active]
    /\ commit' = [pc |-> IF f = NoFb THEN "flush" ELSE "plane",
                  fb |-> f,
                  old |-> crtc.fb,
                  mode_changed |-> needs_full_modeset \/ (f = NoFb) # (crtc.fb = NoFb)]

\* evdi_atomic_check, under the CRTC's lock, then DRM swaps in the new state: f is
\* shown, or nothing
StartCommit(f, active) ==
    /\ At("idle") /\ cursor = IdleCursor
    /\ \A c \in Clients : Len(events[c]) <= MaxEvents
    /\ crtc' = [fb |-> f, active |-> active]
    /\ commit' = [pc |-> IF f = NoFb THEN "flush" ELSE "plane",
                  fb |-> f,
                  old |-> crtc.fb,
                  mode_changed |->
                      \/ needs_full_modeset
                      \/ (f = NoFb) # (crtc.fb = NoFb)
                      \/ f # NoFb /\ crtc.fb # NoFb /\ Size[f] # Size[crtc.fb]]

Commit(f, active) ==
    /\ active => f # NoFb
    /\ "atomic" \in Env \/ active \/ f \in {NoFb, crtc.fb}
    /\ "no monitor" \in Env \/ drm_filp # NoClient \/ f = NoFb \/ crtc.fb # NoFb
    /\ StartCommit(f, active)
    /\ UNCHANGED <<painterVars, clientVars, cursor, dirtyfb, history, announced>>

\* Mutant of PlaneUpdate: another framebuffer of a plane in use is not set.
PlaneUpdateOnEnable ==
    /\ At("plane")
    /\ Goto(IF commit.old = NoFb \/ needs_full_modeset THEN "set" ELSE "count")
    /\ UNCHANGED <<painterVars, clientVars, crtc, cursor, dirtyfb, history, announced>>

\* evdi_plane_atomic_update: needs_full_modeset is read without the lock
PlaneUpdate ==
    /\ At("plane")
    /\ Goto(IF commit.fb # commit.old \/ needs_full_modeset THEN "set" ELSE "count")
    /\ UNCHANGED <<painterVars, clientVars, crtc, cursor, dirtyfb, history, announced>>

\* Mutant of SetScanout: the full mark is skipped when something is dirty.
SetScanoutTrustsDirt ==
    /\ At("set")
    /\ refs' = Put(Get(refs, commit.fb), scanout_fb)
    /\ scanout_fb' = commit.fb
    /\ unseen' = Screen(commit.fb) /\ dropped' = {}
    /\ Goto(IF dirty_rects = <<>> THEN "mark" ELSE "flush")
    /\ UNCHANGED <<drm_filp, dirty_rects, was_update_requested, needs_full_modeset,
                   clientVars, crtc, cursor, dirtyfb, announced>>

\* evdi_painter_set_scanout_buffer: everything on the new one is to be shown
SetScanout ==
    /\ At("set")
    /\ refs' = Put(Get(refs, commit.fb), scanout_fb)
    /\ scanout_fb' = commit.fb
    /\ unseen' = Screen(commit.fb) /\ dropped' = {}
    /\ Goto("mark")
    /\ UNCHANGED <<drm_filp, dirty_rects, was_update_requested, needs_full_modeset,
                   clientVars, crtc, cursor, dirtyfb, announced>>

\* evdi_painter_get_num_dirts: a commit without damage repaints everything
CountDirts ==
    /\ At("count")
    /\ Goto(IF dirty_rects = <<>> THEN "mark" ELSE "flush")
    /\ UNCHANGED <<painterVars, clientVars, crtc, cursor, dirtyfb, history, announced>>

MarkFull ==
    /\ At("mark")
    /\ MarkDirty(FullRect(commit.fb))
    /\ Goto("flush")
    /\ UNCHANGED <<drm_filp, scanout_fb, was_update_requested, needs_full_modeset, refs,
                   clientVars, crtc, cursor, dirtyfb, announced>>

\* evdi_crtc_atomic_flush; evdi_painter_mode_changed_notify gives up, without
\* the lock, when there is no scanout buffer
Flush ==
    /\ At("flush")
    /\ Goto(IF commit.mode_changed /\ crtc.active /\ scanout_fb # NoFb
            THEN "mode" ELSE "ready")
    /\ UNCHANGED <<painterVars, clientVars, crtc, cursor, dirtyfb, history, announced>>

\* evdi_painter_send_mode_changed, without the lock
SendModeChanged ==
    /\ At("mode")
    /\ Send(ModeChanged(commit.fb))
    /\ announced' = IF drm_filp = NoClient THEN NoFb ELSE commit.fb
    /\ Goto("modeset_done")
    /\ UNCHANGED <<painterVars, client, bufsize, grab, connects, crtc, cursor, dirtyfb, history>>

\* the last statement of evdi_painter_mode_changed_notify, without the lock
FullModesetDone ==
    /\ At("modeset_done")
    /\ needs_full_modeset' = FALSE
    /\ Goto("ready")
    /\ UNCHANGED <<drm_filp, scanout_fb, dirty_rects, was_update_requested, refs,
                   clientVars, crtc, cursor, dirtyfb, history, announced>>

\* evdi_crtc_atomic_flush ends with evdi_painter_send_update_ready_if_needed
EndCommit ==
    /\ At("ready")
    /\ SendUpdateReadyIfNeeded
    /\ commit' = IdleCommit
    /\ UNCHANGED <<crtc, cursor, dirtyfb>>

\* evdi_painter_framebuffer_size
framebuffer_size == IF scanout_fb = NoFb THEN NoRect ELSE FullRect(scanout_fb)

\* evdi_crtc_cursor_set and _move with cursor blending: evdi_mark_full_screen_dirty
\* reads the framebuffer's size in one locked section,
CursorChange ==
    /\ cursor = IdleCursor
    /\ cursor' = [pc |-> "mark", rect |-> framebuffer_size]
    /\ UNCHANGED <<painterVars, clientVars, crtc, commit, dirtyfb, history, announced>>

\* marks that rectangle in the next, whatever the scanout buffer is by then,
CursorMark ==
    /\ cursor.pc = "mark"
    /\ MarkDirty(cursor.rect)
    /\ cursor' = [pc |-> "ready", rect |-> NoRect]
    /\ UNCHANGED <<drm_filp, scanout_fb, was_update_requested, needs_full_modeset, refs,
                   clientVars, crtc, commit, dirtyfb, announced>>

\* and sends update_ready in the last.
EndCursor ==
    /\ cursor.pc = "ready"
    /\ SendUpdateReadyIfNeeded
    /\ cursor' = IdleCursor
    /\ UNCHANGED <<crtc, commit, dirtyfb>>

\* evdi_user_framebuffer_dirty, when it can allocate (before that it changes nothing)
DirtyFb(f, clips) ==
    /\ dirtyfb = IdleDirtyFb
    /\ dirtyfb' = [fb |-> f, clips |-> clips]
    /\ UNCHANGED <<painterVars, clientVars, crtc, commit, cursor, history, announced>>

DirtyFbMark ==
    /\ dirtyfb.clips # <<>>
    /\ MarkDirty(Head(dirtyfb.clips))
    /\ dirtyfb' = [dirtyfb EXCEPT !.clips = Tail(@)]
    /\ UNCHANGED <<drm_filp, scanout_fb, was_update_requested, needs_full_modeset, refs,
                   clientVars, crtc, commit, cursor, announced>>

AllMarked == dirtyfb.fb # NoFb /\ dirtyfb.clips = <<>>

\* its commit covers the planes that show the framebuffer
DirtyFbCommit ==
    /\ AllMarked /\ crtc.fb = dirtyfb.fb
    /\ StartCommit(crtc.fb, crtc.active)
    /\ dirtyfb' = IdleDirtyFb
    /\ UNCHANGED <<painterVars, clientVars, cursor, history, announced>>

\* The ioctl ends without one: no plane shows the framebuffer, or it fails (a signal
\* while it waits for a lock, a deadlock it gives way to, no memory, the commit's own
\* error).  The clips stay marked and nobody is told.
DirtyFbNoCommit ==
    /\ AllMarked
    /\ dirtyfb' = IdleDirtyFb
    /\ UNCHANGED <<painterVars, clientVars, crtc, commit, cursor, history, announced>>

\* the threads of the driver carry on
CommitStep == \/ PlaneUpdate \/ SetScanout \/ CountDirts \/ MarkFull \/ Flush
              \/ SendModeChanged \/ FullModesetDone \/ EndCommit

CursorStep == CursorMark \/ EndCursor

DirtyFbStep == DirtyFbMark \/ DirtyFbCommit \/ DirtyFbNoCommit

CompositorStep ==
    \/ \E f \in Fbs, active \in BOOLEAN : Commit(f, active)
    \/ Commit(NoFb, FALSE)
    \/ CursorChange
    \/ \E f \in Fbs, clips \in ClipLists : DirtyFb(f, clips)
    \/ CommitStep
    \/ CursorStep
    \/ DirtyFbStep

Next == \/ \E c \in Clients : ClientStep(c)
        \/ CompositorStep

Spec == Init /\ [][Next]_vars

\* A commit and a cursor ioctl go on once they have started, and so does a client that
\* does not leave: it asks for updates whatever events come in, reads them and grabs.
FairSpec == /\ Spec
            /\ WF_vars(CommitStep) /\ WF_vars(CursorStep)
            /\ \A c \in Clients : /\ WF_vars(RequestUpdate(c)) /\ WF_vars(ReadEvents(c))
                                  /\ WF_vars(GrabLocked(c) \/ GrabCopies(c) \/ GrabFails(c))

-----------------------------------------------------------------------------

PainterTypeOK ==
    /\ drm_filp \in Clients \cup {NoClient}
    /\ scanout_fb \in Fbs \cup {NoFb}
    /\ dirty_rects \in Seq(Rect) /\ Len(dirty_rects) <= MAX_DIRTS
    /\ was_update_requested \in BOOLEAN /\ needs_full_modeset \in BOOLEAN
    /\ refs \in [Fbs -> Int]

Grabs == [fb : Fbs \cup {NoFb}, rects : Seq(Rect), owed : SUBSET Pixels]

ClientTypeOK ==
    /\ events \in [Clients -> Seq(Event)]
    /\ client \in [Clients -> {"closed", "idle", "waiting", "ready", "grabbing", "left"}]
    /\ bufsize \in [Clients -> Coord \X Coord]
    /\ grab \in [Clients -> Grabs]
    /\ connects \in Nat

Commits == [pc : {"idle", "plane", "set", "count", "mark", "flush", "mode", "modeset_done",
                  "ready"},
            fb : Fbs \cup {NoFb}, old : Fbs \cup {NoFb}, mode_changed : BOOLEAN]

DrmTypeOK ==
    /\ crtc \in [fb : Fbs \cup {NoFb}, active : BOOLEAN]
    /\ commit \in Commits
    /\ cursor \in [pc : {"idle", "mark", "ready"}, rect : Rect]
    /\ dirtyfb \in [fb : Fbs \cup {NoFb}, clips : Seq(ClipRect)]

HistoryTypeOK ==
    /\ unseen \subseteq Pixels /\ dropped \subseteq Pixels
    /\ announced \in Fbs \cup {NoFb}

\* Every variable keeps its type; the dirty rectangles fit in their array.
TypeOK == PainterTypeOK /\ ClientTypeOK /\ DrmTypeOK /\ HistoryTypeOK

\* evdi_plane_atomic_update has changed the scanout buffer and is about to mark
\* all of it.
FullMarkPending == IF At("mark") /\ scanout_fb = commit.fb THEN Screen(commit.fb) ELSE {}

\* No damage is forgotten: a pixel that was marked, or that came with a new
\* scanout buffer, is covered by a dirty rectangle until a grab takes it, however
\* often the rectangles are merged and collapsed, and whatever the other threads
\* do between two locked sections: a cursor ioctl may mark the size of a scanout
\* buffer that is gone, beside a commit that is about to mark the new one.  (A grab
\* that fails after it emptied the list does forget its damage: grabpix reports it
\* to nobody.  Those pixels are in dropped.)
DamageKept == unseen \ dropped \subseteq PixelsIn(dirty_rects) \cup FullMarkPending

\* No lost wake-up: a connected client that was told to wait has its request
\* recorded, or the answer in its event queue.
WaiterWillBeWoken ==
    \A c \in Clients : client[c] = "waiting" /\ c = drm_filp =>
        was_update_requested \/ Contains(events[c], UpdateReady)

\* Every drm_framebuffer_get of the painter is matched by one put: it holds a
\* reference for the scanout buffer and one for each grab that is copying.
RefsBalanced ==
    \A f \in Fbs : refs[f] = Cardinality({c \in Clients : grab[c].fb = f})
                            + (IF scanout_fb = f THEN 1 ELSE 0)

\* Between commits, the first client to connect, once its full modeset is done,
\* grabs from the framebuffer the compositor shows.  (After that the flag of
\* mode_changed_notify may be lost, see ModeAnnounced.)
ScanoutFollowsPlane ==
    At("idle") /\ connects = 1 /\ drm_filp # NoClient /\ ~ needs_full_modeset
    /\ crtc.fb # NoFb => scanout_fb = crtc.fb

\* Between commits, a connected client whose full modeset is done has been told
\* the size of the screen that is on.
ModeAnnounced ==
    At("idle") /\ drm_filp # NoClient /\ ~ needs_full_modeset /\ crtc.active =>
        announced # NoFb /\ Size[announced] = Size[crtc.fb]

\* The same, of the first client to connect.
FirstModeAnnounced == connects = 1 => ModeAnnounced

\* what is dirty is going to be announced: the thread that sends update_ready is
\* under way
Announcing == commit # IdleCommit \/ cursor # IdleCursor

\* What is dirty while a commit or a cursor change is under way is grabbed, if the
\* client stays connected: mark, request, event and grab cannot get stuck between
\* threads.  (Clips that dirtyfb marks without a commit wait for the next commit or
\* cursor change, see DirtyFbNoCommit; so does what is dirty when a client connects
\* and finds an older client's request recorded.)
DirtIsGrabbed ==
    \A c \in Clients :
        c = drm_filp /\ dirty_rects # <<>> /\ Announcing ~>
            dirty_rects = <<>> \/ c # drm_filp \/ scanout_fb = NoFb

=============================================================================
