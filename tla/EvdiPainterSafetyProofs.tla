---------------------- MODULE EvdiPainterSafetyProofs ----------------------
(***************************************************************************)
(* What the painter never loses, for any number of clients and whatever    *)
(* the compositor does between the locked sections of request_update,      *)
(* grabpix and a commit: a wake-up, damage, or a reference to a            *)
(* framebuffer, each from TypeInv alone or from an invariant of its own;   *)
(* what the first client to connect is shown and told; and the refinement  *)
(* of EvdiDevice for a client that has the device to itself.               *)
(***************************************************************************)
EXTENDS EvdiPainterProofs, EvdiPainterDevice, FiniteSetTheorems

-----------------------------------------------------------------------------
(* Wake-ups: a connected client that was told to wait finds its request    *)
(* recorded in the painter or the answer in its event queue.               *)


\* client c, if it waits, is still going to hear of its request
Heard(c) == was_update_requested \/ Contains(events[c], UpdateReady)

LEMMA AppendContains ==
    ASSUME NEW s \in Seq(Event), NEW e \in Event
    PROVE  /\ Contains(Append(s, e), e)
           /\ \A f : Contains(s, f) => Contains(Append(s, e), f)
<1>1. /\ Len(Append(s, e)) = Len(s) + 1 /\ Len(s) \in Nat
      /\ Append(s, e)[Len(s) + 1] = e
      /\ \A i \in 1 .. Len(s) : Append(s, e)[i] = s[i]
  OBVIOUS
<1> QED BY <1>1 DEF Contains

\* Sending an event takes no other event out of a queue.
LEMMA SendKeeps ==
    ASSUME ClientTypeOK, NEW event \in Event, Send(event), NEW c \in Clients,
           Contains(events[c], UpdateReady)
    PROVE  Contains(events'[c], UpdateReady)
<1>1. events[c] \in Seq(Event)
  BY DEF ClientTypeOK
<1>2. events'[c] = events[c] \/ events'[c] = Append(events[c], event)
  BY DEF Send
<1> QED BY <1>1, <1>2, AppendContains

\* A step that touches neither what a client waits for nor its state.
LEMMA WaitersSame ==
    WaiterWillBeWoken /\ UNCHANGED <<client, drm_filp, was_update_requested, events>>
        => WaiterWillBeWoken'
BY DEF WaiterWillBeWoken

LEMMA InitWakeUp == Init => WaiterWillBeWoken
BY DEF Init, WaiterWillBeWoken

\* A client's step: only RequestUpdate makes a client wait, only ReadEvents takes
\* events away, and disconnecting cuts off nobody else.
LEMMA ClientWakeUp ==
    ASSUME TypeInv, WaiterWillBeWoken, NEW d \in Clients, ClientStep(d)
    PROVE  WaiterWillBeWoken'
<1> SUFFICES ASSUME NEW c \in Clients, client'[c] = "waiting", c = drm_filp'
             PROVE  Heard(c)'
  BY DEF WaiterWillBeWoken, Heard
<1>0. /\ client \in [Clients -> {"closed", "idle", "waiting", "ready", "grabbing", "left"}]
      /\ events \in [Clients -> Seq(Event)] /\ was_update_requested \in BOOLEAN
  BY DEF TypeInv, ClientTypeOK, PainterTypeOK
<1>1. CASE Connect(d)
  <2>1. c = d /\ client'[d] = "idle"
    BY <1>0, <1>1 DEF Connect
  <2> QED BY <2>1
<1>2. CASE Disconnect(d) \/ Close(d)
  <2>1. DisconnectFile(d) /\ client'[d] # "waiting"
    BY <1>0, <1>2 DEF Disconnect, Close
  <2>2. c # d
    BY <2>1
  <2>3. d # drm_filp
    BY <2>1, ClientsAssumption DEF DisconnectFile
  <2>4. UNCHANGED <<drm_filp, was_update_requested>>
    BY <2>1, <2>3 DEF DisconnectFile, painterVars
  <2>5. client'[c] = client[c] /\ events'[c] = events[c]
    BY <1>0, <1>2, <2>2 DEF Disconnect, Close
  <2> QED BY <2>4, <2>5 DEF WaiterWillBeWoken, Heard
<1>3. CASE RequestUpdate(d)
  <2>1. CASE ReadyAtOnce
    <3>1. client'[d] = "ready" /\ c # d
      BY <1>0, <1>3, <2>1 DEF RequestUpdate
    <3>2. client'[c] = client[c] /\ drm_filp' = drm_filp /\ events' = events
      BY <1>0, <1>3, <3>1 DEF RequestUpdate
    <3>3. was_update_requested = FALSE
      BY <2>1, <1>0 DEF ReadyAtOnce
    <3> QED BY <3>2, <3>3 DEF WaiterWillBeWoken, Heard
  <2>2. CASE ~ ReadyAtOnce
    BY <1>3, <2>2 DEF RequestUpdate, Heard
  <2> QED BY <2>1, <2>2
<1>4. CASE ReadEvents(d)
  <2>1. UNCHANGED <<drm_filp, was_update_requested>>
    BY <1>4 DEF ReadEvents, painterVars
  <2>2. CASE c = d
    <3>1. client[c] = "waiting" /\ ~ Contains(events[c], UpdateReady)
      BY <1>0, <1>4, <2>2 DEF ReadEvents
    <3> QED BY <2>1, <3>1 DEF WaiterWillBeWoken, Heard
  <2>3. CASE c # d
    <3>1. client'[c] = client[c] /\ events'[c] = events[c]
      BY <1>0, <1>4, <2>3 DEF ReadEvents
    <3> QED BY <2>1, <3>1 DEF WaiterWillBeWoken, Heard
  <2> QED BY <2>2, <2>3
<1>5. CASE GrabLocked(d) \/ GrabCopies(d) \/ GrabFails(d)
  <2>1. UNCHANGED <<drm_filp, was_update_requested, events>>
    BY <1>5 DEF GrabLocked, GrabCopies, GrabFails, EndGrab
  <2>2. client'[d] # "waiting"
    BY <1>0, <1>5 DEF GrabLocked, GrabCopies, GrabFails, EndGrab
  <2>3. client'[c] = client[c]
    BY <1>0, <1>5, <2>2 DEF GrabLocked, GrabCopies, GrabFails, EndGrab
  <2> QED BY <2>1, <2>3 DEF WaiterWillBeWoken, Heard
<1> QED BY <1>1, <1>2, <1>3, <1>4, <1>5 DEF ClientStep

\* A compositor's step: the request is only taken back when its answer is sent.
LEMMA CompositorWakeUp ==
    ASSUME TypeInv, WaiterWillBeWoken, CompositorStep
    PROVE  WaiterWillBeWoken'
<1>0. ClientTypeOK /\ events \in [Clients -> Seq(Event)]
  BY DEF TypeInv, ClientTypeOK
<1>1. CASE SendModeChanged
  <2>1. commit.fb \in Fbs
    BY <1>1 DEF SendModeChanged, At, TypeInv, DrmInv, CommitShape
  <2>2. ModeChanged(commit.fb) \in Event
    BY <2>1 DEF Event
  <2>3. Send(ModeChanged(commit.fb)) /\ UNCHANGED <<client, drm_filp, was_update_requested>>
    BY <1>1 DEF SendModeChanged, painterVars
  <2> QED BY <1>0, <2>2, <2>3, SendKeeps DEF WaiterWillBeWoken
<1>2. CASE EndCommit \/ EndCursor
  <2>1. SendUpdateReadyIfNeeded /\ UNCHANGED <<client, drm_filp>>
    BY <1>2 DEF EndCommit, EndCursor, SendUpdateReadyIfNeeded
  <2>2. CASE was_update_requested
    <3>1. Send(UpdateReady) /\ UpdateReady \in Event
      BY <2>1, <2>2 DEF SendUpdateReadyIfNeeded, Event
    <3>2. \A c \in Clients : c = drm_filp => Contains(events'[c], UpdateReady)
      BY <1>0, <3>1, AppendContains DEF Send
    <3> QED BY <2>1, <3>2 DEF WaiterWillBeWoken
  <2>3. CASE ~ was_update_requested
    BY <2>1, <2>3 DEF SendUpdateReadyIfNeeded, WaiterWillBeWoken
  <2> QED BY <2>2, <2>3
<1>3. CASE \/ \E f \in Fbs, active \in BOOLEAN : Commit(f, active)
           \/ Commit(NoFb, FALSE) \/ CursorChange
           \/ \E f \in Fbs, clips \in ClipLists : DirtyFb(f, clips)
  BY <1>3, WaitersSame DEF Commit, CursorChange, DirtyFb, painterVars, clientVars
<1>4. CASE \/ PlaneUpdate \/ SetScanout \/ CountDirts \/ MarkFull \/ Flush \/ FullModesetDone
           \/ CursorMark
  BY <1>4, WaitersSame DEF PlaneUpdate, SetScanout, CountDirts, MarkFull, Flush, FullModesetDone,
                           CursorMark, painterVars, clientVars
<1>5. CASE DirtyFbStep
  BY <1>5, WaitersSame DEF DirtyFbStep, DirtyFbMark, DirtyFbCommit, DirtyFbNoCommit, painterVars,
                           clientVars
<1> QED BY <1>1, <1>2, <1>3, <1>4, <1>5 DEF CompositorStep, CommitStep, CursorStep

\* No lost wake-up between request_update, which reads num_dirts and sets
\* was_update_requested in one locked section, and the commit, which sends
\* update_ready and clears it in another.
THEOREM NoLostWakeUp == Spec => []WaiterWillBeWoken
<1>1. Init => TypeInv /\ WaiterWillBeWoken
  BY InitType, InitWakeUp
<1>2. TypeInv /\ WaiterWillBeWoken /\ [Next]_vars => (TypeInv /\ WaiterWillBeWoken)'
  <2> SUFFICES ASSUME TypeInv, WaiterWillBeWoken, [Next]_vars
               PROVE  TypeInv' /\ WaiterWillBeWoken'
    OBVIOUS
  <2>1. TypeInv'
    BY NextType
  <2>2. CASE Next
    BY <2>1, <2>2, ClientWakeUp, CompositorWakeUp DEF Next
  <2>3. CASE UNCHANGED vars
    BY <2>1, <2>3, WaitersSame DEF vars, painterVars, clientVars
  <2> QED BY <2>1, <2>2, <2>3
<1> QED BY <1>1, <1>2, PTL DEF Spec

-----------------------------------------------------------------------------
(* Damage: whatever was marked, or came with a new scanout buffer, is      *)
(* covered by a dirty rectangle until a grab takes it.  Rectangles are     *)
(* clamped, merged and collapsed on the way, framebuffers are exchanged,   *)
(* and the full mark of a new scanout buffer is a locked section of its    *)
(* own: FullMarkPending stands for it until it comes.                      *)


\* Marking keeps what was covered and covers the damage.
LEMMA MarkCovers ==
    ASSUME PainterTypeOK, NEW r \in ClipRect, MarkDirty(r), scanout_fb # NoFb
    PROVE  /\ PixelsIn(dirty_rects) \subseteq PixelsIn(dirty_rects')
           /\ Damage(scanout_fb, r) \subseteq PixelsIn(dirty_rects')
           /\ unseen' \ dropped' \subseteq (unseen \ dropped) \cup Damage(scanout_fb, r)
<1> DEFINE rect == sanitize_rect(Width(scanout_fb), Height(scanout_fb), r)
           made == RoomForOne(dirty_rects)
<1>1. scanout_fb \in Fbs /\ dirty_rects \in Seq(Rect) /\ Len(dirty_rects) <= MAX_DIRTS
  BY DEF PainterTypeOK
<1>2. rect \in Rect
  BY <1>1, SizeType, SanitizeType
<1>3. /\ Compacts(dirty_rects, made) /\ made \in Seq(Rect)
      /\ PixelsIn(dirty_rects) \subseteq PixelsIn(made)
  BY <1>1, RoomForOneCompacts, CompactsCovers DEF Compacts
<1>4. /\ dirty_rects' = Append(made, rect)
      /\ unseen' = unseen \cup Damage(scanout_fb, r)
      /\ dropped' = dropped \ Damage(scanout_fb, r)
  BY DEF MarkDirty
<1>5. Damage(scanout_fb, r) \subseteq PixelsOf(rect)
  <2> SUFFICES ASSUME NEW p \in Damage(scanout_fb, r) PROVE p \in PixelsOf(rect)
    OBVIOUS
  <2>1. Covers(rect, p[1], p[2])
    BY <1>1, SanitizeCovers
  <2>2. p \in Pixels
    BY DEF Damage, Screen, PixelsOf
  <2> HIDE DEF rect
  <2> QED BY <2>1, <2>2 DEF PixelsOf
<1> HIDE DEF rect, made
<1>6. /\ PixelsIn(made) \subseteq PixelsIn(dirty_rects')
      /\ PixelsOf(rect) \subseteq PixelsIn(dirty_rects')
  BY <1>2, <1>3, <1>4, AppendCovers
<1> QED BY <1>3, <1>4, <1>5, <1>6

\* A step outside of the full mark that leaves the damage and the list alone.
LEMMA DamageSame ==
    ASSUME DamageKept, UNCHANGED <<unseen, dropped, dirty_rects>>,
           At("mark") => UNCHANGED <<commit, scanout_fb>>
    PROVE  DamageKept'
BY DEF DamageKept, FullMarkPending, At

\* A full mark covers what it is there for.
LEMMA MarkFullDamage ==
    ASSUME TypeInv, DamageKept, MarkFull
    PROVE  DamageKept'
<1>1. /\ PainterTypeOK /\ commit.fb \in Fbs /\ At("mark") /\ MarkDirty(FullRect(commit.fb))
      /\ FullRect(commit.fb) \in ClipRect
  BY SizeType DEF MarkFull, At, TypeInv, DrmInv, CommitShape, Rect
<1>2. unseen \ dropped \subseteq PixelsIn(dirty_rects) \cup FullMarkPending
  BY DEF DamageKept
<1>3. unseen' \ dropped' \subseteq PixelsIn(dirty_rects')
  <2>1. CASE scanout_fb = NoFb
    <3>1. FullMarkPending = {}
      BY <1>1, <2>1, FbsAssumption DEF FullMarkPending
    <3>2. UNCHANGED <<unseen, dropped, dirty_rects>>
      BY <1>1, <2>1 DEF MarkDirty, history
    <3> QED BY <1>2, <3>1, <3>2
  <2>2. CASE scanout_fb # NoFb
    <3>1. /\ PixelsIn(dirty_rects) \subseteq PixelsIn(dirty_rects')
          /\ Damage(scanout_fb, FullRect(commit.fb)) \subseteq PixelsIn(dirty_rects')
          /\ unseen' \ dropped' \subseteq (unseen \ dropped)
                                          \cup Damage(scanout_fb, FullRect(commit.fb))
      BY <1>1, <2>2, MarkCovers
    <3>2. FullMarkPending \subseteq Damage(scanout_fb, FullRect(commit.fb))
      BY <1>1, FullDamage DEF FullMarkPending
    <3> QED BY <1>2, <3>1, <3>2
  <2> QED BY <2>1, <2>2
<1> QED BY <1>3 DEF DamageKept

\* A mark of another thread, beside a commit: whatever its rectangle, stale or empty,
\* it covers the damage it adds.
LEMMA MarkBesideDamage ==
    ASSUME TypeInv, DamageKept, NEW r \in ClipRect, MarkDirty(r), UNCHANGED <<scanout_fb, commit>>
    PROVE  DamageKept'
<1>1. FullMarkPending' = FullMarkPending
  BY DEF FullMarkPending, At
<1>2. CASE scanout_fb = NoFb
  BY <1>1, <1>2 DEF MarkDirty, history, DamageKept
<1>3. CASE scanout_fb # NoFb
  <2>1. /\ PixelsIn(dirty_rects) \subseteq PixelsIn(dirty_rects')
        /\ Damage(scanout_fb, r) \subseteq PixelsIn(dirty_rects')
        /\ unseen' \ dropped' \subseteq (unseen \ dropped) \cup Damage(scanout_fb, r)
    BY <1>3, MarkCovers DEF TypeInv
  <2> QED BY <1>1, <2>1 DEF DamageKept
<1> QED BY <1>2, <1>3

\* A commit.
LEMMA CommitDamage ==
    ASSUME TypeInv, DamageKept, CommitStep
    PROVE  DamageKept'
<1>1. CASE PlaneUpdate \/ CountDirts \/ Flush \/ SendModeChanged \/ FullModesetDone \/ EndCommit
  <2>1. UNCHANGED <<unseen, dropped, dirty_rects>>
    BY <1>1 DEF PlaneUpdate, CountDirts, Flush, SendModeChanged, FullModesetDone, EndCommit,
                SendUpdateReadyIfNeeded, painterVars, history
  <2>2. ~ At("mark")
    BY <1>1 DEF PlaneUpdate, CountDirts, Flush, SendModeChanged, FullModesetDone, EndCommit, At
  <2> QED BY <2>1, <2>2, DamageSame
<1>2. CASE SetScanout
  <2>1. commit' = [commit EXCEPT !.pc = "mark"] /\ commit \in Commits
    BY <1>2 DEF SetScanout, Goto, TypeInv, DrmInv, DrmTypeOK
  <2>2. commit'.pc = "mark" /\ commit'.fb = commit.fb
    BY <2>1 DEF Commits
  <2>3. FullMarkPending' = Screen(commit.fb)
    BY <1>2, <2>2 DEF SetScanout, FullMarkPending, At
  <2> QED BY <1>2, <2>3 DEF SetScanout, DamageKept
<1>3. CASE MarkFull
  BY <1>3, MarkFullDamage
<1> QED BY <1>1, <1>2, <1>3 DEF CommitStep

\* The compositor's other threads.
LEMMA CompositorDamage ==
    ASSUME TypeInv, DamageKept, CompositorStep
    PROVE  DamageKept'
<1>1. CASE CommitStep
  BY <1>1, CommitDamage
<1>2. CASE (\E f \in Fbs, active \in BOOLEAN : Commit(f, active)) \/ Commit(NoFb, FALSE)
           \/ DirtyFbCommit
  <2>1. UNCHANGED <<unseen, dropped, dirty_rects>>
    BY <1>2 DEF Commit, DirtyFbCommit, painterVars, history
  <2>2. ~ At("mark")
    BY <1>2 DEF Commit, DirtyFbCommit, StartCommit, At
  <2> QED BY <2>1, <2>2, DamageSame
<1>3. CASE (\E f \in Fbs, clips \in ClipLists : DirtyFb(f, clips)) \/ DirtyFbNoCommit
           \/ CursorChange \/ EndCursor
  BY <1>3, DamageSame DEF DirtyFb, DirtyFbNoCommit, CursorChange, EndCursor,
                          SendUpdateReadyIfNeeded, painterVars, history
<1>4. CASE DirtyFbMark
  <2>1. Head(dirtyfb.clips) \in ClipRect
    BY <1>4 DEF DirtyFbMark, TypeInv, DrmInv, DrmTypeOK
  <2> QED BY <1>4, <2>1, MarkBesideDamage DEF DirtyFbMark
<1>5. CASE CursorMark
  <2>1. cursor.rect \in ClipRect
    BY DEF TypeInv, DrmInv, DrmTypeOK, Rect
  <2> QED BY <1>5, <2>1, MarkBesideDamage DEF CursorMark
<1> QED BY <1>1, <1>2, <1>3, <1>4, <1>5 DEF CompositorStep, CursorStep, DirtyFbStep

\* A grab takes the pixels it owes, and no others leave the list.
LEMMA GrabDamage ==
    ASSUME TypeInv, DamageKept, NEW c \in Clients, GrabLocked(c)
    PROVE  DamageKept'
<1> DEFINE rects == merge_dirty_rects(dirty_rects)
           owed == unseen \cap PixelsIn(rects)
<1>1. PixelsIn(dirty_rects) \subseteq PixelsIn(rects)
  BY MergeCompacts, CompactsCovers DEF TypeInv, PainterTypeOK
<1>2. FullMarkPending' = FullMarkPending
  BY DEF GrabLocked, FullMarkPending, At, drmVars
<1>3. unseen \ dropped \subseteq PixelsIn(dirty_rects) \cup FullMarkPending
  BY DEF DamageKept
<1>4. CASE scanout_fb = NoFb
  <2>1. dirty_rects' = rects /\ UNCHANGED <<unseen, dropped>>
    BY <1>4 DEF GrabLocked, history
  <2> HIDE DEF rects
  <2> QED BY <1>1, <1>2, <1>3, <2>1 DEF DamageKept
<1>5. CASE scanout_fb # NoFb
  <2>1. unseen' = unseen \ owed /\ dropped' = dropped \ owed
    BY <1>5 DEF GrabLocked
  <2>2. unseen' \ dropped' \subseteq FullMarkPending
    <3> HIDE DEF rects
    <3> QED BY <1>1, <1>3, <2>1
  <2> QED BY <1>2, <2>2 DEF DamageKept
<1> QED BY <1>4, <1>5

\* The clients.
LEMMA ClientDamage ==
    ASSUME TypeInv, DamageKept, NEW c \in Clients, ClientStep(c)
    PROVE  DamageKept'
<1>1. CASE Connect(c) \/ RequestUpdate(c) \/ ReadEvents(c) \/ GrabCopies(c)
  BY <1>1, DamageSame DEF Connect, RequestUpdate, ReadEvents, GrabCopies, EndGrab,
                          painterVars, drmVars, history
<1>2. CASE Disconnect(c) \/ Close(c)
  <2>1. DisconnectFile(c) /\ UNCHANGED commit
    BY <1>2 DEF Disconnect, Close, drmVars
  <2>2. CASE c = drm_filp
    BY <2>1, <2>2 DEF DisconnectFile, DamageKept
  <2>3. CASE c # drm_filp
    BY <2>1, <2>3, DamageSame DEF DisconnectFile, painterVars, history
  <2> QED BY <2>2, <2>3
<1>3. CASE GrabLocked(c)
  BY <1>3, GrabDamage
<1>4. CASE GrabFails(c)
  <2>1. /\ UNCHANGED <<dirty_rects, commit, scanout_fb>>
        /\ \/ UNCHANGED <<unseen, dropped>>
           \/ /\ dropped' = dropped \cup (grab[c].owed \ unseen)
              /\ unseen' = unseen \cup grab[c].owed
    BY <1>4 DEF GrabFails, EndGrab, drmVars, history
  <2>2. FullMarkPending' = FullMarkPending
    BY <2>1 DEF FullMarkPending, At
  <2>3. unseen' \ dropped' \subseteq unseen \ dropped
    BY <2>1
  <2> QED BY <2>1, <2>2, <2>3 DEF DamageKept
<1> QED BY <1>1, <1>2, <1>3, <1>4 DEF ClientStep

\* No marked pixel is forgotten by mark_dirty's merging and collapsing, by an
\* exchange of scanout buffers, by a dirtyfb or a cursor ioctl that marks beside a
\* commit's worker a rectangle it took from another scanout buffer, or by a client
\* that comes, goes or fails to grab; what failed grabs took is set apart in
\* `dropped'.
THEOREM NoLostDamage == Spec => []DamageKept
<1>1. Init => TypeInv /\ DamageKept
  <2>1. Init => DamageKept
    BY DEF Init, DamageKept
  <2> QED BY <2>1, InitType
<1>2. TypeInv /\ DamageKept /\ [Next]_vars => (TypeInv /\ DamageKept)'
  <2> SUFFICES ASSUME TypeInv, DamageKept, [Next]_vars
               PROVE  TypeInv' /\ DamageKept'
    OBVIOUS
  <2>1. TypeInv'
    BY NextType
  <2>2. CASE Next
    BY <2>1, <2>2, ClientDamage, CompositorDamage DEF Next
  <2>3. CASE UNCHANGED vars
    BY <2>1, <2>3, DamageSame DEF vars, painterVars, drmVars, history
  <2> QED BY <2>1, <2>2, <2>3
<1> QED BY <1>1, <1>2, PTL DEF Spec

-----------------------------------------------------------------------------
(* References: one for the scanout buffer, one for each grab that is       *)
(* copying after the unlock, whoever connects, disconnects, flips or       *)
(* closes in between.                                                      *)


\* the clients whose grab holds f
Grabbers(f) == {c \in Clients : grab[c].fb = f}
Scanned(f) == IF scanout_fb = f THEN 1 ELSE 0

\* Outside of grabpix a client holds nothing; without this, a second grab of a
\* client could hide its first.
GrabsEnd == \A c \in Clients : client[c] # "grabbing" => grab[c].fb = NoFb

RefsInv == RefsBalanced /\ GrabsEnd

LEMMA GrabbersFinite ==
    ASSUME NEW f \in Fbs
    PROVE  IsFiniteSet(Grabbers(f)) /\ Cardinality(Grabbers(f)) \in Nat
<1>1. Grabbers(f) \in SUBSET Clients
  BY DEF Grabbers
<1>2. IsFiniteSet(Grabbers(f))
  BY <1>1, FiniteClientsAssumption, FS_Subset
<1> QED BY <1>2, FS_CardinalityType

\* RefsBalanced, one framebuffer at a time.
LEMMA RefsOf == RefsBalanced <=> \A f \in Fbs : refs[f] = Cardinality(Grabbers(f)) + Scanned(f)
BY DEF RefsBalanced, Grabbers, Scanned

LEMMA RefsSame ==
    RefsInv /\ UNCHANGED <<refs, grab, scanout_fb, client>> => RefsInv'
BY DEF RefsInv, RefsBalanced, GrabsEnd

LEMMA InitRefs == Init => RefsInv
<1> SUFFICES ASSUME Init PROVE RefsInv
  OBVIOUS
<1>1. GrabsEnd
  BY DEF Init, GrabsEnd, NoGrab
<1>2. ASSUME NEW f \in Fbs
      PROVE  refs[f] = Cardinality(Grabbers(f)) + Scanned(f)
  <2>1. f # NoFb
    BY FbsAssumption
  <2>2. Grabbers(f) = {}
    BY <2>1 DEF Init, NoGrab, Grabbers
  <2>3. refs[f] = 0 /\ Scanned(f) = 0
    BY <2>1 DEF Init, Scanned
  <2> QED BY <2>2, <2>3, FS_EmptySet
<1> QED BY <1>1, <1>2, RefsOf DEF RefsInv

\* A step that gives one client's hold on old for one on new (either may be
\* NoFb) keeps the balance if the counts follow.
LEMMA HoldMoves ==
    ASSUME TypeInv, RefsBalanced, NEW c \in Clients, NEW new \in Fbs \cup {NoFb},
           grab' \in [Clients -> Grabs], grab'[c].fb = new,
           \A d \in Clients \ {c} : grab'[d] = grab[d],
           scanout_fb' = scanout_fb,
           grab[c].fb = NoFb \/ new = NoFb,
           refs' = IF new = NoFb THEN Put(refs, grab[c].fb) ELSE Get(refs, new)
    PROVE  RefsBalanced'
<1>1. SUFFICES ASSUME NEW f \in Fbs
               PROVE  refs'[f] = Cardinality(Grabbers(f)') + Scanned(f)'
  BY DEF RefsBalanced, Grabbers, Scanned
<1>2. refs \in [Fbs -> Int] /\ refs[f] = Cardinality(Grabbers(f)) + Scanned(f) /\ f # NoFb
  BY RefsOf, FbsAssumption DEF TypeInv, PainterTypeOK
<1>3. IsFiniteSet(Grabbers(f)) /\ Cardinality(Grabbers(f)) \in Nat
  BY GrabbersFinite
<1>4. Scanned(f)' = Scanned(f) /\ Scanned(f) \in Nat
  BY DEF Scanned
<1>5. CASE new = f
  <2>1. Grabbers(f)' = Grabbers(f) \cup {c} /\ c \notin Grabbers(f)
    BY <1>2, <1>5 DEF Grabbers
  <2>2. Cardinality(Grabbers(f)') = Cardinality(Grabbers(f)) + 1
    BY <1>3, <2>1, FS_AddElement
  <2>3. refs'[f] = refs[f] + 1
    BY <1>2, <1>5 DEF Get
  <2> QED BY <1>2, <1>3, <1>4, <2>2, <2>3
<1>6. CASE new = NoFb /\ grab[c].fb = f
  <2>1. Grabbers(f)' = Grabbers(f) \ {c} /\ c \in Grabbers(f)
    BY <1>2, <1>6 DEF Grabbers
  <2>2. Cardinality(Grabbers(f)') = Cardinality(Grabbers(f)) - 1
    BY <1>3, <2>1, FS_RemoveElement
  <2>3. refs'[f] = refs[f] - 1
    BY <1>2, <1>6 DEF Put
  <2> QED BY <1>2, <1>3, <1>4, <2>2, <2>3
<1>7. CASE new # f /\ ~ (new = NoFb /\ grab[c].fb = f)
  <2>1. grab[c].fb # f
    BY <1>2, <1>7
  <2>2. Grabbers(f)' = Grabbers(f)
    BY <1>7, <2>1 DEF Grabbers
  <2>3. refs'[f] = refs[f]
    BY <1>2, <1>7, <2>1 DEF Get, Put
  <2> QED BY <1>2, <1>4, <2>2, <2>3
<1> QED BY <1>5, <1>6, <1>7

\* A new scanout buffer, or none: the old one's reference goes, once.
LEMMA ScanoutMoves ==
    ASSUME TypeInv, RefsBalanced, NEW new \in Fbs \cup {NoFb}, UNCHANGED grab,
           scanout_fb' = new,
           refs' = Put(IF new = NoFb THEN refs ELSE Get(refs, new), scanout_fb)
    PROVE  RefsBalanced'
<1>1. SUFFICES ASSUME NEW f \in Fbs
               PROVE  refs'[f] = Cardinality(Grabbers(f)') + Scanned(f)'
  BY DEF RefsBalanced, Grabbers, Scanned
<1>2. refs \in [Fbs -> Int] /\ refs[f] = Cardinality(Grabbers(f)) + Scanned(f) /\ f # NoFb
  BY RefsOf, FbsAssumption DEF TypeInv, PainterTypeOK
<1>3. Grabbers(f)' = Grabbers(f) /\ Cardinality(Grabbers(f)) \in Nat
  BY GrabbersFinite DEF Grabbers
<1>4. refs'[f] = refs[f] + (IF new = f THEN 1 ELSE 0) - (IF scanout_fb = f THEN 1 ELSE 0)
  BY <1>2 DEF Get, Put
<1> QED BY <1>2, <1>3, <1>4 DEF Scanned

\* A client's step: a grab takes its reference under the lock and drops that very
\* one at the end; disconnecting drops the scanout buffer's, if it is its own.
LEMMA ClientRefs ==
    ASSUME TypeInv, RefsInv, NEW c \in Clients, ClientStep(c)
    PROVE  RefsInv'
<1>0. /\ grab \in [Clients -> Grabs] /\ scanout_fb \in Fbs \cup {NoFb}
      /\ client \in [Clients -> {"closed", "idle", "waiting", "ready", "grabbing", "left"}]
      /\ RefsBalanced /\ GrabsEnd
  BY DEF TypeInv, PainterTypeOK, ClientTypeOK, RefsInv
<1>1. CASE Connect(c) \/ RequestUpdate(c) \/ ReadEvents(c)
  <2>1. UNCHANGED <<refs, grab, scanout_fb>>
    BY <1>1 DEF Connect, RequestUpdate, ReadEvents, painterVars
  <2>2. RefsBalanced'
    BY <1>0, <2>1 DEF RefsBalanced
  <2>3. client[c] # "grabbing" /\ \A d \in Clients \ {c} : client'[d] = client[d]
    BY <1>0, <1>1 DEF Connect, RequestUpdate, ReadEvents, NotInIoctl
  <2> QED BY <1>0, <2>1, <2>2, <2>3 DEF RefsInv, GrabsEnd
<1>2. CASE Disconnect(c) \/ Close(c)
  <2>1. DisconnectFile(c) /\ UNCHANGED grab
    BY <1>2 DEF Disconnect, Close
  <2>2. client[c] # "grabbing" /\ \A d \in Clients \ {c} : client'[d] = client[d]
    BY <1>0, <1>2 DEF Disconnect, Close, NotInIoctl
  <2>3. GrabsEnd'
    BY <1>0, <2>1, <2>2 DEF GrabsEnd
  <2>4. CASE c = drm_filp
    <3>1. scanout_fb' = NoFb /\ refs' = Put(refs, scanout_fb)
      BY <2>1, <2>4 DEF DisconnectFile
    <3>2. refs' = Put(IF NoFb = NoFb THEN refs ELSE Get(refs, NoFb), scanout_fb)
      BY <3>1
    <3>3. RefsBalanced'
      BY <1>0, <2>1, <3>1, <3>2, ScanoutMoves
    <3> QED BY <2>3, <3>3 DEF RefsInv
  <2>5. CASE c # drm_filp
    <3>1. UNCHANGED <<refs, grab, scanout_fb>>
      BY <2>1, <2>5 DEF DisconnectFile, painterVars
    <3>2. RefsBalanced'
      BY <1>0, <3>1 DEF RefsBalanced
    <3> QED BY <2>3, <3>2 DEF RefsInv
  <2> QED BY <2>4, <2>5
<1>3. CASE GrabLocked(c)
  <2>1. client[c] # "grabbing" /\ grab[c].fb = NoFb
    BY <1>0, <1>3 DEF GrabLocked, GrabsEnd
  <2>2. CASE scanout_fb = NoFb
    <3>1. UNCHANGED <<refs, grab, scanout_fb>> /\ client' = [client EXCEPT ![c] = "idle"]
      BY <1>3, <2>2 DEF GrabLocked
    <3>2. RefsBalanced'
      BY <1>0, <3>1 DEF RefsBalanced
    <3> QED BY <1>0, <2>1, <3>1, <3>2 DEF RefsInv, GrabsEnd
  <2>3. CASE scanout_fb # NoFb
    <3>1. /\ client' = [client EXCEPT ![c] = "grabbing"]
          /\ refs' = Get(refs, scanout_fb) /\ scanout_fb' = scanout_fb
          /\ \E rects, owed :
                grab' = [grab EXCEPT ![c] = [fb |-> scanout_fb, rects |-> rects, owed |-> owed]]
      BY <1>3, <2>3 DEF GrabLocked
    <3>2. grab' \in [Clients -> Grabs]
      BY <1>3, GrabLockedType DEF TypeInv, ClientTypeOK
    <3>3. grab'[c].fb = scanout_fb /\ \A d \in Clients \ {c} : grab'[d] = grab[d]
      BY <1>0, <3>1
    <3>4. RefsBalanced'
      BY <1>0, <2>1, <2>3, <3>1, <3>2, <3>3, HoldMoves
    <3>5. GrabsEnd'
      BY <1>0, <3>1, <3>3 DEF GrabsEnd
    <3> QED BY <3>4, <3>5 DEF RefsInv
  <2> QED BY <2>2, <2>3
<1>4. CASE GrabCopies(c) \/ GrabFails(c)
  <2>1. EndGrab(c)
    BY <1>4 DEF GrabCopies, GrabFails
  <2>2. /\ refs' = Put(refs, grab[c].fb) /\ scanout_fb' = scanout_fb
        /\ grab' = [grab EXCEPT ![c] = NoGrab] /\ client' = [client EXCEPT ![c] = "idle"]
    BY <2>1 DEF EndGrab
  <2>3. NoGrab \in Grabs
    BY DEF NoGrab, Grabs
  <2>4. /\ grab' \in [Clients -> Grabs] /\ grab'[c].fb = NoFb
        /\ \A d \in Clients \ {c} : grab'[d] = grab[d]
    BY <1>0, <2>2, <2>3 DEF NoGrab
  <2>5. RefsBalanced'
    BY <1>0, <2>2, <2>4, HoldMoves
  <2>6. GrabsEnd'
    BY <1>0, <2>2, <2>4 DEF GrabsEnd
  <2> QED BY <2>5, <2>6 DEF RefsInv
<1> QED BY <1>1, <1>2, <1>3, <1>4 DEF ClientStep

\* A compositor's step: only set_scanout_buffer moves a reference.
LEMMA CompositorRefs ==
    ASSUME TypeInv, RefsInv, CompositorStep
    PROVE  RefsInv'
<1>1. CASE SetScanout
  <2>1. commit.fb \in Fbs
    BY <1>1 DEF SetScanout, At, TypeInv, DrmInv, CommitShape
  <2>2. /\ refs' = Put(Get(refs, commit.fb), scanout_fb) /\ scanout_fb' = commit.fb
        /\ UNCHANGED <<grab, client>> /\ commit.fb # NoFb
    BY <1>1, <2>1, FbsAssumption DEF SetScanout, clientVars
  <2>3. RefsBalanced'
    BY <2>1, <2>2, ScanoutMoves DEF RefsInv
  <2> QED BY <2>2, <2>3 DEF RefsInv, GrabsEnd
<1>2. CASE \/ \E f \in Fbs, active \in BOOLEAN : Commit(f, active)
           \/ Commit(NoFb, FALSE) \/ CursorChange
           \/ \E f \in Fbs, clips \in ClipLists : DirtyFb(f, clips)
  BY <1>2, RefsSame DEF Commit, CursorChange, DirtyFb, painterVars, clientVars
<1>3. CASE \/ PlaneUpdate \/ CountDirts \/ MarkFull \/ Flush \/ SendModeChanged \/ FullModesetDone
           \/ EndCommit \/ CursorMark \/ EndCursor
  BY <1>3, RefsSame DEF PlaneUpdate, CountDirts, MarkFull, Flush, SendModeChanged,
                        FullModesetDone, EndCommit, CursorMark, EndCursor,
                        SendUpdateReadyIfNeeded, painterVars, clientVars
<1>4. CASE DirtyFbStep
  BY <1>4, RefsSame DEF DirtyFbStep, DirtyFbMark, DirtyFbCommit, DirtyFbNoCommit, painterVars,
                        clientVars
<1> QED BY <1>1, <1>2, <1>3, <1>4 DEF CompositorStep, CommitStep, CursorStep

\* Every drm_framebuffer_get of the painter is matched by exactly one put, for any
\* number of clients that replace one another and grab at once.
THEOREM BalancedRefs == Spec => []RefsBalanced
<1>1. Init => TypeInv /\ RefsInv
  BY InitType, InitRefs
<1>2. TypeInv /\ RefsInv /\ [Next]_vars => (TypeInv /\ RefsInv)'
  <2> SUFFICES ASSUME TypeInv, RefsInv, [Next]_vars
               PROVE  TypeInv' /\ RefsInv'
    OBVIOUS
  <2>1. TypeInv'
    BY NextType
  <2>2. CASE Next
    BY <2>1, <2>2, ClientRefs, CompositorRefs DEF Next
  <2>3. CASE UNCHANGED vars
    BY <2>1, <2>3, RefsSame DEF vars, painterVars, clientVars
  <2> QED BY <2>1, <2>2, <2>3
<1>3. RefsInv => RefsBalanced
  BY DEF RefsInv
<1> QED BY <1>1, <1>2, <1>3, PTL DEF Spec

-----------------------------------------------------------------------------
(* The first client: as long as it stays, the painter's scanout buffer is  *)
(* the one the plane shows, and it is told every size.  Between the steps  *)
(* of a commit both are only on their way.                                 *)

\* Nobody, or only the first client, has ever been connected.
NoneHasLeft ==
    /\ connects = 0 => drm_filp = NoClient
    /\ drm_filp # NoClient => connects > 0
Undisturbed == connects = 0 \/ (connects = 1 /\ drm_filp # NoClient)

\* The plane's framebuffer is the painter's when evdi_plane_atomic_update is past,
\* and was before when the commit does not change it.
Follows ==
    /\ commit.pc \in {"plane", "set"} => commit.fb = crtc.fb
    /\ Undisturbed =>
          /\ commit.pc = "plane" /\ commit.fb = commit.old => scanout_fb = commit.fb
          /\ commit.pc \notin {"plane", "set"} /\ crtc.fb # NoFb => scanout_fb = crtc.fb

FollowInv == NoneHasLeft /\ Follows

\* A client's step leaves the compositor alone, and no client comes after the first
\* without one being disconnected.
LEMMA ClientFollows ==
    ASSUME TypeInv, FollowInv, NEW c \in Clients, ClientStep(c)
    PROVE  FollowInv'
<1>0. connects \in Nat /\ NoneHasLeft /\ Follows
  BY DEF TypeInv, ClientTypeOK, FollowInv
<1>1. CASE Connect(c)
  <2>1. /\ connects' = connects + 1 /\ drm_filp' = c /\ c # NoClient
        /\ UNCHANGED <<scanout_fb, drmVars>>
    BY <1>1, ClientsAssumption DEF Connect
  <2>2. Undisturbed' => Undisturbed
    BY <1>0, <2>1 DEF Undisturbed
  <2>3. NoneHasLeft'
    BY <1>0, <2>1 DEF NoneHasLeft
  <2> QED BY <1>0, <2>1, <2>2, <2>3 DEF FollowInv, Follows, drmVars
<1>2. CASE Disconnect(c) \/ Close(c)
  <2>1. DisconnectFile(c) /\ UNCHANGED <<connects, drmVars>>
    BY <1>2 DEF Disconnect, Close
  <2>2. CASE c = drm_filp
    <3>1. drm_filp' = NoClient /\ connects > 0
      BY <1>0, <2>1, <2>2, ClientsAssumption DEF DisconnectFile, NoneHasLeft
    <3>2. ~ Undisturbed'
      BY <1>0, <2>1, <3>1 DEF Undisturbed
    <3> QED BY <1>0, <2>1, <3>1, <3>2 DEF FollowInv, NoneHasLeft, Follows, drmVars
  <2>3. CASE c # drm_filp
    <3>1. UNCHANGED painterVars
      BY <2>1, <2>3 DEF DisconnectFile
    <3> QED BY <1>0, <2>1, <3>1 DEF FollowInv, NoneHasLeft, Follows, Undisturbed, painterVars,
                                    drmVars
  <2> QED BY <2>2, <2>3
<1>3. CASE RequestUpdate(c) \/ ReadEvents(c) \/ GrabLocked(c) \/ GrabCopies(c) \/ GrabFails(c)
  <2>1. UNCHANGED <<drm_filp, scanout_fb, connects, drmVars>>
    BY <1>3 DEF RequestUpdate, ReadEvents, GrabLocked, GrabCopies, GrabFails, EndGrab, painterVars
  <2> QED BY <1>0, <2>1 DEF FollowInv, NoneHasLeft, Follows, Undisturbed, drmVars
<1> QED BY <1>1, <1>2, <1>3 DEF ClientStep

\* A commit starts from the framebuffer the plane shows.
LEMMA StartFollows ==
    ASSUME DrmInv, FollowInv, NEW f \in Fbs \cup {NoFb}, NEW active, StartCommit(f, active),
           UNCHANGED <<drm_filp, scanout_fb, connects>>
    PROVE  FollowInv'
<1>1. /\ commit.pc = "idle" /\ crtc'.fb = f
      /\ commit'.pc = (IF f = NoFb THEN "flush" ELSE "plane")
      /\ commit'.fb = f /\ commit'.old = crtc.fb
  BY DEF StartCommit, At
<1>2. Undisturbed' = Undisturbed
  BY DEF Undisturbed
<1> QED BY <1>1, <1>2 DEF FollowInv, NoneHasLeft, Follows

LEMMA CommitStepFollows ==
    ASSUME TypeInv, FollowInv, CommitStep
    PROVE  FollowInv'
<1>0. commit \in Commits /\ NoneHasLeft /\ Follows
  BY DEF TypeInv, DrmInv, DrmTypeOK, FollowInv
<1>1. UNCHANGED <<drm_filp, connects, crtc>>
  BY DEF CommitStep, PlaneUpdate, SetScanout, CountDirts, MarkFull, Flush, SendModeChanged,
         FullModesetDone, EndCommit, SendUpdateReadyIfNeeded, painterVars, clientVars
<1>2. NoneHasLeft' /\ Undisturbed' = Undisturbed
  BY <1>0, <1>1 DEF NoneHasLeft, Undisturbed
<1>3. ASSUME NEW step \in {"set", "count", "mark", "flush", "mode", "modeset_done", "ready"},
             Goto(step)
      PROVE  commit'.pc = step /\ commit'.fb = commit.fb
  BY <1>0, <1>3 DEF Goto, Commits
<1>4. CASE PlaneUpdate
  <2>1. commit.pc = "plane" /\ scanout_fb' = scanout_fb
    BY <1>4 DEF PlaneUpdate, At, painterVars
  <2>2. CASE commit.fb # commit.old \/ needs_full_modeset
    <3>1. commit'.pc = "set" /\ commit'.fb = commit.fb
      BY <1>3, <1>4, <2>2 DEF PlaneUpdate
    <3> QED BY <1>0, <1>1, <1>2, <2>1, <3>1 DEF Follows, FollowInv
  <2>3. CASE commit.fb = commit.old /\ ~ needs_full_modeset
    <3>1. commit'.pc = "count" /\ commit'.fb = commit.fb
      BY <1>3, <1>4, <2>3 DEF PlaneUpdate
    <3> QED BY <1>0, <1>1, <1>2, <2>1, <2>3, <3>1 DEF Follows, FollowInv
  <2> QED BY <2>2, <2>3
<1>5. CASE SetScanout
  <2>1. commit.pc = "set" /\ scanout_fb' = commit.fb /\ commit'.pc = "mark"
    BY <1>3, <1>5 DEF SetScanout, At
  <2> QED BY <1>0, <1>1, <1>2, <2>1 DEF Follows, FollowInv
<1>6. CASE CountDirts \/ MarkFull \/ Flush \/ SendModeChanged \/ FullModesetDone \/ EndCommit
  <2>1. commit.pc \notin {"plane", "set"} /\ scanout_fb' = scanout_fb
    BY <1>6 DEF CountDirts, MarkFull, Flush, SendModeChanged, FullModesetDone, EndCommit,
                SendUpdateReadyIfNeeded, At, painterVars
  <2>2. commit'.pc \notin {"plane", "set"}
    BY <1>3, <1>6 DEF CountDirts, MarkFull, Flush, SendModeChanged, FullModesetDone, EndCommit,
                      IdleCommit
  <2> QED BY <1>0, <1>1, <1>2, <2>1, <2>2 DEF Follows, FollowInv
<1> QED BY <1>4, <1>5, <1>6 DEF CommitStep

LEMMA CompositorFollows ==
    ASSUME TypeInv, FollowInv, CompositorStep
    PROVE  FollowInv'
<1>0. NoneHasLeft /\ Follows /\ DrmInv /\ crtc.fb \in Fbs \cup {NoFb}
  BY DEF FollowInv, TypeInv, DrmInv, DrmTypeOK
<1>1. ASSUME NEW f \in Fbs \cup {NoFb}, NEW active \in BOOLEAN, Commit(f, active)
      PROVE  FollowInv'
  BY <1>0, <1>1, StartFollows DEF Commit, painterVars, clientVars
<1>2. CASE CursorChange \/ CursorStep \/ (\E f \in Fbs, clips \in ClipLists : DirtyFb(f, clips))
           \/ DirtyFbMark \/ DirtyFbNoCommit
  <2>1. UNCHANGED <<drm_filp, scanout_fb, connects, crtc, commit>>
    BY <1>2 DEF CursorChange, CursorStep, CursorMark, EndCursor, SendUpdateReadyIfNeeded, DirtyFb,
                DirtyFbMark, DirtyFbNoCommit, painterVars, clientVars
  <2> QED BY <1>0, <2>1 DEF FollowInv, NoneHasLeft, Follows, Undisturbed
<1>3. CASE DirtyFbCommit
  BY <1>0, <1>3, StartFollows DEF DirtyFbCommit, painterVars, clientVars
<1> QED BY <1>1, <1>2, <1>3, CommitStepFollows DEF CompositorStep, DirtyFbStep

LEMMA FollowInvariance == Spec => [](TypeInv /\ FollowInv)
<1>1. Init => TypeInv /\ FollowInv
  <2>1. Init => FollowInv
    BY DEF Init, FollowInv, NoneHasLeft, Follows, IdleCommit
  <2> QED BY <2>1, InitType
<1>2. TypeInv /\ FollowInv /\ [Next]_vars => (TypeInv /\ FollowInv)'
  <2> SUFFICES ASSUME TypeInv, FollowInv, [Next]_vars PROVE TypeInv' /\ FollowInv'
    OBVIOUS
  <2>1. TypeInv'
    BY NextType
  <2>2. CASE Next
    BY <2>1, <2>2, ClientFollows, CompositorFollows DEF Next
  <2>3. CASE UNCHANGED vars
    BY <2>1, <2>3 DEF vars, painterVars, clientVars, drmVars, FollowInv, NoneHasLeft, Follows,
                      Undisturbed
  <2> QED BY <2>1, <2>2, <2>3
<1> QED BY <1>1, <1>2, PTL DEF Spec

\* Between commits the painter's scanout buffer is the framebuffer of the plane, for
\* the first client as long as it stays: evdi_plane_atomic_update skips
\* set_scanout_buffer only for a framebuffer that is already there.
THEOREM FollowsPlane == Spec => []ScanoutFollowsPlane
<1>1. TypeInv /\ FollowInv => ScanoutFollowsPlane
  BY DEF FollowInv, Follows, Undisturbed, ScanoutFollowsPlane, At
<1> QED BY <1>1, FollowInvariance, PTL

-----------------------------------------------------------------------------
(* The modes the first client is told.                                     *)

\* The compositor modesets as the legacy ioctls do, and only for a monitor.
Legacy == Env \cap {"atomic", "no monitor"} = {}

Told == announced # NoFb /\ Size[announced] = Size[crtc.fb]
\* a commit that will come to tell the client
Telling == commit.pc \in {"plane", "set", "count", "mark", "flush"}
           /\ commit.mode_changed /\ crtc.active

Announces == Legacy /\ Undisturbed =>
    /\ connects = 0 => /\ crtc.fb = NoFb /\ needs_full_modeset
                       /\ commit.pc \notin {"mode", "modeset_done"}
    /\ commit.pc # "mode" /\ ~ needs_full_modeset /\ crtc.fb # NoFb => Told \/ Telling
    /\ commit.pc = "modeset_done" => Told

\* A step that touches neither the screen nor what was said about it.
LEMMA AnnouncesSame ==
    ASSUME Announces, UNCHANGED <<drm_filp, connects, crtc, needs_full_modeset, announced>>,
           Undisturbed' => Undisturbed,
           commit' = commit \/ (commit'.pc = "idle" /\ commit.pc = "ready")
    PROVE  Announces'
BY DEF Announces, Telling, Told

\* The first client comes before anything is on the screen.
LEMMA ClientAnnounces ==
    ASSUME TypeInv, FollowInv, Announces, NEW c \in Clients, ClientStep(c)
    PROVE  Announces'
<1>0. connects \in Nat /\ NoneHasLeft /\ crtc.active \in BOOLEAN
  BY DEF TypeInv, ClientTypeOK, DrmInv, DrmTypeOK, FollowInv
<1>1. CASE Connect(c)
  <2>1. connects' = connects + 1 /\ UNCHANGED drmVars /\ needs_full_modeset'
    BY <1>1 DEF Connect
  <2>2. Undisturbed' => connects = 0
    BY <1>0, <2>1 DEF Undisturbed
  <2>3. Undisturbed' => Undisturbed /\ connects' # 0
    BY <1>0, <2>1, <2>2 DEF Undisturbed
  <2> QED BY <2>1, <2>2, <2>3 DEF Announces, drmVars
<1>2. CASE Disconnect(c) \/ Close(c)
  <2>1. DisconnectFile(c) /\ UNCHANGED <<connects, drmVars, announced>>
    BY <1>2 DEF Disconnect, Close
  <2>2. CASE c = drm_filp
    <3>1. drm_filp' = NoClient /\ connects > 0
      BY <1>0, <2>1, <2>2, ClientsAssumption DEF DisconnectFile, NoneHasLeft
    <3>2. ~ Undisturbed'
      BY <1>0, <2>1, <3>1 DEF Undisturbed
    <3> QED BY <3>2 DEF Announces
  <2>3. CASE c # drm_filp
    BY <2>1, <2>3, AnnouncesSame DEF DisconnectFile, painterVars, drmVars, Undisturbed
  <2> QED BY <2>2, <2>3
<1>3. CASE RequestUpdate(c) \/ ReadEvents(c) \/ GrabLocked(c) \/ GrabCopies(c) \/ GrabFails(c)
  <2>1. UNCHANGED <<drm_filp, connects, drmVars, needs_full_modeset, announced>>
    BY <1>3 DEF RequestUpdate, ReadEvents, GrabLocked, GrabCopies, GrabFails, EndGrab, painterVars
  <2> QED BY <2>1, AnnouncesSame DEF drmVars, Undisturbed
<1> QED BY <1>1, <1>2, <1>3 DEF ClientStep

\* A commit that changes the size, or for which the full modeset is due, comes to
\* tell the client.
LEMMA StartAnnounces ==
    ASSUME TypeInv, Announces, NEW f \in Fbs \cup {NoFb}, NEW active \in BOOLEAN,
           StartCommit(f, active), UNCHANGED <<painterVars, connects, announced>>,
           Legacy /\ connects = 0 => f = NoFb,
           Legacy /\ f \notin {NoFb, crtc.fb} => active
    PROVE  Announces'
<1>0. crtc.fb \in Fbs \cup {NoFb} /\ crtc.active \in BOOLEAN /\ commit.pc = "idle"
  BY DEF TypeInv, DrmInv, DrmTypeOK, StartCommit, At
<1>1. /\ crtc'.fb = f /\ crtc'.active = active
      /\ commit'.pc \in {"plane", "flush"}
      /\ commit'.mode_changed = (\/ needs_full_modeset
                                 \/ (f = NoFb) # (crtc.fb = NoFb)
                                 \/ f # NoFb /\ crtc.fb # NoFb /\ Size[f] # Size[crtc.fb])
  BY DEF StartCommit
<1>2. Undisturbed' = Undisturbed
  BY DEF Undisturbed, painterVars
<1>3. ASSUME Legacy, Undisturbed, ~ needs_full_modeset, f # NoFb
      PROVE  Told' \/ Telling'
  <2>1. CASE crtc.fb # NoFb /\ Size[f] = Size[crtc.fb]
    <3>1. Told
      BY <1>0, <1>3, <2>1 DEF Announces, Telling
    <3> QED BY <1>1, <2>1, <3>1 DEF Told
  <2>2. CASE crtc.fb = NoFb \/ Size[f] # Size[crtc.fb]
    <3>1. f \notin {NoFb, crtc.fb}
      BY <1>3, <2>2
    <3>2. crtc'.active /\ commit'.mode_changed
      BY <1>1, <1>3, <2>2, <3>1
    <3> QED BY <1>1, <3>2 DEF Telling
  <2> QED BY <2>1, <2>2
<1>4. ASSUME Legacy, Undisturbed, connects = 0 PROVE f = NoFb /\ needs_full_modeset
  BY <1>4 DEF Announces
<1> QED BY <1>0, <1>1, <1>2, <1>3, <1>4 DEF Announces, painterVars

LEMMA CommitStepAnnounces ==
    ASSUME TypeInv, FollowInv, Announces, CommitStep
    PROVE  Announces'
<1>0. /\ commit \in Commits /\ NoneHasLeft /\ Follows /\ CommitShape /\ connects \in Nat
      /\ drm_filp \in Clients \cup {NoClient}
  BY DEF TypeInv, DrmInv, DrmTypeOK, ClientTypeOK, PainterTypeOK, FollowInv
<1>1. UNCHANGED <<drm_filp, connects, crtc>> /\ (Undisturbed' = Undisturbed)
  BY DEF CommitStep, PlaneUpdate, SetScanout, CountDirts, MarkFull, Flush, SendModeChanged,
         FullModesetDone, EndCommit, SendUpdateReadyIfNeeded, painterVars, clientVars,
         Undisturbed
<1>2. ASSUME NEW step \in {"set", "count", "mark", "flush", "mode", "modeset_done", "ready"},
             Goto(step)
      PROVE  commit'.pc = step /\ commit'.mode_changed = commit.mode_changed
  BY <1>0, <1>2 DEF Goto, Commits
<1>3. CASE PlaneUpdate \/ SetScanout \/ CountDirts \/ MarkFull
  <2>1. /\ commit.pc \in {"plane", "set", "count", "mark"}
        /\ UNCHANGED <<needs_full_modeset, announced>>
    BY <1>3 DEF PlaneUpdate, SetScanout, CountDirts, MarkFull, At, painterVars
  <2>2. \E step \in {"set", "count", "mark", "flush"} : Goto(step)
    BY <1>3 DEF PlaneUpdate, SetScanout, CountDirts, MarkFull
  <2>3. /\ commit'.pc \in {"set", "count", "mark", "flush"}
        /\ commit'.mode_changed = commit.mode_changed
    BY <1>2, <2>2
  <2> QED BY <1>1, <2>1, <2>3 DEF Announces, Telling, Told
<1>4. CASE Flush
  <2>1. commit.pc = "flush" /\ UNCHANGED <<needs_full_modeset, announced>>
    BY <1>4 DEF Flush, At, painterVars
  <2>2. CASE commit.mode_changed /\ crtc.active /\ scanout_fb # NoFb
    <3>1. commit'.pc = "mode" /\ crtc.fb # NoFb
      BY <1>0, <1>2, <1>4, <2>2, FbsAssumption DEF Flush, CommitShape
    <3> QED BY <1>1, <2>1, <3>1 DEF Announces
  <2>3. CASE ~ (commit.mode_changed /\ crtc.active /\ scanout_fb # NoFb)
    <3>1. commit'.pc = "ready"
      BY <1>2, <1>4, <2>3 DEF Flush
    <3>2. Undisturbed /\ crtc.fb # NoFb => scanout_fb = crtc.fb
      BY <1>0, <2>1 DEF Follows
    <3> QED BY <1>1, <2>1, <2>3, <3>1, <3>2 DEF Announces, Telling, Told
  <2> QED BY <2>2, <2>3
<1>5. CASE SendModeChanged
  <2>1. /\ commit.pc = "mode" /\ needs_full_modeset' = needs_full_modeset
        /\ announced' = (IF drm_filp = NoClient THEN NoFb ELSE commit.fb)
        /\ commit'.pc = "modeset_done"
    BY <1>2, <1>5 DEF SendModeChanged, At, painterVars
  <2>2. commit.fb = crtc.fb /\ crtc.fb \in Fbs
    BY <1>0, <2>1 DEF CommitShape
  <2>3. Legacy /\ Undisturbed => connects # 0 /\ drm_filp # NoClient
    BY <2>1 DEF Announces, Undisturbed
  <2>4. Legacy /\ Undisturbed => Told'
    BY <1>1, <2>1, <2>2, <2>3, FbsAssumption DEF Told
  <2> QED BY <1>1, <2>3, <2>4 DEF Announces
<1>6. CASE FullModesetDone
  <2>1. commit.pc = "modeset_done" /\ commit'.pc = "ready" /\ announced' = announced
    BY <1>2, <1>6 DEF FullModesetDone, At
  <2>2. Legacy /\ Undisturbed => connects # 0 /\ Told
    BY <2>1 DEF Announces
  <2> QED BY <1>1, <2>1, <2>2 DEF Announces, Told
<1>7. CASE EndCommit
  <2>1. /\ commit.pc = "ready" /\ commit'.pc = "idle"
        /\ UNCHANGED <<needs_full_modeset, announced>>
    BY <1>7 DEF EndCommit, SendUpdateReadyIfNeeded, At, IdleCommit
  <2> QED BY <1>1, <2>1, AnnouncesSame
<1> QED BY <1>3, <1>4, <1>5, <1>6, <1>7 DEF CommitStep

LEMMA CompositorAnnounces ==
    ASSUME TypeInv, FollowInv, Announces, CompositorStep
    PROVE  Announces'
<1>0. /\ crtc.fb \in Fbs \cup {NoFb} /\ crtc.active \in BOOLEAN /\ NoneHasLeft
      /\ connects \in Nat
  BY DEF FollowInv, TypeInv, DrmInv, DrmTypeOK, ClientTypeOK
<1>1. ASSUME NEW f \in Fbs \cup {NoFb}, NEW active \in BOOLEAN, Commit(f, active)
      PROVE  Announces'
  <2>1. StartCommit(f, active) /\ UNCHANGED <<painterVars, connects, announced>>
    BY <1>1 DEF Commit, clientVars
  <2>2. Legacy /\ f \notin {NoFb, crtc.fb} => active
    BY <1>1 DEF Commit, Legacy
  <2>3. Legacy /\ connects = 0 => f = NoFb
    <3>1. Legacy /\ connects = 0 => crtc.fb = NoFb /\ drm_filp = NoClient
      BY <1>0 DEF Announces, Undisturbed, NoneHasLeft
    <3> QED BY <1>1, <3>1 DEF Commit, Legacy
  <2> QED BY <2>1, <2>2, <2>3, StartAnnounces
<1>2. CASE CursorChange \/ CursorStep \/ (\E f \in Fbs, clips \in ClipLists : DirtyFb(f, clips))
           \/ DirtyFbMark \/ DirtyFbNoCommit
  <2>1. UNCHANGED <<drm_filp, connects, crtc, commit, needs_full_modeset, announced>>
    BY <1>2 DEF CursorChange, CursorStep, CursorMark, EndCursor, SendUpdateReadyIfNeeded, DirtyFb,
                DirtyFbMark, DirtyFbNoCommit, painterVars, clientVars
  <2> QED BY <2>1, AnnouncesSame DEF Undisturbed
<1>3. CASE DirtyFbCommit
  <2>1. /\ StartCommit(crtc.fb, crtc.active) /\ crtc.fb # NoFb
        /\ UNCHANGED <<painterVars, connects, announced>>
    BY <1>3 DEF DirtyFbCommit, AllMarked, clientVars
  <2>2. ~ (Legacy /\ connects = 0)
    BY <2>1 DEF Announces, Undisturbed
  <2> QED BY <1>0, <2>1, <2>2, StartAnnounces
<1> QED BY <1>1, <1>2, <1>3, CommitStepAnnounces DEF CompositorStep, DirtyFbStep

LEMMA AnnounceInvariance == Spec => []Announces
<1>1. Init => Announces
  BY DEF Init, Announces, IdleCommit
<1>2. TypeInv /\ FollowInv /\ Announces /\ [Next]_vars => Announces'
  <2> SUFFICES ASSUME TypeInv, FollowInv, Announces, [Next]_vars PROVE Announces'
    OBVIOUS
  <2>1. CASE Next
    BY <2>1, ClientAnnounces, CompositorAnnounces DEF Next
  <2>2. CASE UNCHANGED vars
    BY <2>2, AnnouncesSame DEF vars, painterVars, clientVars, drmVars, Undisturbed
  <2> QED BY <2>1, <2>2
<1> QED BY <1>1, <1>2, FollowInvariance, PTL DEF Spec

\* Under a compositor that changes modes only as the legacy ioctls do and only for a
\* monitor, the first client knows the size of the screen whenever it is on and no
\* commit is under way: no commit can change the size without mode_changed_notify.
\* (Other compositors can, and a second client can miss it: see ModeAnnounced.)
THEOREM FirstIsTold == Spec => [](Legacy => FirstModeAnnounced)
<1>1. TypeInv /\ Announces => (Legacy => FirstModeAnnounced)
  <2> SUFFICES ASSUME TypeInv, Announces, Legacy, connects = 1, At("idle"), drm_filp # NoClient,
                      ~ needs_full_modeset, crtc.active
               PROVE  Told
    BY DEF FirstModeAnnounced, ModeAnnounced, Told
  <2>1. crtc.fb \in Fbs /\ crtc.fb # NoFb
    BY FbsAssumption DEF TypeInv, DrmInv, CommitShape
  <2> QED BY <2>1 DEF Announces, Undisturbed, Telling, At
<1> QED BY <1>1, FollowInvariance, AnnounceInvariance, PTL

-----------------------------------------------------------------------------
(* The refinement of EvdiDevice, for a client that has the device to       *)
(* itself.                                                                 *)

\* Where that client is, what it has to read and what the painter owes it.
Sole ==
    /\ client[SoleClient] \in {"idle", "waiting", "ready", "grabbing"} => drm_filp = SoleClient
    /\ was_update_requested => client[SoleClient] = "waiting" /\ Inbox = 0
    /\ Inbox \in {0, 1}
    /\ Inbox = 1 => client[SoleClient] \in {"waiting", "left"}

LEMMA AnswersAppended ==
    ASSUME NEW s \in Seq(Event), NEW e \in Event
    PROVE  /\ IsFiniteSet(Answers(s)) /\ Answers(<<>>) = {}
           /\ e # UpdateReady => Answers(Append(s, e)) = Answers(s)
           /\ Cardinality(Answers(Append(s, UpdateReady))) = Cardinality(Answers(s)) + 1
<1>1. Len(s) \in Nat /\ DOMAIN s = 1 .. Len(s) /\ UpdateReady \in Event
  BY DEF Event
<1>2. IsFiniteSet(Answers(s))
  <2>1. Answers(s) \subseteq 1 .. Len(s)
    BY <1>1 DEF Answers
  <2>2. IsFiniteSet(1 .. Len(s))
    BY <1>1, FS_Interval
  <2> QED BY <2>1, <2>2, FS_Subset
<1>3. ASSUME NEW f \in Event
      PROVE  /\ DOMAIN Append(s, f) = 1 .. Len(s) + 1 /\ Append(s, f)[Len(s) + 1] = f
             /\ \A i \in 1 .. Len(s) : Append(s, f)[i] = s[i]
  OBVIOUS
<1>4. e # UpdateReady => Answers(Append(s, e)) = Answers(s)
  BY <1>1, <1>3 DEF Answers
<1>5. Answers(Append(s, UpdateReady)) = Answers(s) \cup {Len(s) + 1} /\ Len(s) + 1 \notin Answers(s)
  BY <1>1, <1>3 DEF Answers
<1>6. Cardinality(Answers(Append(s, UpdateReady))) = Cardinality(Answers(s)) + 1
  BY <1>2, <1>5, FS_AddElement
<1>7. Answers(<<>>) = {}
  BY DEF Answers
<1> QED BY <1>2, <1>4, <1>6, <1>7

\* The events the client has not read, told apart by whether an answer is among them.
LEMMA AnswersCounted ==
    ASSUME ClientTypeOK, SoleClient \in Clients
    PROVE  /\ Inbox \in Nat
           /\ Inbox = 0 <=> ~ Contains(events[SoleClient], UpdateReady)
           /\ events'[SoleClient] = events[SoleClient] => Inbox' = Inbox
           /\ events'[SoleClient] = <<>> => Inbox' = 0
           /\ \A e \in Event :
                events'[SoleClient] = Append(events[SoleClient], e) =>
                    Inbox' = IF e = UpdateReady THEN Inbox + 1 ELSE Inbox
<1> DEFINE queue == events[SoleClient]
<1>1. queue \in Seq(Event) /\ UpdateReady \in Event
  BY DEF ClientTypeOK, Event
<1>2. IsFiniteSet(Answers(queue)) /\ Answers(<<>>) = {}
  BY <1>1, AnswersAppended
<1>3. Answers(queue) = {} <=> ~ Contains(queue, UpdateReady)
  BY <1>1 DEF Answers, Contains
<1>4. Inbox = Cardinality(Answers(queue)) /\ Inbox' = Cardinality(Answers(queue'))
  BY DEF Inbox, Answers
<1>5. Cardinality(Answers(queue)) \in Nat
      /\ (Cardinality(Answers(queue)) = 0 <=> Answers(queue) = {})
      /\ Cardinality(Answers(<<>>)) = 0
  BY <1>2, FS_CardinalityType, FS_EmptySet
<1>6. ASSUME NEW e \in Event, queue' = Append(queue, e)
      PROVE  Inbox' = IF e = UpdateReady THEN Inbox + 1 ELSE Inbox
  BY <1>1, <1>4, <1>6, AnswersAppended
<1>7. queue' = queue => Inbox' = Inbox
  BY <1>4
<1>8. queue' = <<>> => Inbox' = 0
  BY <1>4, <1>5
<1> QED BY <1>3, <1>4, <1>5, <1>6, <1>7, <1>8

DeviceStep == [Device!Next]_<<Link, Inbox>>

LEMMA InitServed ==
    ASSUME Init, Clients = {SoleClient}
    PROVE  Sole /\ Device!Init
<1>1. client[SoleClient] = "closed" /\ events[SoleClient] = <<>> /\ ~ was_update_requested
  BY DEF Init
<1>2. Inbox = 0
  BY <1>1, FS_EmptySet DEF Inbox, Answers
<1> QED BY <1>1, <1>2 DEF Sole, Link, Device!Init

\* What is common to all steps: the client's state and what it has to read are all
\* the device shows.
LEMMA DeviceSame ==
    ASSUME Sole, UNCHANGED <<client, events, drm_filp, was_update_requested>>
    PROVE  Sole' /\ DeviceStep
BY DEF Sole, DeviceStep, Link, Inbox

\* Its own step is one of the device's, or goes on with a grab.
LEMMA ClientServed ==
    ASSUME TypeInv, Sole, Clients = {SoleClient}, ClientStep(SoleClient)
    PROVE  Sole' /\ DeviceStep
<1> DEFINE state == client[SoleClient]
<1>0. /\ client \in [Clients -> {"closed", "idle", "waiting", "ready", "grabbing", "left"}]
      /\ events \in [Clients -> Seq(Event)] /\ SoleClient \in Clients
      /\ SoleClient # NoClient /\ was_update_requested \in BOOLEAN
  BY ClientsAssumption DEF TypeInv, ClientTypeOK, PainterTypeOK
<1>1. /\ Inbox = 0 <=> ~ Contains(events[SoleClient], UpdateReady)
      /\ events'[SoleClient] = events[SoleClient] => Inbox' = Inbox
      /\ events'[SoleClient] = <<>> => Inbox' = 0
  BY <1>0, AnswersCounted DEF TypeInv
<1>2. /\ state \in {"idle", "waiting", "ready", "grabbing"} => drm_filp = SoleClient
      /\ was_update_requested => state = "waiting" /\ Inbox = 0
      /\ Inbox \in {0, 1}
      /\ Inbox = 1 => state \in {"waiting", "left"}
  BY DEF Sole
<1>3. CASE Connect(SoleClient)
  <2>1. /\ state = "closed" /\ state' = "idle" /\ drm_filp' = SoleClient
        /\ UNCHANGED <<was_update_requested, Inbox>>
    BY <1>0, <1>1, <1>3 DEF Connect
  <2> QED BY <1>2, <2>1 DEF Sole, DeviceStep, Link, Device!Next, Device!Connect
<1>4. CASE Disconnect(SoleClient)
  <2>1. /\ state \in {"idle", "waiting", "ready"} /\ state' = "left" /\ UNCHANGED Inbox
        /\ ~ was_update_requested'
    BY <1>0, <1>1, <1>2, <1>4 DEF Disconnect, DisconnectFile, NotInIoctl
  <2> QED BY <1>2, <2>1 DEF Sole, DeviceStep, Link, Device!Next, Device!Disconnect
<1>5. CASE Close(SoleClient)
  <2>1. /\ state \in {"idle", "waiting", "ready", "left"} /\ state' = "closed" /\ Inbox' = 0
        /\ ~ was_update_requested'
    BY <1>0, <1>1, <1>2, <1>5 DEF Close, DisconnectFile, NotInIoctl, painterVars
  <2> QED BY <2>1 DEF Sole, DeviceStep, Link, Device!Next, Device!Close
<1>6. CASE RequestUpdate(SoleClient)
  <2>1. /\ state = "idle" /\ state' \in {"waiting", "ready"} /\ UNCHANGED Inbox
        /\ drm_filp' = drm_filp
        /\ was_update_requested' => state' = "waiting"
    BY <1>0, <1>1, <1>6 DEF RequestUpdate
  <2> QED BY <1>2, <2>1 DEF Sole, DeviceStep, Link, Device!Next, Device!Request
<1>7. CASE ReadEvents(SoleClient)
  <2>1. /\ state \in {"idle", "waiting", "ready"} /\ Inbox' = 0
        /\ state' = IF state = "waiting" /\ Inbox = 1 THEN "ready" ELSE state
        /\ UNCHANGED <<drm_filp, was_update_requested>>
    BY <1>0, <1>1, <1>2, <1>7 DEF ReadEvents, NotInIoctl, painterVars
  <2> QED BY <1>2, <2>1 DEF Sole, DeviceStep, Link, Device!Next, Device!Read
<1>8. CASE GrabLocked(SoleClient)
  <2>1. /\ state = "ready" /\ state' \in {"idle", "grabbing"}
        /\ UNCHANGED <<drm_filp, was_update_requested, Inbox>>
    BY <1>0, <1>1, <1>8 DEF GrabLocked
  <2> QED BY <1>2, <2>1 DEF Sole, DeviceStep, Link, Device!Next, Device!Grab
<1>9. CASE GrabCopies(SoleClient) \/ GrabFails(SoleClient)
  <2>1. /\ state = "grabbing" /\ state' = "idle"
        /\ UNCHANGED <<drm_filp, was_update_requested, Inbox>>
    BY <1>0, <1>1, <1>9 DEF GrabCopies, GrabFails, EndGrab
  <2> QED BY <1>2, <2>1 DEF Sole, DeviceStep, Link, Device!Next, Device!Grab
<1> QED BY <1>3, <1>4, <1>5, <1>6, <1>7, <1>8, <1>9 DEF ClientStep

\* The compositor's step is not seen, or answers the request that is recorded.
LEMMA CompositorServes ==
    ASSUME TypeInv, Sole, Clients = {SoleClient}, CompositorStep
    PROVE  Sole' /\ DeviceStep
<1>0. /\ events \in [Clients -> Seq(Event)] /\ SoleClient \in Clients
      /\ commit.fb \in Fbs \cup {NoFb}
  BY DEF TypeInv, ClientTypeOK, DrmInv, DrmTypeOK, Commits
<1>1. /\ events'[SoleClient] = events[SoleClient] => Inbox' = Inbox
      /\ \A e \in Event : events'[SoleClient] = Append(events[SoleClient], e) =>
                              Inbox' = IF e = UpdateReady THEN Inbox + 1 ELSE Inbox
  BY <1>0, AnswersCounted DEF TypeInv
<1>2. CASE EndCommit \/ EndCursor
  <2>0. SendUpdateReadyIfNeeded
    BY <1>2 DEF EndCommit, EndCursor
  <2>1. CASE was_update_requested
    <3>1. client[SoleClient] = "waiting" /\ drm_filp = SoleClient /\ Inbox = 0
      BY <2>1 DEF Sole
    <3>2. events'[SoleClient] = Append(events[SoleClient], UpdateReady)
      BY <1>0, <2>0, <2>1, <3>1 DEF SendUpdateReadyIfNeeded, Send
    <3>3. Inbox' = 1
      BY <1>1, <3>1, <3>2 DEF Event
    <3> QED BY <2>0, <3>1, <3>3 DEF SendUpdateReadyIfNeeded, Sole, DeviceStep, Link,
                                    Device!Next, Device!Notify
  <2>2. CASE ~ was_update_requested
    <3>1. UNCHANGED <<client, events, drm_filp>> /\ ~ was_update_requested'
      BY <2>0, <2>2 DEF SendUpdateReadyIfNeeded
    <3> QED BY <3>1 DEF Sole, DeviceStep, Link, Inbox
  <2> QED BY <2>1, <2>2
<1>3. CASE SendModeChanged
  <2>1. /\ UNCHANGED <<client, drm_filp, was_update_requested>>
        /\ \/ events'[SoleClient] = events[SoleClient]
           \/ events'[SoleClient] = Append(events[SoleClient], ModeChanged(commit.fb))
    BY <1>0, <1>3 DEF SendModeChanged, Send, painterVars
  <2>2. commit.fb \in Fbs
    BY <1>3 DEF SendModeChanged, At, TypeInv, DrmInv, CommitShape
  <2>3. ModeChanged(commit.fb) \in Event /\ ModeChanged(commit.fb) # UpdateReady
    BY <2>2 DEF Event, ModeChanged, UpdateReady
  <2>4. Inbox' = Inbox
    BY <1>1, <2>1, <2>3
  <2> QED BY <2>1, <2>4 DEF Sole, DeviceStep, Link
<1>4. CASE \/ \E f \in Fbs, active \in BOOLEAN : Commit(f, active)
           \/ Commit(NoFb, FALSE) \/ CursorChange
           \/ \E f \in Fbs, clips \in ClipLists : DirtyFb(f, clips)
  BY <1>4, DeviceSame DEF Commit, CursorChange, DirtyFb, painterVars, clientVars
<1>5. CASE \/ PlaneUpdate \/ SetScanout \/ CountDirts \/ MarkFull \/ Flush \/ FullModesetDone
           \/ CursorMark
  BY <1>5, DeviceSame DEF PlaneUpdate, SetScanout, CountDirts, MarkFull, Flush,
                          FullModesetDone, CursorMark, painterVars, clientVars
<1>6. CASE DirtyFbStep
  BY <1>6, DeviceSame DEF DirtyFbStep, DirtyFbMark, DirtyFbCommit, DirtyFbNoCommit, painterVars,
                          clientVars
<1> QED BY <1>2, <1>3, <1>4, <1>5, <1>6 DEF CompositorStep, CommitStep, CursorStep

\* A client that has the device to itself is served as EvdiDevice says, whatever the
\* compositor does between its steps: it has one request at a time, one answer to it,
\* which is gone when it closes, and one grab for each answer.
THEOREM ServesSoleClient ==
    ASSUME Clients = {SoleClient}
    PROVE  Spec => ImplementsDevice
<1>1. Init => TypeInv /\ Sole /\ Device!Init
  BY InitType, InitServed
<1>2. TypeInv /\ Sole /\ [Next]_vars => (TypeInv /\ Sole)' /\ DeviceStep
  <2> SUFFICES ASSUME TypeInv, Sole, [Next]_vars PROVE TypeInv' /\ Sole' /\ DeviceStep
    OBVIOUS
  <2>1. TypeInv'
    BY NextType
  <2>2. CASE Next
    BY <2>1, <2>2, ClientServed, CompositorServes DEF Next
  <2>3. CASE UNCHANGED vars
    BY <2>1, <2>3, DeviceSame DEF vars, painterVars, clientVars
  <2> QED BY <2>1, <2>2, <2>3
<1> QED BY <1>1, <1>2, PTL DEF Spec, ImplementsDevice, Device!Spec, DeviceStep

=============================================================================
