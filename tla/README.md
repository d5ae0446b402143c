# kernelflut: a verification development

kernelflut makes a pixelflut wall a virtual monitor. The evdi kernel module
(`src/evdi/module`) pretends that a monitor is connected, collects what the
compositor damages and lets one user-space client grab the damaged pixels;
kernelflut (`src/*.c`) is that client, through libevdi (`src/evdi/library`), and
sends the pixels to a pixelflut server over a pool of TCP connections.

This directory holds TLA+ models of the program, the configurations that check
them with TLC, and theorems about them checked by TLAPS. `PROJECT.json` lists
components, runs, findings, hazards and theorems, and maps every definition to
the lines it models.

## 1. Inventory

| component | state | operations | interacts with |
|---|---|---|---|
| `kernelflut.c` main, loop | `doomed` (set by SIGINT), `pt_active`, `pt_trial`, exit status | connect, set up, loop, shut down | evdi.c and pixelflut.c by calls; SIGINT handler by `doomed` |
| `evdi.c` | `ehandle`, `evdi_connected`, `epoll_fd`, two buffers and their registration, `fbid`, `ebuf_ready_fbid` | `evdi_setup`, `evdi_get`, `evdi_wait`, `evdi_cleanup` | libevdi by calls and one callback (`update_ready_handler`) |
| `pixelflut.c` | `last_buf`, `skip_reblit`, `active_conn_i`, sockets | `pf_connect`, `pf_set_buf`, `pf_close` | the server; the buffers evdi.c fills |
| libevdi (`evdi_lib.c`) | device handle, list of registered buffers, `bufferToUpdate` | connect, request, handle events, grab, disconnect, close; find, add, open a device | the driver by ioctls and by reading events |
| event list (`evdi_painter.c`, DRM) | the `list_head` of a client's events | append by any sender, read, drop at close | senders in the painter; clients by `read` |
| painter (`evdi_painter.c`) | `drm_filp`, `scanout_fb`, `dirty_rects[16]`, `num_dirts`, `was_update_requested`, `needs_full_modeset`, one mutex | connect, disconnect, request, grab, mark, set scanout buffer, senders of events | clients by ioctls and their event lists; modeset thread and dirtyfb by calls |
| modesetting (`evdi_modeset.c`) | none of its own (DRM's atomic state) | atomic flush, plane update, cursor set and move | painter, cursor |
| framebuffers (`evdi_fb.c`) | reference counts, fbdev emulation | dirtyfb, create, remove, handle, unplug | painter, modesetting, GEM |
| cursor (`evdi_cursor.c`) | position, `enabled`, `obj`, a mutex | set, move, enable, compose, free | GEM; read by grabs |
| GEM (`evdi_gem.c`) | reference count, handles, `pages`, `vmapping`, mmap offset, import attachment | create, map, fault, export, import, free | grabs, cursor, user space |
| driver (`evdi_main.c`, `evdi_drv.c`) | `evdi_context`: `dev_count`, array of platform devices; what a card's setup has allocated | load, unload, probe, remove, open, close, sysfs add and remove_all | all of the above |
| connector, encoder, 32-bit ioctls, parameters, logging | none worth a model | callbacks, field copies | DRM |

What is hard in it:

* **Concurrency in the driver.** The painter's mutex is taken in short sections;
  what the code decides in one it uses in another, or outside all of them.
  `needs_full_modeset` and the senders' `drm_filp` are used without it. A grab
  goes on copying after the unlock. dirtyfb marks before it takes the modeset
  locks.
* **Lists without a lock.** Events are appended without DRM's `event_lock`, and
  `evdi_context` is written by the loading module and by every process that
  writes to the sysfs files.
* **Sharing on demand.** Handles, framebuffers, the cursor, memory mappings and
  other devices hold the same GEM object; whoever comes first makes its pages and
  its kernel mapping, under no common lock.
* **A wake-up protocol.** A request is either answered at once or remembered,
  and the next commit answers it; requests, damage and commits race.
* **A bounded array** that is merged and collapsed in place when it is full.
* **Failures part of the way.** Grabs fail after the list was emptied;
  `evdi_setup` fails with some resources held; `evdi_connect` fails unnoticed;
  mappings, imports, framebuffers, probes and the module's own loading have exits
  at each step.
* **Removal under open files.** A card may be removed while processes have it open
  and are inside an ioctl.
* **Signals and lost servers.** SIGINT and SIGPIPE come at any step.
* **Stale buffers.** kernelflut compares each update with a buffer that is not
  what was sent last.

What makes each part correct is the list of properties in section 4;
`PROJECT.json` "hazards" ties each hazard to its line and its properties.

## 2. Plan

Done, in this order: the dirty rectangles (the smallest closed piece, with
loops that can be proved about), the painter with its threads (the heart of the
system), the contract of the device, the kernelflut process against that
contract, the sending of pixels; then the parts around the painter: the event
list at the grain of single pointers, GEM objects with framebuffers and cursor,
and the cards of the driver.

Still to do, in order of what they can go wrong with:

1. libevdi's discovery of the device node (`wait_for_device`, `wait_for_master`,
   `find_unused_card_for`) against cards that come and go in `EvdiDriver`.
2. The scatter tables of exported objects (`obj->sg`).

Behaviours the models already show, but for which no run is kept, are in
section 6.

## 3. Modules

```
EvdiRects  <--- EvdiDirtRegion  <== implements ==  EvdiDirtList  <--- EvdiDirtListProofs
    ^                                                    |
    |   (MergeAssumption, CollapseAssumption)  <---------+
EvdiPainter <--- EvdiPainterProofs <--- EvdiPainterSafetyProofs
    ^                                          |
EvdiPainterDevice  <---------------------------+
    == implements ==> EvdiDevice <== uses == Kernelflut <--- KernelflutProofs
                                                 | (one step = one pf_set_buf)
                                             Pixelflut  <--- PixelflutProofs

EvdiEventList    below EvdiPainter: how its events are appended and read
                                                        <--- EvdiEventListProofs
EvdiBuffers      below EvdiPainter: the memory of its framebuffers and of the cursor
                                                        <--- EvdiBuffersProofs
EvdiDriver       around EvdiPainter: the cards it is part of <--- EvdiDriverProofs
```

* **EvdiRects** -- `expand_rect`, `rect_area`, `sanitize_rect`,
  `merge_dirty_rects` and `collapse_dirty_rects` as operators on sequences
  (`merge_rects` is a recursive function), and `Compacts`, what the painter
  relies on: no longer, and covering no less.
* **EvdiDirtList** -- the C array and the loops: one step per test and per
  iteration of `merge_dirty_rects` and `collapse_dirty_rects`, run by the locked
  sections of `mark_dirty` and `grabpix`. The rest of the array holds what was
  left there. **EvdiDirtRegion** is its abstraction: mark, take and keep are
  atomic and only ever cover more.
* **EvdiPainter** -- the painter with its clients, the modeset thread and
  dirtyfb. One locked section is one step; what the code does between two of
  them is a step of its own. `commit.pc` is the modeset thread's place between
  `evdi_crtc_atomic_check` and `evdi_painter_send_update_ready_if_needed`;
  `grab[c]` is what grabpix carries past the unlock. `refs` counts the painter's
  `drm_framebuffer_get` and `put`. A cursor ioctl holds the CRTC's lock, so no commit
  is checked and begun while it runs; but the worker of a nonblocking commit holds
  no lock, so the ioctl's steps (`CursorChange`, `CursorMark`, `EndCursor`) fall between
  those of a commit begun before. dirtyfb marks under no such lock either; then it
  commits, or ends without (`DirtyFbNoCommit`: no plane shows its framebuffer, or one of
  the failing exits of evdi_fb.c:287-325). The two algorithms are CONSTANT operators
  with the assumptions `MergeAssumption` and `CollapseAssumption`; the configurations put
  in the ones of `EvdiRects`.
  `unseen`, `dropped` and `announced` are history variables: the damaged pixels
  no grab has delivered, those of them a failed grab has forgotten, and the mode
  the client was last told.
* **EvdiDevice** -- what a sole client may count on: connect, ask, be told, at
  once or by one event, grab. **EvdiPainterDevice** maps `EvdiPainter` to it.
* **Kernelflut** -- the process: every step of the setup with its failures, the
  loop of `evdi_get` and `evdi_wait`, rectangles of an update, SIGINT at any
  step, SIGPIPE, and the next run on the same device. It takes its device steps
  from `EvdiDevice` (an answer from the driver is the separate action `Notify`).
* **Pixelflut** -- `pf_set_buf` pixel by pixel: the rounds, the comparison with
  `last_buf`, the reblit counter and the pool. The virtual screen and the server
  are external: an update is a change of the screen inside the reported
  rectangles (which `DamageKept` says cover it), and each connection delivers
  in order, independently of the others.
* **EvdiEventList** -- `EvdiPainter` appends an event in one step. Here
  `list_add_tail` is three: reading `head->prev`, linking the head to the event,
  linking the last event to it; and `drm_read` takes an event off in two writes. Only
  `update_ready` is sent with the painter's lock, so a commit's worker and a
  cursor's ioctl can be between these steps at once. `raced` remembers the lists to
  which that happened, `faulty` the events whose sender found the client gone after
  it had tested `drm_filp`; `sent` and `got` are the history of each file.
* **EvdiBuffers** -- objects with their reference counts, pages and kernel mapping;
  handles, mmap offsets and memory mappings per file; framebuffers, the plane, the
  painter's scanout buffer; the cursor; imports and exports. One step runs under one
  lock or between two accesses of an object's pointers, so two threads
  can both find an object unmapped and both map it; `overlap` remembers such objects.
  All handles of an object count as one reference, as in DRM (`handle_count`).
  Composing a cursor only reads. A compositor that dies is no action
  of its own: closing its file is a sequence of `RmFb` and `HandleClose` steps.
* **EvdiDriver** -- `evdi_context` without a lock: registering a device, storing it,
  following what is then found there, reading and writing `dev_count` are steps of
  their own, for every writer of `add` and for the module while it loads; so are the
  steps of `evdi_remove_all`. One call that the driver core serialises, such as
  `platform_device_unregister` with the unload of the card, is one step; that DRM
  closes the card to new files and ioctls first, which `StaleOnlyOrphans` needs, is
  taken from DRM. A probe brings the card up (with or without the framebuffer of the
  fbdev emulation, which waits for a monitor), or fails: in `drm_dev_register`, which
  leaves everything `evdi_driver_setup` made (`Made`), or in the setup, whose error path
  frees the device and not the modeset objects (`Undone`), and may kill the thread.
  `Failures` are the ways an instance allows. `evdi_init` may go on without its sysfs
  files. What a read behind the array finds is NULL, a bad pointer or any device ever
  registered (`DevicesAt`). `raced`,
  `oopsed` and `botched` remember that two threads were in the list at once, that
  one died, that `evdi_init` failed half way; `orphaned` and `stale` the files whose
  card was removed, and those that met the freed `evdi_device`.
* **MCDirtList, MCPainter, MCPixelflut, MCBuffers, MCEventList, MCDriver** -- the
  rectangles, sizes, clips, pictures, objects and threads of the instances, with
  their symmetries. `Kernelflut` needs none.

Operators whose name extends that of another and whose comment begins with
"Mutant of" are deliberate errors in it: a wrong version the properties must catch.
No specification uses them.

## 4. Runs

Passing:

| run | instance | states | properties |
|---|---|---|---|
| `dirt_list` | 3 slots, 3 x 3 pixels, five rectangles | 47 525 | loops end (`SectionEnds`), keep every pixel (`CoverageKept`), fit (`FitsAtFinish`), compute `merge_rects` (`LoopComputesMerge`), implement `EvdiDirtRegion` |
| `painter` | 1 client connecting twice, 2 framebuffers of different shape, no memory | 3 789 225 | `DamageKept`, `WaiterWillBeWoken`, `RefsBalanced`, `ScanoutFollowsPlane`, `FirstModeAnnounced`, `ImplementsDevice` |
| `painter_live` | 1 client, 2 framebuffers of one pixel, no monitor, no memory, atomic modesetting, fairness | 580 865 | `DirtIsGrabbed` |
| `event_list` | 2 clients, 2 senders, 3 events, fairness | 171 331 | `ListIsQueue`, `UpdateReadyMeetsClient`, `EventsAreRead` |
| `buffers` | a dumb buffer and an imported one, 2 framebuffers, 2 clients | 859 194 | `ObjectRefsExact`, `FbRefsExact`, `NothingLeftBehind`, `ReadsAreMapped` |
| `driver` | 2 slots, 3 devices, 1 writer, 1 file, 3 ways to fail | 11 384 892 | `CardsListed`, `UnloadedClean`, `WritersMeetModule`, `StaleOnlyOrphans` |
| `kernelflut` | pool of 2, updates of 0 to 2 rectangles, 5 trials, unbounded reruns | 624 | `GetInStep`, `UsesDevice`, `ReadyIsGrabbed`, `InterruptEnds`, `ReleasedAtExit` |
| `pixelflut` | 8 x 1 pixels, 3 pictures, 2 connections, `-b` | 375 344 | `EachPixelOnce`, `ChangedPixelsSent`, `WallSettles`, `RepaintedInTime`, `UpdateIsSent` |

Each also checks the type invariant of its module, `painter_live` excepted.

* `ImplementsDevice` says, among the rest, that an `update_ready` answers a request
  the client still waits on, and that there is at most one.
* `DamageKept` covers a cursor ioctl that marks, beside a commit's worker, the size of a
  scanout buffer that is gone by then, or nothing because there was none yet.
* `DirtIsGrabbed` is about damage that is there while a commit or a cursor change is
  under way: one of them sends `update_ready`. It fails, too, if that damage waits behind
  a request that is pending. What dirtyfb marks and does not commit is announced by
  nobody and waits for the next of them (section 6).
* `ListIsQueue` speaks of lists that no two threads changed at once; of the others it
  says that no event is read twice. `EventsAreRead` leaves them out; what happens to
  them is `event_lost`.
* `NothingLeftBehind` and `ReadsAreMapped` leave out the objects two threads were
  mapping at once (`overlap`): there a mapping leaks, or one thread's failure clears
  the other's pointer. The counts (`ObjectRefsExact`, `FbRefsExact`) hold always.
* `UnloadedClean` says of an unloaded module, however writers race with `evdi_exit`,
  that no thread has died in it (a removal that kills its thread, `oopsed`, keeps the
  module from ever being unloaded), that no card is up, also of those added after
  `remove_all`, and that a card that was up has left only its painter. Only "no platform
  device is left", and all of `CardsListed`, are about writers that come one at a time
  (`raced`). A failed `evdi_init` (`botched`), and what failed probes leave, which
  nothing ever frees, are not in it (section 6).
* `WritersMeetModule` and `StaleOnlyOrphans` hold of any writers. `StaleOnlyOrphans`
  does not deny the use after free; it says which files can meet it.

Violated, each a disagreement between the code and what is said of it
(`PROJECT.json` "findings"):

* `reconnect` -- `ModeAnnounced` fails once a client disconnects and connects
  again: `mode_changed_notify` clears `needs_full_modeset` without the lock after
  it has sent to the client it saw, so a client that connects in between is
  never told the mode.
* `event_lost` -- `UpdateReadyArrives` fails: two senders read the same last event, and
  the later one to link leaves the other's event off the list.
* `two_rects` -- `ChangedPixelsSent` fails for an update of two rectangles:
  `last_buf` is set after the first, and the second is compared with itself.
* `stale_buffer` -- `ChangedPixelsSent` fails for updates of one rectangle each:
  the two framebuffers alternate and only damage is copied, so the other one is
  older than what was sent, and a pixel that changes back is skipped.

### Bounds, and why they are enough

* `MAX_DIRTS` 3 or 2 stands for 16. Merging needs two rectangles, the repass
  after a merge three; a full array is reached in two or three marks.
  The proofs hold for any capacity of at least two.
* Coordinates up to 3 (2 in the painter), framebuffers of 2 x 1 and 1 x 2 pixels:
  a rectangle may fit in one and be too large for the other, corners may be
  swapped, rectangles may be empty after clamping, areas may merge or not. dirtyfb
  has one clip, on either framebuffer; more of them are more marks. In `painter_live`
  only whether something is dirty matters, so the screens are single pixels.
* `MaxConnects` 2: a reconnect. Clients that replace one another are in `event_list`
  and `buffers`, and in the theorems about `EvdiPainter`, which hold for any number.
* `MaxEvents` 0 (1 in `painter_live` and `reconnect`): a commit starts only while no
  event list is longer. It adds a `mode_changed` and perhaps an `update_ready`, so lists
  grow to two (three). The properties tell apart only whether an `update_ready` is
  queued, how many, and the last mode; the theorems hold for any bound.
* `Pool` 2, `MaxRects` 2: a failure with connections open, an interruption
  between two rectangles. `PT_TRIALS` is 5 as in the code.
* 8 x 1 pixels: a row longer than the five rounds, for which the rows' start
  is proved for every rectangle (`PixelOnce`). `REBLIT_FREQUENCY` is 3: as with 23 in
  the code, it does not divide the number of pixels of an update; the pool
  divides it, as 2, 4 or 8 connections divide every common screen. `SNDBUF` bounds a
  socket buffer so that sending blocks.
* Three events, one an `update_ready`, from two senders to two files: two appends
  meet while a third event is on the list or being read, and one client replaces
  another.
* `MaxBusy` 2: two ioctls on an object at once; a third could meet nothing the two
  do not. `Users` names which ioctls a behaviour may use, in sets that bring every
  pair that can meet on an object together; `MaxMaps` 2 lets one mapping leak.
* Three platform devices for two slots: one too many can be asked for and, in a
  race, be added. One `remove_all` besides that of `evdi_exit`; `add` of 0, 1 or 2.
  The one writer races with the module's own thread, which adds while it loads and
  removes while it exits, so every pair of operations on `evdi_context` meets; the
  theorems are for any number of writers. `Failures` has one way to fail in
  `drm_dev_register` and two in the setup, one of which kills the thread; the theorems
  are for any of those the code has. `SYMMETRY` (framebuffers and clients in
  `buffers`; devices in `driver`) is used in runs without temporal properties, over
  values the modules only compare.

### Environment and fairness

`Env` names what the surroundings may do: "atomic" (a mode set while the screen is
off), "no monitor" (a screen turned on without one), "no memory" (a grab that cannot
map); "connect fails" and "server goes" for `Kernelflut`. `painter_live` has the
first three, `painter` the third, `reconnect` none. `FirstModeAnnounced` is checked,
and proved, without the first two, because it does not hold otherwise (section 6);
`ScanoutFollowsPlane`, too, speaks of the first connection, but is proved in any `Env`.
In `EvdiBuffers` every mapping, framebuffer, cursor change and import may fail, in `EvdiDriver` every
registration and probe.

`CHECK_DEADLOCK FALSE` is set where a behaviour may really end: all
events are sent and all files closed (`event_list`, `event_lost`), all objects freed
(`buffers`), all platform devices used up and the module gone or dead (`driver`).

Fairness is weak fairness of whole threads, never of a choice they make:

* `EvdiDirtList`: the section that runs goes on; it holds a lock and does not sleep.
* `EvdiPainter`: a commit and a cursor ioctl that have begun go on (kernel threads),
  and so does a client, which asks, reads and grabs whatever events come in. Nothing is
  asked of dirtyfb; the compositor need not commit or move the cursor again, no client
  need connect.
* `EvdiEventList`: a sender that has begun goes on, and a client that is open goes on
  reading. Nobody has to open, connect, close or send.
* `Kernelflut`: the process runs. Nothing has to fail: errors of `epoll_wait`
  and SIGPIPE are outside the fair steps. While no answer comes it may wait for ever.
* `Pixelflut`: the process runs, the server reads each connection, updates come.

## 5. Proofs

Each module ending in `Proofs` proves what it says for every value of the
constants that meets the modules' assumptions.

* `EvdiDirtListProofs`. The inductive invariant `IInv` adds to `TypeOK`,
  `CoverageKept` and `FitsAtFinish` the ranges of the loop indices and
  `CollapseCovers`: while `collapse_dirty_rects` runs, entry 0 already covers the
  entries before index b. That is needed because the entries that were folded in are
  only dropped at the end. *Typing*, *Coverage*, *Fits* and *Refinement* (the
  loops implement `EvdiDirtRegion`) follow.
  *MergeIsComputed*: while it merges, what `merge_rects` makes of the list given is
  what `MergeFrom` makes of the array from the pair (a, b) on. That `MergeFrom`, a
  recursive function, satisfies its equation is shown first (`MergeFromIs`): its result
  is read off the smallest set of states closed under the loop's steps.
  *MergeCompacts* and *CollapseCompacts* say that `merge_rects` and `collapse_rects` do
  what `MergeAssumption` and `CollapseAssumption` ask, for lists of any length. Of the
  states from which merging would lose something one has the shortest array, then the
  largest a, then the largest b, and the next state would be another; for
  `collapse_rects` it is the first entry at which the fold would.
* `EvdiPainterProofs`. `TypeInv` adds to the types what a step needs of the
  places of the threads (a commit at the plane has a framebuffer, a client that is
  grabbing has one too). It assumes `MergeAssumption` and `CollapseAssumption`, which
  are proved of the functions the configurations put in (*MergeCompacts*,
  *CollapseCompacts*). *Typing* includes that the list never exceeds `MAX_DIRTS`.
* `EvdiPainterSafetyProofs`, from `TypeInv`.
  * *NoLostWakeUp*: `WaiterWillBeWoken` is inductive. A request is recorded in the
    section that reads `num_dirts`, and `was_update_requested` is cleared in the
    step that queues the answer.
  * *NoLostDamage*: `DamageKept` is inductive once the full mark a commit still owes
    is counted (`FullMarkPending`): between `set_scanout_buffer` and `mark_dirty`
    the new buffer's pixels are covered by nothing else. What a cursor ioctl marks in
  that time may be too small, or nothing; it never takes away.
  * *BalancedRefs*: `RefsBalanced` is inductive with `GrabsEnd`, which says that a
    client outside of grabpix holds no framebuffer; without it a second grab could
    hide the first.
  * *FollowsPlane*: as long as nobody but the first client was ever connected
    (`Undisturbed`), a commit that has reached `evdi_plane_atomic_update` carries the
    plane's framebuffer, and one that leaves the plane as it was finds the painter
    with it already (`Follows`). It needs nothing of `Env`.
  * *FirstIsTold*: then, too, the client was told the size (`Told`), or
    `needs_full_modeset` is still set, or the commit under way is a mode change of an
    active CRTC that will come to tell it (`Telling`). The hypothesis `Legacy` keeps
    "atomic" and "no monitor" out of `Env`: with either, a mode is set that
    nobody announces later.
  * *ServesSoleClient*: the refinement of `EvdiDevice`, for `Clients = {SoleClient}`.
    Its invariant `Sole`: the client that is connected is the painter's, a
    request that is recorded is one it waits for with nothing in its inbox,
    and the inbox holds at most one answer. (A second client would
    replace the first, which `EvdiDevice` does not know.)
* `EvdiEventListProofs`. *Typing*, *ReadyMeetsClient* and *QueueOrder*. As two threads
  may write one pointer, the invariant has a part that holds however they race: no
  pointer leads from one file's list to another's (`ListsApart`), and an event that
  was read is pointed to by nobody (`BackAndForth`), so that it is not read
  again. `Chain` is about the lists that no two threads changed at once: place i of
  the list is event i of `sent`, those that were read left out, and each
  half-made append or removal has changed what it should have. `SendersAt`
  says that the sender of `update_ready` has the lock, and with it a client that is
  open.
* `EvdiBuffersProofs`. *Typing*, *ObjectRefs*, *FbRefs*, *NothingLeft* and *Reads*. The
  counts are inductive only together with what each thread has in its hands where it
  is (`Control`), what an object's pointers show and that they are clear unless it
  lives (`Memory`), and the attachments (`Attach`). `Mappers` says that, outside of
  `overlap`, a thread between the test and the set of a pointer is the only one.
* `EvdiDriverProofs`. *Typing*, *ModuleOutlivesWriters* and *OnlyOrphansMeetFreed*,
  with races, failed probes and dead threads all allowed. The invariant adds
  `Places` (a thread that adds has cards left to add, and the
  module's own thread is where loading or exiting puts it), `Present` (while anyone works
  the module is there) and `Led` (an open file leads to a card that still
  has its `evdi_device`, unless the file is orphaned; no file is open while the
  module exits, so what the exit frees is met by nobody). `Down`, too, holds
  however threads race: from the moment `evdi_exit` has unregistered the driver no
  card is up and no probe can bring one up, and a thread that died is dead for
  good, with the module never out after it: the module's own thread does not go on,
  and a writer's is waited for. *CardsKnown* and *UnloadLeavesNothing* also
  need `CInv`: what a thread has in hand by its place
  (`Hands`), what a device has allocated by its card (`Allocated`) and, while the
  threads come one at a time, that only one is under way and how far it has got with
  `devices` and `dev_count` (`Serial`).
* `KernelflutProofs`. *Typing*, *InStep*, *Released* and *DeviceUse* (the refinement of
  `EvdiDevice`). The invariant says by main's place what it holds (`Holding`), what
  it will return (`Ending`), where the device is in its protocol (`Protocol`)
  and whether `ebuf_ready_fbid` holds an answer for the buffer in hand (`Answered`).
* `PixelflutProofs`. *Typing* and *PixelOnce*. The invariant `Traversal`
  says that `visited` is the set of pixels `Before` the loops' place, where the
  round a pixel belongs to is `Turn` (3d - y modulo 5, d columns into the
  rectangle): the inverse of the row starts, as 2 * 3 = 1 modulo 5.
  What is sent is proved for updates of the whole screen, as one rectangle
  (`WholeScreen`), which is what a client gets after it connects and from a compositor
  that gives no damage; for others `ChangedPixelsSent` is false, as the runs
  `two_rects` and `stale_buffer` show.
  * *ScreenIsSent*: what an update has looked at has its new colour and the rest
    that of the buffer it is compared with (`Shown`).
  * *LanesKeepOrder*: a pixel keeps its connection when the pool divides the number
    of pixels (`PoolDivides`), since its place in the traversal (`Rank`) is always
    the same (`Lanes`); so the last message about it is the last to arrive
    (`Arriving`). Without that, an old colour can overtake a new one.
  * *RepaintedEachCycle*: when the number of pixels and `REBLIT_FREQUENCY` are
    coprime, which is stated as an inverse m of the one modulo the other (`Undoes`),
    m times the counter as it was when a pixel was last looked at is, modulo the
    frequency, the number of looks since that counter was 0, and the pixel's age is at
    most that (`Ages`). Section 6 says
    what happens at a multiple of 23.

The hypotheses are met in the run that checks the property, so TLC and TLAPS speak
of the same thing. Besides what bounds the
instances, the constants are assumed to be finite sets where something is counted
(framebuffers and clients in `EvdiBuffers`, clients in `EvdiPainter`, files and events
in `EvdiEventList`), and in `EvdiBuffers` clients are named apart from the threads.

Only model-checked: liveness (`SectionEnds`, `DirtIsGrabbed`, `EventsAreRead`,
`InterruptEnds`, `ReadyIsGrabbed`, `UpdateIsSent`), which TLAPS does not reach. Every
other property of a passing run is a theorem, under the hypotheses named above.

## 6. Seen while modelling, without a run

Behaviours of the code that disagree with a document, or surprise; the models
contain them unless section 7 names them:

* A grab empties the list before the steps that can fail (evdi_painter.c:816);
  its damage is reported to nobody. `DamageKept` sets those pixels apart in
  `dropped`.
* `evdi_painter_disconnect` keeps the dirty rectangles, so the first request of
  the next connection may be answered at once although there is no scanout
  buffer; the grab returns -EAGAIN.
* A mode set while the CRTC is inactive is not announced when it becomes active
  (evdi_modeset.c:71); `Env` "atomic" shows it.
* A disconnect and a connect during a notification can leave `needs_full_modeset`
  false without a scanout buffer: grabs fail until the next flip.
* dirtyfb marks the framebuffer on screen even if its clips belong to another, and
  then commits nothing; nor does it when it fails after its marks (a signal, a
  deadlock it backs out of, no memory, evdi_fb.c:287-325): such damage waits for the next
  commit or cursor change.
* `skip_reblit` has the phase of the pixel count: if an update has a multiple of
  23 pixels, the reblit of `-b` falls on the same pixels for ever.
* `-b` does not refuse to send the background colour: the first update and pixels
  that turn into it are sent.
* `evdi_connect` discards the driver's refusal; kernelflut then waits until
  SIGINT ("connect fails" in the `kernelflut` run).
* `-p` counts rectangles, not updates; main returns without `pf_close` when
  `evdi_setup` fails; `get_first_device` never closes its directory.
* Two threads that map one object at once leak a mapping; if one of them fails, it
  clears the pointer the other relies on (evdi_gem.c:208-230).
* `evdi_map_dma_buf` keeps its scatter table in the one `obj->sg`: a second attachment
  overwrites it, a failure leaves an `ERR_PTR` there (evdi_gem.c:407).
* `evdi_prime_create` does not put the object whose page array it cannot allocate
  (evdi_gem.c:324).
* Without blending, every cursor change makes a handle in the client's table, and
  nothing but closing the file drops it (evdi_painter.c:264): the objects live on.
* `fb->active`, which `evdi_fb.c:106` tests, is set nowhere.
* `evdi_painter_cleanup` frees everything but the painter itself.
* Removing a card for which no monitor was ever connected gives DRM a framebuffer
  that was never made (evdi_fb.c:493) and kills the thread.
* `evdi_init` that fails half way leaves its sysfs files, and perhaps its driver,
  behind; a registration that fails stores and follows an `ERR_PTR` (evdi_drv.c:142);
  a device added between `remove_all` and the end of `evdi_exit` stays registered.
* A card whose `drm_dev_register` fails keeps all that its setup made
  (evdi_drv.c:185-197). The setup's own error path (evdi_main.c:65-75) never frees the
  modeset objects, reads `evdi->cursor` after it has freed `evdi`, and may undo a
  framebuffer that was never made.
* `evdi_add_device` of libevdi returns the two bytes it has put into a buffer, also when
  the driver then refuses them; docs/details.md:50 promises 1 or 0.

## 7. Not modelled

libevdi's discovery of the device node: it asks every tenth of a second, for five
seconds, and ends with a node or without one, which is the choice `Kernelflut`
makes. Of the driver: the attributes count, version and loglevel; foreign memory
behind `devices` other than as NULL, a bad pointer or a device. Of GEM: scatter
tables. Of the framebuffers: drawing through fbdev, which marks damage as dirtyfb
does. Within modelled files: a second connect on
the same file (driver and libevdi accept one after a disconnect, or without; `Connect`
and `EvdiDevice` start from a freshly opened file, as kernelflut does, so that a new
connection finds no unread `update_ready` of the former one, and `ImplementsDevice` says
nothing about a client for which it would); `evdi_atomic_check` and DRM's swap of
the state as two steps; DPMS, CRTC-state and cursor events (their sending is
`EvdiEventList`'s; what they say is state the painter does not keep, and
kernelflut has no handler for them); the EDID; the pixels of a grab and of the
cursor's composition; error messages; the clipping options `-d` and `-o`; `pf_size`
and `pf_set`, which nobody calls; the cursor plane of evdi_modeset.c, which is
compiled out. Connector, encoder, 32-bit ioctls, parameters and logging hold no state.

Rectangle arithmetic is unbounded in the models: rectangles are clamped to the
framebuffer, and the connector refuses modes above `sku_area_limit`
(evdi_connector.c:72), so that the `int` areas of evdi_painter.c:94 do not overflow.
